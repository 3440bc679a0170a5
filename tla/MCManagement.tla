---------------------------- MODULE MCManagement ----------------------------
(* Three clocks with two ports each, in a line and in a ring; a client at the  *)
(* first of the line, and another in the middle or at the same socket.         *)
EXTENDS Management

MCLine == {{<<"a", 2>>, <<"b", 1>>}, {<<"b", 2>>, <<"c", 1>>}}
MCTopologies == {MCLine, MCLine \cup {{<<"a", 1>>, <<"c", 2>>}}}
MCHeld == {{}, {<<"b", 2>>}}
MCHomes == {[x |-> "a", y |-> "b"], [x |-> "a", y |-> "a"]}

Command(act, id, tclk, tport, hops) ==
  [act |-> act, id |-> id, tclk |-> tclk, tport |-> tport, hops |-> hops, zero |-> FALSE]
Message(act, id, body, tclk, tport, hops) ==
  [act |-> act, id |-> id, body |-> body, tclk |-> tclk, tport |-> tport, hops |-> hops]

MCPmcCommands ==
  {Command("GET", "DEFAULT_DATA_SET", ALL, ALL, 2), Command("GET", "PORT_DATA_SET", ALL, 1, 1),
   Command("SET", "PRIORITY1", ALL, ALL, 1), Command("SET", "PRIORITY1", "a", ALL, 0),
   Command("SET", "PORT_DATA_SET_NP", "a", ALL, 0), Command("GET", "PORT_DATA_SET", "c", 3, 2)}

\* Also a subscription, commands, unknown IDs, and bodies of a wrong length.
MCRequests ==
  {Message("SET", "SUBSCRIBE_EVENTS_NP", "right", "b", ALL, 0),
   Message("COMMAND", "ENABLE_PORT", "none", ALL, 1, 0), Message("GET", "none", "none", "c", ALL, 2),
   Message("GET", "PORT_PROPERTIES_NP", "none", ALL, ALL, 1), Message("SET", "PRIORITY1", "none", "b", ALL, 0),
   Message("GET", "PORT_DATA_SET", "long", "b", ALL, 1)}
=============================================================================
