---------------------------- MODULE SyncPairing ----------------------------
(***************************************************************************)
(* What the Sync/Follow_Up matcher of a port promises, without the port:   *)
(* it keeps at most one half of a pair, the half is the last message it    *)
(* accepted, and time is taken from a Sync and a Follow_Up only if they    *)
(* carry the same sequence number.  A half takes part in one pair at most. *)
(***************************************************************************)
CONSTANTS NULL, SeqIds, Sources

VARIABLES
  half,   \* the message waiting for its other half, NULL if there is none
  pair    \* the last pair that was used, NULL before the first one

Message(kind) == [kind : {kind}, src : Sources, seq : SeqIds]
Messages == Message("SYNC") \cup Message("FOLLOW_UP")
Pairs == [sync : Message("SYNC"), fup : Message("FOLLOW_UP")]

Init == half = NULL /\ pair = NULL

Keep(m) == half' = m /\ pair' = pair

Forget == half' = NULL /\ pair' = pair

\* The kept message and the other half, m, are used together.
Use(sync, fup) ==
  /\ half \in {sync, fup}
  /\ sync.seq = fup.seq
  /\ half' = NULL
  /\ pair' = [sync |-> sync, fup |-> fup]

Next ==
  \/ \E m \in Messages : Keep(m)
  \/ Forget
  \/ \E sync \in Message("SYNC"), fup \in Message("FOLLOW_UP") : Use(sync, fup)

Spec == Init /\ [][Next]_<<half, pair>>
=============================================================================
