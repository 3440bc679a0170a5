------------------------------ MODULE MCServo ------------------------------
(* Small instances of Servo for TLC. *)
EXTENDS Servo

Conf(type, step, first, limit, est, osc) ==
  [type |-> type, step |-> step, first |-> first, maxf |-> 2, limit |-> limit, est |-> est, osc |-> osc]

\* The default, one that steps always, one that never steps and checks nothing;
\* the other servos.
Servos == { Conf("pi", 0, 2, 5, 1, 1), Conf("pi", 2, 2, 3, 2, 1), Conf("pi", 0, 0, 0, 1, 1),
            Conf("linreg", 0, 2, 5, 1, 1), Conf("nullf", 0, 2, 5, 1, 0), Conf("ntpshm", 0, 2, 5, 1, 0) }
Offsets == {-9, 1}
=============================================================================
