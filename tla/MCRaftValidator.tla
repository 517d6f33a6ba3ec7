---------------------------- MODULE MCRaftValidator ----------------------------
(***************************************************************************)
(* Instances of RaftValidator for TLC.  A bundle needs the signatures of   *)
(* both validators (2/3 of 2, rounded up), and v1's checkpoint signature   *)
(* alone reaches the weighted threshold (2/3 of 4, rounded up): v1 submits *)
(* on both paths.                                                          *)
(***************************************************************************)
EXTENDS RaftValidator

CONSTANTS v1, v2, r1, r2, r3

MCWeight == [v \in Validators |-> IF v = v1 THEN 3 ELSE 1]
\* No weights: signatures are counted.
MCNoWeight == [v \in Validators |-> 0]

\* r1 and r2 are reports of different intents; r3 is a second report of r1's.
MCIntentOf == [r \in Reports |-> IF r = r2 THEN 2 ELSE 1]

\* Leader changes, crashes and panics meet one report and one checkpoint: a second report is
\* only followed without them.
MCOneReportIfNodesFail ==
    \/ elections = 0 /\ leaders # {} /\ \A n \in Validators : Up(n) /\ restarts[n] = 0
    \/ Len(log) <= 2 /\ \A i \in DOMAIN log : log[i].type = "report" => log[i].report = r1
=============================================================================
