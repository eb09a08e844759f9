--------------------------- MODULE MCRunLifecycle ---------------------------
(* Four modules, one of them without a factory, on one or two threads.           *)
EXTENDS RunLifecycle

MCRequested == <<"functional", "visual", "security", "performance">>
MCRegistered == {"functional", "security", "performance"}
MCFormats == <<"findings", "score", "html">>

F(id, module, severity, priority) ==
  [id |-> id, module |-> module, severity |-> severity, priority |-> priority]

O(st, found, flake) == [status |-> st, findings |-> found, flake |-> flake]

MCOutcomes ==
  [functional |-> {O("passed", {}, 0),
                   O("failed", {F(1, "functional", "high", "p1")}, 2),
                   O("failed", {F(1, "functional", "high", "p1"), F(2, "functional", "high", "p1")}, 1),
                   O("failed", {F(i, "functional", "high", "none") : i \in 10..12}, NoRate),
                   O("incomplete", {F(3, "functional", "medium", "none")}, 0)},
   security   |-> {O("passed", {F(4, "security", "low", "none")}, NoRate),
                   O("passed", {F(5, "security", "high", "none")}, NoRate),
                   O("errored", {F(6, "security", "critical", "none")}, NoRate)},
   performance |-> {O("passed", {}, NoRate),
                    O("failed", {F(7, "performance", "high", "none")}, NoRate)}]

(* The defaults of PolicyConfig, except that one P1 failure is accepted.   *)
MCPolicy ==
  [penaltyHigh |-> 35, penaltyMedium |-> 13, penaltyLow |-> 4, maxFlake |-> 3,
   blockCritical |-> TRUE, blockHighSecurity |-> TRUE, maxP1 |-> 1, minScore |-> 85]
=============================================================================
