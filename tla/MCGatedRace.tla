----------------------------- MODULE MCGatedRace -----------------------------
(***************************************************************************)
(* GatedRace on one call of each sort that some gate or the race tells     *)
(* apart, for the turns whose settings open or close a gate or a racer.    *)
(***************************************************************************)
EXTENDS GatedRace

Write   == [op |-> "write", risk |-> "medium", external |-> FALSE, wild |-> FALSE,
            rule |-> "none", args |-> "parsed"]
Command == [Write EXCEPT !.op = "command"]

MCKinds ==
    { Write,
      [Write EXCEPT !.rule = "ask"],
      [Write EXCEPT !.rule = "deny", !.args = "recovered"],
      [Write EXCEPT !.op = "read", !.risk = "read_only", !.external = TRUE],
      Command,
      [Command EXCEPT !.external = TRUE],
      [Command EXCEPT !.risk = "dangerous", !.wild = TRUE],
      [Command EXCEPT !.rule = "allow"],
      [Write EXCEPT !.op = "deliver"],
      [Write EXCEPT !.op = "delegate"] }

Session == [interactive |-> TRUE, worker |-> FALSE, config |-> TRUE, policy |-> "ask",
            review |-> FALSE, readOnly |-> FALSE, userReadOnly |-> FALSE,
            resumes |-> FALSE, wantsChange |-> TRUE]
ReadOnly == [Session EXCEPT !.readOnly = TRUE, !.policy = "auto"]
Alone    == [Session EXCEPT !.interactive = FALSE, !.config = FALSE, !.policy = "auto"]

MCTurns ==
    { Session,
      [Session EXCEPT !.policy = "auto", !.review = TRUE],
      [Session EXCEPT !.policy = "full-auto"],
      [Session EXCEPT !.policy = "never"],
      [Session EXCEPT !.userReadOnly = TRUE, !.resumes = TRUE],
      [ReadOnly EXCEPT !.userReadOnly = TRUE, !.resumes = TRUE],
      [ReadOnly EXCEPT !.wantsChange = FALSE],
      [ReadOnly EXCEPT !.resumes = TRUE],
      [Alone EXCEPT !.worker = TRUE],
      Alone,
      [Alone EXCEPT !.policy = "full-auto"] }
=============================================================================
