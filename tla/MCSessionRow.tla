----------------------------- MODULE MCSessionRow -----------------------------
(* One row whose tab has one or two panes. *)
EXTENDS SessionRow

MCSymmetry == Permutations(Panes)

Report(state, kind) == [state |-> state, kind |-> kind]

Done == {Report("done", "none")}

DoneOrBlocked == Done \cup {Report("blocked", "permission"), Report("blocked", "question")}

Ends == Done \cup {Report("error", "none")}

Scenario(inputs, ids, reports) == [inputs |-> inputs, ids |-> ids, reports |-> reports]

\* The tab's panes change; what is reported is previewed, rung and run; a
\* program and its tasks, or only tasks, report.
MCScenarios == {Scenario({"panes", "close", "remove"}, {0}, Done),
                Scenario({"panes", "preview"}, {0}, Done),
                Scenario({"bell", "shell", "setting", "preview", "remove"}, {0}, DoneOrBlocked),
                Scenario({}, {0, 1}, Ends \cup {Report("working", "none")}),
                Scenario({}, {1, 2}, Ends),
                Scenario({"panes"}, {0}, Ends)}

===============================================================================
