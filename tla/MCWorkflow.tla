----------------------------- MODULE MCWorkflow -----------------------------
EXTENDS WorkflowRuntime

MCTasks == {"a", "b", "c", "d"}
MCOrder == <<"a", "b", "c", "d">>

dep(t, on, onFail) == [task |-> t, on |-> on, cond |-> {}, onFail |-> onFail, alt |-> NoTask]
when(t, on, cond, onFail) == [dep(t, on, onFail) EXCEPT !.cond = cond]

Plain == [deps |-> <<>>, join |-> [t \in MCTasks |-> "none"],
          fanout |-> [t \in MCTasks |-> 0], goal |-> {}, late |-> {"d"}]

\* a conditional branch beside a plain one
Fork == [Plain EXCEPT !.deps = <<when("b", "a", {"failed"}, "skip"), dep("c", "a", "cancel"),
                                 dep("d", "b", "continue")>>]
\* two roots, one join
Join == [Plain EXCEPT !.deps = <<dep("c", "a", "cancel"), dep("c", "b", "cancel"),
                                 dep("d", "c", "skip")>>, !.late = {}, !.goal = {"c"}]
\* c runs instead of b when a fails, d takes whichever came
Alternate == [Plain EXCEPT !.deps = <<[dep("b", "a", "run_alternate") EXCEPT !.alt = "c"],
                                      when("c", "b", {"skipped"}, "skip"),
                                      dep("d", "b", "continue"), dep("d", "c", "continue")>>,
                           !.join["d"] = "wait_all", !.late = {}]
Race == [Plain EXCEPT !.deps = <<dep("c", "a", "continue"), dep("c", "b", "continue"),
                                 dep("d", "c", "cancel")>>, !.join["c"] = "first_success"]
FanOut == [Plain EXCEPT !.deps = <<dep("b", "a", "cancel"), dep("c", "a", "cancel"),
                                   dep("d", "c", "cancel")>>, !.fanout["a"] = 1]

MCWorkflows == {Fork, Join, Alternate, Race, FanOut}
AllOperations == {"pause", "cancel_workflow", "cancel_task", "skip_task", "add_task",
                  "retry_from", "reopen", "resume", "restart"}

OnlyFork == {Fork}
NoOperations == {}
=============================================================================
