---------------------------- MODULE MCNativePool ----------------------------
EXTENDS NativePool

\* One child whose leases the coordinator acquires itself.
Single == [children |-> 1, fastPath |-> {}, admitted |-> FALSE, bestEffort |-> FALSE,
           faults |-> FaultKind]

\* Two admitted children, the second on the fast path.
Pair(faults) == [children |-> 2, fastPath |-> {2}, admitted |-> TRUE, bestEffort |-> TRUE,
                 faults |-> faults]

SafetySetups == {Single, Pair({"callback", "child", "mutation", "request"}),
                 Pair({"child", "compare"})}
SettlingSetups == {Pair({"child", "request"})}
MutationSetups == {Pair({"mutation"})}
QuietSetups == {Pair({})}
=============================================================================
