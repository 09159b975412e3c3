------------------------------ MODULE MCToolCalls ------------------------------
EXTENDS ToolCalls

\* Bounds.  Four parts, each small where another is large: three brokers that start, stop
\* and crash; a call while two do; every operation and size with one broker; a target
\* and an account that change three times under one operation.
One == {CHOOSE b \in Brokers : TRUE}
Two == One \cup {CHOOSE b \in Brokers \ One : TRUE}
MCScenarios == {
    [brokers |-> Brokers, stops |-> TRUE, changes |-> 0, operations |-> {}],
    [brokers |-> Two, stops |-> TRUE, changes |-> 0, operations |-> {"delete_label"}],
    [brokers |-> One, stops |-> FALSE, changes |-> 0,
     operations |-> Operations],
    [brokers |-> One, stops |-> FALSE, changes |-> 3,
     operations |-> {"delete_label"}]}
================================================================================
