SPECIFICATION Spec
CONSTANTS
    Labels = {l1, l2, inbox}
    System = {inbox}
    MaxChanges = 2
INVARIANT SystemMemberAborts
CHECK_DEADLOCK FALSE
