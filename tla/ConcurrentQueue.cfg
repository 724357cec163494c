\* One thread enqueues, one dequeues; four addresses, so that deleted nodes
\* are allocated again while up to three items are queued.
CONSTANTS
    Producers = {main}
    Items = {i1, i2}
    Nodes = {n1, n2, n3, n4}
    NoItem = NoItem
    NoNode = NoNode
SPECIFICATION Spec
INVARIANT NoUseAfterDelete
PROPERTY ImplementsFifo
