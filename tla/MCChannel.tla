------------------------------ MODULE MCChannel ------------------------------
EXTENDS Channel

Frame(body, stream, last, valid) ==
    [proto |-> "gkwp2", head |-> 2, body |-> body, valid |-> valid,
     stream |-> stream, last |-> last, keep |-> TRUE]

Http(head, body, keep, valid) ==
    [proto |-> "http", head |-> head, body |-> body, valid |-> valid,
     stream |-> 0, last |-> FALSE, keep |-> keep]

MCRequests ==
    {Frame(0, 0, FALSE, TRUE), Frame(1, 1, FALSE, TRUE), Frame(0, 2, TRUE, TRUE),
     Frame(5, 0, FALSE, TRUE), Frame(0, 0, FALSE, FALSE),
     Http(1, 1, TRUE, TRUE), Http(2, 0, FALSE, TRUE), Http(4, 0, TRUE, TRUE),
     Http(1, 0, TRUE, FALSE)}
=============================================================================
