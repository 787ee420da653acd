-------------------------------- MODULE Fifo --------------------------------
(***************************************************************************)
(* The promise of ReaderWriterQueue: a first-in first-out queue between    *)
(* one producer and one consumer.                                          *)
(***************************************************************************)
EXTENDS Integers, Sequences

CONSTANT LABELS     \* elements are numbered by the producer, modulo LABELS

VARIABLES
    queue,          \* the elements in the queue, oldest first
    sent,           \* the number of the next element
    result          \* what the last successful try_dequeue returned

FInit == queue = <<>> /\ sent = 0 /\ result = -1

Put ==
    /\ queue' = Append(queue, sent)
    /\ sent' = (sent + 1) % LABELS
    /\ UNCHANGED result

Get ==
    /\ queue # <<>>
    /\ queue' = Tail(queue)
    /\ result' = Head(queue)
    /\ UNCHANGED sent

FNext == Put \/ Get

FSpec == FInit /\ [][FNext]_<<queue, sent, result>>
=============================================================================
