----------------------------- MODULE MCConnStream -----------------------------
(* Instances of ConnStream.  The block is 2 units: lengths below, at, above *)
(* and at twice the block occur, and a last block with and without rest.    *)
EXTENDS ConnStream

Shape(k, a, f) == [kind |-> k, att |-> a, file |-> f]

MCShapes ==
    {Shape("request", 0, 0), Shape("request", 3, 0), Shape("request", 4, 1),
     Shape("request", 0, 2), Shape("request", 0, 3),
     Shape("response", 0, 0), Shape("response", 2, 0), Shape("response", 0, 3),
     Shape("stray", 3, 0), Shape("malformed", 0, 0), Shape("odd", 0, 4),
     Shape("alien", 1, 1)}

(* No buffers, exact ones, too many, and too few for an attachment of 2.    *)
MCBuffers == {<<>>, <<1, 1>>, <<1, 3, 1>>, <<1>>}
=============================================================================
