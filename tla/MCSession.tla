------------------------------ MODULE MCSession -----------------------------
(* Session with up to two clients of one server.                            *)
EXTENDS Session, TLC
CONSTANTS c1, c2, s, right, wrong

MCClient == {c1, c2}
MCEmpty == <<"text", 0>>
Short == <<"text", 1>>
Long == <<"text", 2>>
MCCompressible == {Long}

To(v1, v2, v0) == (c1 :> v1) @@ (c2 :> v2) @@ (s :> v0)
Of(join, secret, texts, compression, lossy, damage) ==
    [join |-> join, secret |-> secret, texts |-> texts, compression |-> compression,
     lossy |-> lossy, damage |-> damage]
MCWorld ==
    {Of({c1}, To(right, None, right), To({Long}, {}, {Short}), TRUE, FALSE, "never"),
     Of({c1}, To(right, None, right), To({MCEmpty, Short, Long}, {}, {Long}), TRUE, FALSE, "once"),
     Of({c1}, To(right, None, right), To({Short}, {}, {}), FALSE, TRUE, "never"),
     Of({c1}, To(None, None, None), To({MCEmpty, Long}, {}, {}), TRUE, TRUE, "once"),
     Of({c1}, To(right, None, None), To({}, {}, {Short}), FALSE, FALSE, "never"),
     Of({c1, c2}, To(right, wrong, right), To({}, {}, {}), TRUE, TRUE, "never"),
     Of({c1, c2}, To(right, right, right), To({Long}, {}, {Short}), TRUE, FALSE, "never"),
     Of({c1, c2}, To(right, None, right), To({Short}, {Long}, {Short}), FALSE, FALSE, "never")}
MCTwoRight == {Of({c1, c2}, To(right, right, right), To({}, {}, {}), FALSE, FALSE, "never")}
=============================================================================
