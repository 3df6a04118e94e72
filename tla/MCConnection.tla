---------------------------- MODULE MCConnection ----------------------------
EXTENDS Connection, TLC

MCModes == {[require_auth |-> "yes", strict |-> "no", safe |-> "no"],
            [require_auth |-> "no", strict |-> "no", safe |-> "no"],
            [require_auth |-> "no", strict |-> "yes", safe |-> "yes"]}
K == Line("k")
KX == Joined(<< "k", "x" >>)                \* set "k x", get "k x", del "k x"
VFpW == Joined(<< "v", "FP", "w" >>)        \* set k "v FP w"
Spaced == [words |-> << "v", "w" >>, gaps |-> "other"]
MCPrograms == {
    << set(K, Line("v"), "60"), del(KX) >>, << set(Line("FP"), Line("v"), "none") >>,
    << set(K, Line("FP"), "none"), get(K) >>, << set(K, VFpW, "none"), get(KX) >>, << set(KX, Spaced, "none") >>,
    << set(K, Empty, "none"), set(Empty, Spaced, "none"), get(Empty) >>, << ttl(K), flush >>, usage, status,
    << Auth(Line("writer")), SetWithFp(K, Line("w"), "f"), get(K), Auth(Empty), del(K) >>,
    << Auth(Line("reader")), get(K), set(K, Line("v"), "none"), AuditVerify, Auth(Line("unknown")), keys(K) >> }
ClientSymmetry == Permutations(Clients)
=============================================================================
