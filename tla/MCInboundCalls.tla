---- MODULE MCInboundCalls ----
EXTENDS InboundCalls

Rank == [plain |-> 0, dtls |-> 1, webrtc |-> 2]

\* The INVITEs and the Call-IDs are interchangeable: of the initial states that
\* differ in their names only, one.
MCInit ==
    /\ Init
    /\ call[1].id = 1
    /\ Rank[call[1].kind] <= Rank[call[2].kind]

MCFairSpec == MCInit /\ [][Next]_vars /\ Fairness
====
