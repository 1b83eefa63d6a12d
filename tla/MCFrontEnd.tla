----------------------------- MODULE MCFrontEnd -----------------------------
EXTENDS FrontEnd

\* Mixing as xxtea's mx does it, with + for exclusive or.
MCMix(sum, y, z, p, k) == z \div 2 + y * 4 + y \div 8 + z * 16 + sum + y + k[((p + sum \div 4) % 4) + 1] + z

MCPassword == <<5, 11, 2, 7>>
\* The number of the key is 0, in the middle and 8^2 - 1, with and without
\* bytes that come twice.
MCKeys == {<<0, 1, 2, 0, 0, 3>>, <<2, 2, 1, 1, 5, 2>>, <<7, 0, 1, 7, 7, 1>>}

Client(proto, parts) == [proto |-> proto, parts |-> parts, header |-> 0]
MCSocks ==
    { Client("socks5", <<greeting, request, <<1, 2, 3>>>>) :
        greeting \in {<<5, 1, 0>>, <<5, 2, 2, 0>>},
        request \in { <<5, 1, 0, 1, 10, 0, 0, 1, 0, 80>>,
                      <<5, 1, 0, 3, 1, 97, 1, 187>>,
                      <<5, 2, 0, 1, 10, 0, 0, 1, 0, 80>>,
                      <<5, 1, 0, 4>> \o [i \in 1..16 |-> i] \o <<0, 80>> } }
MCHttp(header, body, tail) ==
    LET bytes(n) == [i \in 1..n |-> i % 4] IN
    { [ Client(proto, <<bytes(header + body)>> \o tail) EXCEPT !.header = header ] :
        proto \in IF body = 0 THEN {"connect", "plain"} ELSE {"plain"} }

\* A header with a body, and a request behind it.
MCBody == MCHttp(2, 2, <<<<5, 6>>>>)
\* Requests of one and of two pieces, without a body, with one that fits into a
\* piece and with one that does not, and what the client sends behind them.
MCClients ==
    MCSocks \cup MCHttp(2, 0, <<<<3, 0, 2>>>>) \cup MCHttp(3, 0, <<<<1>>>>)
    \cup MCBody \cup MCHttp(2, 3, <<>>) \cup MCHttp(3, 2, <<>>)
=============================================================================
