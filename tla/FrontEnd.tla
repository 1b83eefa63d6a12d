------------------------------ MODULE FrontEnd ------------------------------
(***************************************************************************)
(* local/socks5.go, local/http.go and what HandleConn and CopyToWS of      *)
(* local/local.go do with the bytes of one client connection: reading the  *)
(* request in whatever pieces TCP delivers it, forwarding the part of it   *)
(* that belongs to the remote, and then everything that follows.  Each     *)
(* message goes through Packer.Pack and is what Unpack returns at the exit.*)
(*                                                                         *)
(* The client waits for the answer to one part of the dialogue before it   *)
(* sends the next.  The remote side always accepts the connection: module  *)
(* LocalSession has the failures.                                          *)
(***************************************************************************)
EXTENDS Packer, FiniteSets

CONSTANTS
    Clients,     \* what clients send: records with proto and parts, see below
    Password,    \* the words of the xxtea key
    Keys,        \* random keys Obfuscate draws
    PIECE,       \* size of the bufio.Writer in http.Request.Write (4096)
    BUFFER_SIZE  \* of HandleConn and CopyToWS (65536)

\* A "socks5" client sends a greeting, a request and tunnel data.  A "connect"
\* client (HTTP CONNECT) sends a header and tunnel data, a "plain" HTTP client
\* a header with its body and, when it has the response, more of the same.
ASSUME FrontEndAssumption ==
    /\ PIECE \in Nat \ {0} /\ BUFFER_SIZE \in Nat /\ PIECE < BUFFER_SIZE
    /\ BUFFER_SIZE + Word16 + 20 <= Word32   \* no message outgrows xxtea's length
    /\ Keys \subseteq [1..KEY_LENGTH -> Bytes]

VARIABLES
    client,  \* the client
    turn,    \* which of its parts it sends
    unsent,  \* the rest of that part
    sock,    \* bytes that netconn.Read can return
    at,      \* where HandleConn, then CopyToWS, is
    buf,     \* buf of Socks5Proto.Get, the bufio.Reader of HTTPProto.Get
    address, \* req.Address
    \* the goroutine that runs r.Write on the pipe
    more,    \* bytes of the body it has yet to read
    hand,    \* bytes in its bufio.Writer
    pieces,  \* pieces on their way into the pipe
    \* upstream
    sent,    \* bytes the exit received as DATA
    last     \* the message sent last and its packed form

vars == <<client, turn, unsent, sock, at, buf, address, more, hand, pieces, sent, last>>

Socks == client.proto = "socks5"
Plain == client.proto = "plain"

\* A message of this client's session: CONNECT is 0 and DATA is 1.  Its strings are
\* Wid, Cid, Msg, Network (which is always the same, and empty here) and Address.
Message(cmd, data) ==
    LET target == [i \in DOMAIN address |-> address[i] % Byte]
    IN  [cmd |-> cmd, ok |-> FALSE, data |-> data,
         strings |-> <<<<1>>, <<1, 0>>, <<>>, <<>>, target>>]

BUF == 32  \* bound: bytes of buf that Socks5Proto.Get looks at

TypeOK ==
    /\ client \in Clients
    /\ turn \in 1..Len(client.parts)
    /\ unsent \in Seq(Nat) /\ sock \in Seq(Nat) /\ buf \in Seq(Nat)
    /\ at \in {"greeting", "request", "header", "connect", "flush", "copy", "over"}
    /\ address \in Seq(Nat)
    /\ more \in Nat /\ hand \in Seq(Bytes) /\ Len(hand) < PIECE
    /\ pieces \in Seq(Seq(Bytes))
    /\ \A i \in DOMAIN pieces : Len(pieces[i]) \in 1..PIECE
    /\ sent \in Seq(Bytes)

Init ==
    /\ client \in Clients
    /\ turn = 1 /\ unsent = client.parts[1]
    /\ sock = <<>>
    /\ at = IF Socks THEN "greeting" ELSE "header"
    /\ buf = IF Socks THEN [i \in 1..BUF |-> 0] ELSE <<>>
    /\ address = <<>>
    /\ more = 0 /\ hand = <<>> /\ pieces = <<>>
    /\ sent = <<>> /\ last = Error

ClientSends ==
    \E n \in 1..Len(unsent) :
        /\ sock' = sock \o SubSeq(unsent, 1, n)
        /\ unsent' = SubSeq(unsent, n + 1, Len(unsent))
        /\ UNCHANGED <<client, turn, at, buf, address, more, hand, pieces, sent, last>>

\* The client has an answer to its part and goes on with the next one.
Answered ==
    /\ turn' = turn + 1
    /\ unsent' = client.parts[turn + 1]

Over == at' = "over"

-----------------------------------------------------------------------------
(* SOCKS5                                                                   *)

\* conn.Read(buf) returns nr bytes: what buf held behind them stays there.
ReadBuf(nr) ==
    /\ nr \in 1..Len(sock)
    /\ buf' = SubSeq(sock, 1, nr) \o SubSeq(buf, nr + 1, BUF)
    /\ sock' = SubSeq(sock, nr + 1, Len(sock))

\* The version, and METHOD_NOAUTH among the methods.
GreetingOk(nr, b) ==
    /\ nr >= 3 /\ b[1] = 5
    /\ nr >= 2 + b[2]
    /\ \E i \in 1..b[2] : b[2 + i] = 0

SocksGreeting ==
    /\ at = "greeting"
    /\ \E nr \in 1..Len(sock) :
          /\ ReadBuf(nr)
          /\ IF GreetingOk(nr, buf')
             THEN at' = "request" /\ Answered
             ELSE Over /\ UNCHANGED <<turn, unsent>>
    /\ UNCHANGED <<client, address, more, hand, pieces, sent, last>>

\* Mutant: the two bytes of the port are not counted.
MutNeeds(b) ==
    CASE b[4] = 1 -> 8
      [] b[4] = 3 -> 5 + b[5]
      [] b[4] = 4 -> 20

\* Bytes of a request up to the port: IPv4, domain, IPv6.
Needs(b) ==
    CASE b[4] = 1 -> 10
      [] b[4] = 3 -> 5 + b[5] + 2
      [] b[4] = 4 -> 22

\* Version 5, CONNECT, and an address that nr bytes hold to its end.
RequestOk(nr, b) ==
    /\ nr >= 4 /\ b[1] = 5 /\ b[2] = 1
    /\ b[4] \in {1, 3, 4}
    /\ b[4] = 3 => nr >= 5
    /\ nr >= Needs(b)

AddressOf(b) ==
    SubSeq(b, IF b[4] = 3 THEN 6 ELSE 5,
           CASE b[4] = 1 -> 10 [] b[4] = 3 -> 5 + b[5] + 2 [] b[4] = 4 -> 22)

SocksRequest ==
    /\ at = "request"
    /\ \E nr \in 1..Len(sock) :
          /\ ReadBuf(nr)
          /\ IF RequestOk(nr, buf')
             THEN at' = "connect" /\ address' = AddressOf(buf')
             ELSE Over /\ UNCHANGED address
    /\ UNCHANGED <<client, turn, unsent, more, hand, pieces, sent, last>>

-----------------------------------------------------------------------------
(* HTTP                                                                     *)

HeaderLength == client.header

\* Mutant: a piece is one byte too long.
MutInPieces(bytes, n) ==
    [i \in 1..((Len(bytes) + n - 1) \div n) |->
        SubSeq(bytes, (i - 1) * n + 1, IF i * n < Len(bytes) THEN i * n + 1 ELSE Len(bytes))]

\* bytes in pieces of at most n
InPieces(bytes, n) ==
    [i \in 1..((Len(bytes) + n - 1) \div n) |->
        SubSeq(bytes, (i - 1) * n + 1, IF i * n < Len(bytes) THEN i * n ELSE Len(bytes))]

\* http.ReadRequest fills its bufio.Reader until it has the header, and takes
\* whatever came with it.  CONNECT is done then; for other methods a goroutine
\* begins to write the request into the pipe: the header, flushed before a
\* body if there is one, then the body.
HttpGet ==
    /\ at = "header"
    /\ \E nr \in 1..Len(sock) :
          LET got == buf \o SubSeq(sock, 1, nr)
              header == SubSeq(got, 1, HeaderLength) IN
          /\ sock' = SubSeq(sock, nr + 1, Len(sock))
          /\ IF Len(got) < HeaderLength
             THEN buf' = got /\ UNCHANGED <<at, more, pieces, address>>
             ELSE /\ buf' = SubSeq(got, HeaderLength + 1, Len(got))
                  /\ at' = "connect"
                  /\ address' = header
                  /\ IF Plain
                     THEN /\ more' = Len(client.parts[1]) - HeaderLength
                          /\ pieces' = InPieces(header, PIECE)
                     ELSE UNCHANGED <<more, pieces>>
    /\ UNCHANGED <<client, turn, unsent, hand, sent, last>>

\* The goroutine reads a part of the body, from the bufio.Reader or, when that
\* is empty, from netconn; it is in the pipe when the writer is full or the
\* body is complete.  It waits while the pipe has a piece.
PipeBody ==
    /\ more > 0 /\ pieces = <<>>
    /\ \E n \in 1..Len(IF buf # <<>> THEN buf ELSE sock) :
          LET from == IF buf # <<>> THEN buf ELSE sock
              all == hand \o SubSeq(from, 1, n) IN
          /\ n <= more /\ Len(all) <= PIECE
          /\ more' = more - n
          /\ IF Len(all) = PIECE \/ n = more
             THEN pieces' = <<all>> /\ hand' = <<>>
             ELSE hand' = all /\ UNCHANGED pieces
          /\ IF buf # <<>>
             THEN buf' = SubSeq(buf, n + 1, Len(buf)) /\ UNCHANGED sock
             ELSE sock' = SubSeq(sock, n + 1, Len(sock)) /\ UNCHANGED buf
    /\ UNCHANGED <<client, turn, unsent, at, address, sent, last>>

-----------------------------------------------------------------------------
(* HandleConn and CopyToWS                                                  *)

\* A message goes up, and the exit acts on what it unpacks.
Received(packed) ==
    LET msg == Unpack(packed, Password) IN
    IF msg = Error THEN <<>> ELSE msg.data

Sends(msg) ==
    \E key \in Keys, r \in Draws :
        LET packed == Pack(msg, Password, key, r) IN
        /\ last' = [msg |-> msg, packed |-> packed]
        /\ sent' = sent \o Received(packed)

\* GetWSConn, CONNECT and its answer, and Ack: a plain HTTP client gets none.
Connects ==
    /\ at = "connect"
    /\ Sends(Message(0, <<>>))
    /\ IF Plain
       THEN at' = "flush" /\ UNCHANGED <<turn, unsent>>
       ELSE at' = "copy" /\ Answered
    /\ UNCHANGED <<client, sock, buf, address, more, hand, pieces>>

\* Flush the request data: the loop ends at a read that does not fill its
\* buffer.  No piece does, so that it never meets the end of the pipe.
Flush ==
    /\ at = "flush" /\ pieces # <<>>
    /\ Sends(Message(1, Head(pieces)))
    /\ pieces' = Tail(pieces)
    /\ at' = IF Len(Head(pieces)) < BUFFER_SIZE THEN "copy" ELSE "flush"
    /\ UNCHANGED <<client, turn, unsent, sock, buf, address, more, hand>>

\* Mutant: CopyToWS starts before the request is flushed.
MutCopies == at \in {"flush", "copy"}

Copies == at = "copy"

\* CopyToWS reads from netconn.
Copy ==
    /\ Copies
    /\ \E nr \in 1..Len(sock) :
          /\ nr <= BUFFER_SIZE
          /\ Sends(Message(1, SubSeq(sock, 1, nr)))
          /\ sock' = SubSeq(sock, nr + 1, Len(sock))
    /\ UNCHANGED <<client, turn, unsent, at, buf, address, more, hand, pieces>>

\* The remote answers a plain request when it has all of it, and the client
\* sends its next one.
Responds ==
    /\ Plain /\ at = "copy" /\ turn < Len(client.parts)
    /\ sent = FlattenSeq(SubSeq(client.parts, 1, turn))
    /\ Answered
    /\ UNCHANGED <<client, sock, at, buf, address, more, hand, pieces, sent, last>>

\* What is asked of the clients: they speak their protocol.  Nothing follows the
\* methods of a SOCKS5 greeting or the port of a request, and the header of an HTTP
\* request is all of it but the body, which CONNECT does not have.
AddressLength(request) ==
    CASE request[4] = 1 -> 4 [] request[4] = 3 -> 1 + request[5] [] request[4] = 4 -> 16

SpeaksSocks(c) ==
    /\ Len(c.parts) = 3
    /\ c.parts[1] \in Seq(Nat) /\ c.parts[2] \in Seq(Nat) /\ c.parts[3] \in Seq(Bytes)
    /\ Len(c.parts[1]) >= 2 /\ Len(c.parts[1]) = 2 + c.parts[1][2]
    /\ Len(c.parts[2]) <= MAX_STRING_LENGTH
    /\ Len(c.parts[2]) >= 5 /\ c.parts[2][4] \in {1, 3, 4}
          => Len(c.parts[2]) <= 4 + AddressLength(c.parts[2]) + 2

SpeaksHttp(c) ==
    /\ c.parts \in Seq(Seq(Bytes)) /\ Len(c.parts) >= 1
    /\ c.header \in 1 .. Len(c.parts[1]) /\ c.header <= MAX_STRING_LENGTH
    /\ c.proto = "connect" => c.header = Len(c.parts[1]) /\ Len(c.parts) = 2

ASSUME ClientsAssumption == \A c \in Clients :
    \/ c.proto = "socks5" /\ SpeaksSocks(c)
    \/ c.proto \in {"connect", "plain"} /\ SpeaksHttp(c)

Next ==
    \/ ClientSends \/ SocksGreeting \/ SocksRequest \/ HttpGet \/ PipeBody
    \/ Connects \/ Flush \/ Copy \/ Responds

Spec == Init /\ [][Next]_vars

-----------------------------------------------------------------------------
(* Properties                                                               *)

\* An accepted SOCKS5 request has the address its client sent, all of it, and
\* never bytes that an earlier read left in buf, however TCP cuts the dialogue.
AcceptedIsAsked ==
    Socks /\ address # <<>> => address = AddressOf(client.parts[2])

\* The bytes of the client that belong to the remote.
Stream ==
    IF Plain THEN FlattenSeq(client.parts) ELSE Last(client.parts)

\* The request has a body: r.Write's goroutine goes on reading from netconn, in the
\* pipe's name, while CopyToWS reads from it too.
HasBody == Plain /\ client.header < Len(client.parts[1])

\* s is t with some of its elements left out: those it has keep their order.
KeepsOrder(s, t) ==
    \E place \in [DOMAIN s -> DOMAIN t] :
        /\ \A i, j \in DOMAIN s : i < j => place[i] < place[j]
        /\ \A i \in DOMAIN s : s[i] = t[place[i]]

\* What the exit receives of a client is a beginning of what the client sent to
\* the remote, without a hole, a repetition or a swap (http.go:14, local.go:311-341,
\* 346-347 read the same socket).  Behind the header of a request with a body two
\* goroutines read it side by side, and what r.Write's takes is left out (see
\* RequestIsFlushed); what CopyToWS takes is still in order and comes once.
ForwardedInOrder ==
    IF HasBody THEN KeepsOrder(sent, Stream) ELSE IsPrefix(sent, Stream)

\* "flush the request data" (local.go:309): when every byte of an HTTP request has
\* been read from the client and CopyToWS has taken over, the remote has it all.
RequestIsFlushed ==
    Plain /\ at = "copy" /\ unsent = <<>> /\ sock = <<>> => IsPrefix(client.parts[1], sent)

\* Unpack returns what was packed (Test_PACKER, TestPackerRoundTripSmallPayloads),
\* for every key and padding.
UnpackInvertsPack == last # Error => Unpack(last.packed, Password) = last.msg

\* A message that was cut, or has bytes behind its end, is an error and never
\* another message.
OnlyWholeMessages ==
    last # Error =>
        LET bytes == EncodeMessage(last.msg) IN
        /\ \A n \in 0..Len(bytes) - 1 : DecodeMessage(SubSeq(bytes, 1, n)) = Error
        /\ DecodeMessage(Append(bytes, 0)) = Error
=============================================================================
