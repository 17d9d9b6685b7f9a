------------------------------ MODULE Protocol ------------------------------
(***************************************************************************)
(* The parser of a connection's requests (vr_client.c): inline lines and   *)
(* multi bulk requests, read in chunks of any size.  c is the client's     *)
(* side of it: the query buffer buf, the request being read (reqtype,      *)
(* multibulklen, bulklen, argv), the flags, and ran, the commands executed *)
(* so far.  wire is what the peer has sent and the server not yet read.    *)
(* Offsets are those of the code, from 0.                                  *)
(***************************************************************************)
EXTENDS Text

CONSTANTS
    PROTO_IOBUF_LEN,        \* 16 KB, scaled down
    PROTO_MBULK_BIG_ARG,    \* 32 KB, scaled down
    PROTO_INLINE_MAX_SIZE,  \* 64 KB, scaled down
    MaxMultibulk,           \* 1024*1024, scaled down
    MaxBulk,                \* 512 MB, scaled down
    QuitName, JumpName,     \* the names of QUIT and of a command that jumps
    Scripts                 \* sequences of what the peer sends, see Encoded

VARIABLES c, wire, script

-----------------------------------------------------------------------------
\* Offset of b from offset pos on, -1 when strchr does not find it.
strchr(buf, pos, b) ==
    LET at == {i \in pos .. Len(buf) - 1 : buf[i + 1] \in {b, 0}}
        first == CHOOSE i \in at : \A j \in at : i <= j
    IN  IF at = {} \/ buf[first + 1] # b THEN -1 ELSE first

string2ll(t) ==
    LET neg == At(t, 1) = Hyphen
        d == IF neg THEN Tail(t) ELSE t
    IN  [ok |-> /\ d # <<>> /\ \A i \in DOMAIN d : d[i] \in 48 .. 57
                /\ d[1] # 48 \/ t = <<48>>,
         n |-> (IF neg THEN -1 ELSE 1) * FoldLeft(LAMBDA n, b : 10 * n + b - 48, 0, d)]

Ok(x) == [c |-> x, ok |-> TRUE]
Stop(x) == [c |-> x, ok |-> FALSE]

setProtocolError(x, pos) == [x EXCEPT !.closing = TRUE, !.buf = Drop(@, pos)]
TooBig(x) == Len(x.buf) > PROTO_INLINE_MAX_SIZE

\* Two bytes go after the line, also when it ended in a bare newline.
processInlineBuffer(x) ==
    LET nl == strchr(x.buf, 0, LF)
        querylen == IF nl > 0 /\ x.buf[nl] = CR THEN nl - 1 ELSE nl
        args == sdssplitargs(SubSeq(x.buf, 1, querylen))
    IN  IF nl = -1 THEN Stop(IF TooBig(x) THEN setProtocolError(x, 0) ELSE x)
        ELSE IF ~args.ok THEN Stop(setProtocolError(x, 0))
        ELSE Ok([x EXCEPT !.buf = Drop(@, querylen + 2),
                          !.argv = SelectSeq(args.argv, LAMBDA a : a # <<>>)])

TrimTo(x, pos) == [x EXCEPT !.buf = Drop(@, pos)]
Taken(x, pos) == [x EXCEPT !.argv = Append(@, SubSeq(x.buf, pos + 1, pos + x.bulklen)),
                           !.bulklen = -1, !.multibulklen = @ - 1]

\* The loop over the bulks.  The two breaks trim the buffer, the errors set it.
RECURSIVE Bulks(_, _)
Bulks(x, pos) ==
    LET nl == strchr(x.buf, pos, CR)
        ll == string2ll(SubSeq(x.buf, pos + 2, nl))
        bad == x.buf[pos + 1] # Dollar \/ ~ll.ok \/ ll.n < 0 \/ ll.n > MaxBulk
        whole == pos = 0 /\ x.bulklen >= PROTO_MBULK_BIG_ARG /\ Len(x.buf) = x.bulklen + 2
    IN  IF x.multibulklen = 0 THEN Ok(TrimTo(x, pos))
        ELSE IF x.bulklen = -1
             THEN IF nl = -1 /\ TooBig(x) THEN Stop(setProtocolError(x, 0))
                  ELSE IF nl = -1 \/ nl > Len(x.buf) - 2 THEN Stop(TrimTo(x, pos))
                  ELSE IF bad THEN Stop(setProtocolError(x, pos))
                  ELSE IF ll.n >= PROTO_MBULK_BIG_ARG
                       THEN Bulks([TrimTo(x, nl + 2) EXCEPT !.bulklen = ll.n], 0)
                  ELSE Bulks([x EXCEPT !.bulklen = ll.n], nl + 2)
        ELSE IF Len(x.buf) - pos < x.bulklen + 2 THEN Stop(TrimTo(x, pos))
        ELSE IF whole THEN Bulks([Taken(x, 0) EXCEPT !.buf = <<>>], 0)
        ELSE Bulks(Taken(x, pos), pos + x.bulklen + 2)

\* Mutant: the buffer has room for the count line but the newline is not waited for.
processMultibulkBufferEager(x) ==
    LET nl == strchr(x.buf, 0, CR)
        ll == string2ll(SubSeq(x.buf, 2, nl))
    IN  IF x.multibulklen # 0 THEN Bulks(x, 0)
        ELSE IF nl = -1 THEN Stop(IF TooBig(x) THEN setProtocolError(x, 0) ELSE x)
        ELSE IF ~ll.ok \/ ll.n > MaxMultibulk THEN Stop(setProtocolError(x, 0))
        ELSE IF ll.n <= 0 THEN Ok(TrimTo(x, nl + 2))
        ELSE Bulks([x EXCEPT !.multibulklen = ll.n], nl + 2)

processMultibulkBuffer(x) ==
    LET nl == strchr(x.buf, 0, CR)
        ll == string2ll(SubSeq(x.buf, 2, nl))
    IN  IF x.multibulklen # 0 THEN Bulks(x, 0)
        ELSE IF nl = -1 THEN Stop(IF TooBig(x) THEN setProtocolError(x, 0) ELSE x)
        ELSE IF nl > Len(x.buf) - 2 THEN Stop(x)
        ELSE IF ~ll.ok \/ ll.n > MaxMultibulk THEN Stop(setProtocolError(x, 0))
        ELSE IF ll.n <= 0 THEN Ok(TrimTo(x, nl + 2))
        ELSE Bulks([x EXCEPT !.multibulklen = ll.n, !.argv = <<>>], nl + 2)

resetClient(x) ==
    IF x.jump THEN x
    ELSE [x EXCEPT !.argv = <<>>, !.reqtype = "none", !.multibulklen = 0, !.bulklen = -1]

\* What the parser sees of a command: QUIT closes and is not reset, a command
\* that jumps keeps the request until it is done on the last worker.
processCommand(x) ==
    IF x.argv[1] = QuitName THEN [x EXCEPT !.closing = TRUE, !.ran = Append(@, x.argv)]
    ELSE IF x.argv[1] = JumpName THEN [x EXCEPT !.jump = TRUE]
    ELSE resetClient([x EXCEPT !.ran = Append(@, x.argv)])

RECURSIVE processInputBuffer(_)
processInputBuffer(x) ==
    LET type == IF x.reqtype # "none" THEN x.reqtype ELSE IF x.buf[1] = Star THEN "multibulk" ELSE "inline"
        y == [x EXCEPT !.reqtype = type,
                       !.asserts = @ /\ (type = "multibulk" /\ x.multibulklen = 0 =>
                                            x.argv = <<>> /\ x.buf[1] = Star)]
        r == IF type = "inline" THEN processInlineBuffer(y) ELSE processMultibulkBuffer(y)
        done == IF r.c.argv = <<>> THEN resetClient(r.c) ELSE processCommand(r.c)
    IN  IF x.buf = <<>> \/ x.closing THEN x
        ELSE IF ~r.ok THEN r.c
        ELSE IF done.jump THEN done
        ELSE processInputBuffer(done)

-----------------------------------------------------------------------------
\* What the peer sends, piece by piece: a command as a multi bulk request or as
\* an inline line, bytes that ask for nothing, and bytes that are an error.
Decimal(n) == IF n < 10 THEN <<48 + n>> ELSE <<48 + (n \div 10), 48 + (n % 10)>>
CRLF == <<CR, LF>>
Encoded(r) ==
    CASE r.kind = "multi" ->
            <<Star>> \o Decimal(Len(r.what)) \o CRLF
            \o FlattenSeq([i \in DOMAIN r.what |-> <<Dollar>> \o Decimal(Len(r.what[i])) \o CRLF \o r.what[i] \o CRLF])
      [] r.kind = "inline" -> Join(r.what, <<Space>>) \o CRLF
      [] OTHER -> r.what
Commands(r) == IF r.kind \in {"multi", "inline"} THEN <<r.what>> ELSE <<>>
Ends(r) == r.kind = "bad" \/ (r.kind \in {"multi", "inline"} /\ r.what[1] = QuitName)

\* The commands of a script, up to what ends the connection.
RECURSIVE Expected(_)
Expected(rs) ==
    IF rs = <<>> THEN <<>>
    ELSE Commands(rs[1]) \o (IF Ends(rs[1]) THEN <<>> ELSE Expected(Tail(rs)))

readlen ==
    LET remaining == c.bulklen + 2 - Len(c.buf)
        big == /\ c.reqtype = "multibulk" /\ c.multibulklen # 0
               /\ c.bulklen >= PROTO_MBULK_BIG_ARG
    IN  IF big /\ remaining < PROTO_IOBUF_LEN THEN remaining ELSE PROTO_IOBUF_LEN

Init ==
    /\ script \in Scripts
    /\ wire = FlattenSeq([i \in DOMAIN script |-> Encoded(script[i])])
    /\ c = [buf |-> <<>>, reqtype |-> "none", multibulklen |-> 0, bulklen |-> -1, argv |-> <<>>,
            closing |-> FALSE, jump |-> FALSE, ran |-> <<>>, asserts |-> TRUE]

\* A client that jumps has no readable event.  The limit on the whole buffer is
\* never reached, see RequestsParsed.
readQueryFromClient ==
    /\ ~c.jump /\ wire # <<>>
    /\ \E n \in 1 .. readlen :
        /\ n <= Len(wire)
        /\ c' = processInputBuffer([c EXCEPT !.buf = @ \o SubSeq(wire, 1, n)])
        /\ wire' = Drop(wire, n)
    /\ UNCHANGED script

\* The jump is over: the client is reset and linked again, and what is left in
\* its buffer is handled.
linkClientToEventloop ==
    /\ c.jump
    /\ c' = processInputBuffer(resetClient([c EXCEPT !.jump = FALSE, !.ran = Append(@, c.argv)]))
    /\ UNCHANGED <<wire, script>>

\* The peer has nothing more to send.
Idle == wire = <<>> /\ ~c.jump /\ UNCHANGED <<c, wire, script>>

Next == readQueryFromClient \/ linkClientToEventloop \/ Idle

\* However the bytes are cut into reads, the commands executed are those that
\* were sent, in order, and once every byte is read and no jump is under way all
\* of them up to the one that ends the connection; a connection is ended only for
\* a reason; no assertion of the parser fails; a read always asks for something;
\* and the query buffer stays within one bulk or one line and a read, far below
\* client_max_querybuf_len.
RequestsParsed ==
    LET longest == IF MaxBulk + 2 > PROTO_INLINE_MAX_SIZE + PROTO_IOBUF_LEN
                   THEN MaxBulk + 2 ELSE PROTO_INLINE_MAX_SIZE + PROTO_IOBUF_LEN
    IN  /\ c.asserts
        /\ IsPrefix(c.ran, Expected(script))
        /\ wire = <<>> /\ ~c.jump => c.ran = Expected(script)
        /\ c.closing => (\E i \in DOMAIN script : Ends(script[i])) /\ c.ran = Expected(script)
        /\ ~c.jump => readlen >= 1
        /\ ~c.closing => Len(c.buf) <= longest
=============================================================================
