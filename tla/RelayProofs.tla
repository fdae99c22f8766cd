------------------------------ MODULE RelayProofs ------------------------------
(***************************************************************************)
(* Lemmas about Relay, cited by the proofs about the two listeners whose   *)
(* connections are relayed: an invariant of the record of one connection,  *)
(* kept by every step of its two ends and of its relay, from which follow  *)
(* that what is written is what was read and that an end of the data is    *)
(* announced only when it has come; and that each such step is a step of   *)
(* the pipe its two ends see, or none.                                     *)
(***************************************************************************)
EXTENDS Relay, SequenceTheorems, TLAPS

Before == {"none", "queued", "peek", "decide", "offer", "dial", "header"}
Copied == {"copy", "closed"}

(* Nothing comes from the target before the copying begins, and from the    *)
(* client only what is peeked or what an HTTP server reads.                 *)
Shaped(r) ==
    /\ r \in RelayType
    /\ r.stage \notin Copied =>
           /\ r.taken["target"] = 0
           /\ \A x \in Side : r.copy[x] = "run"
    /\ r.stage \notin Copied \cup {"served", "dropped"} => r.taken["client"] = r.hello
    /\ r.stage \in {"none", "queued", "peek"} => r.hello = 0
    /\ r.stage \in Early \cup {"none"} => ~ r.header
    /\ r.stage = "header" => r.header
    /\ r.stage = "closed" => \A x \in Side : r.copy[x] = "done"
    /\ \A x \in Side : r.eof[Other(x)] => r.copy[x] = "done"

Ahead(r) == IF r.header THEN <<Header>> ELSE <<>>

(* The HTTP server has read k pieces: some of the hello, or all there is.   *)
Read(r, k) ==
    /\ k \in Nat /\ r.got["target"] = Numbered(k)
    /\ \/ k < r.hello /\ r.taken["client"] = r.hello
       \/ k >= r.hello /\ k = r.taken["client"]

(* What has been written is what has been read, behind the header.          *)
Faithful(r) ==
    /\ r.stage \in Before => r.got["target"] = <<>>
    /\ r.stage = "hello" => r.got["target"] = Ahead(r)
    /\ r.stage \in Copied => r.got["target"] = Ahead(r) \o Numbered(r.taken["client"])
    /\ r.stage = "served" => \E k \in Nat : Read(r, k)
    /\ r.stage = "dropped" =>
           \/ r.got["target"] = <<>>
           \/ \E k \in 0 .. r.taken["client"] : r.got["target"] = Ahead(r) \o Numbered(k)
    /\ r.got["client"] = Numbered(r.taken["target"])

(* A copy that is done has come to the end of its data, or an end has       *)
(* broken off.                                                              *)
DoneForAReason(r) ==
    \A x \in Side : r.copy[x] = "done" =>
        \/ r.end[x] = "fin" /\ ~ r.taken[x] < r.sent[x]
        \/ \E y \in Side : r.end[y] = "reset"

Good(r) == Shaped(r) /\ Faithful(r) /\ DoneForAReason(r)

RelayInv == relay \in [Conn -> RelayType] /\ \A c \in Conn : Good(relay[c])

-----------------------------------------------------------------------------
(* Numbered pieces.                                                         *)
LEMMA NumberedZero == Numbered(0) = <<>>
BY DEF Numbered

LEMMA NumberedNext ==
    ASSUME NEW n \in Nat
    PROVE  /\ Numbered(n) \in Seq(Nat) /\ Len(Numbered(n)) = n
           /\ Append(Numbered(n), n + 1) = Numbered(n + 1)
BY DEF Numbered

LEMMA AppendBehind ==
    ASSUME NEW s \in Seq(Nat), NEW t \in Seq(Nat), NEW e \in Nat
    PROVE  Append(s \o t, e) = s \o Append(t, e)
<1>1. <<e>> \in Seq(Nat) /\ s \o t \in Seq(Nat)
    BY ConcatProperties
<1>2. /\ Append(s \o t, e) = (s \o t) \o <<e>>
      /\ Append(t, e) = t \o <<e>>
    BY <1>1, AppendIsConcat
<1>. QED
    BY <1>1, <1>2, ConcatAssociative

LEMMA HeaderFirst ==
    /\ <<Header>> \in Seq(Nat) /\ <<>> \in Seq(Nat)
    /\ Append(<<>>, Header) = <<Header>>
    /\ <<Header>> \o <<>> = <<Header>>
    /\ <<>> \o <<>> = <<>>
<1>1. <<Header>> \in Seq(Nat) /\ <<>> \in Seq(Nat) /\ Header \in Nat
    BY DEF Header
<1>2. Append(<<>>, Header) = <<>> \o <<Header>>
    BY <1>1, AppendIsConcat
<1>. QED
    BY <1>1, <1>2, ConcatEmptySeq

LEMMA AheadType == \A r : Ahead(r) \in Seq(Nat)
BY DEF Ahead, Header

LEMMA AheadAlone == \A r : Ahead(r) \o Numbered(0) = Ahead(r)
BY NumberedZero, AheadType, ConcatEmptySeq

LEMMA Unheaded ==
    ASSUME NEW r, ~ r.header, NEW k \in Nat
    PROVE  Ahead(r) \o Numbered(k) = Numbered(k)
BY NumberedNext, ConcatEmptySeq DEF Ahead

LEMMA Sides == Other("client") = "target" /\ Other("target") = "client"
BY DEF Other, Side

(* A part of what was read is a prefix of it, behind the same.              *)
LEMMA PartIsPrefix ==
    ASSUME NEW a \in Seq(Nat), NEW n \in Nat, NEW k \in 0 .. n
    PROVE  /\ IsPrefix(<<>>, a \o Numbered(n))
           /\ IsPrefix(a \o Numbered(k), a \o Numbered(n))
<1>. DEFINE s == a \o Numbered(k)
           t == a \o Numbered(n)
           m == Len(a)
<1>0. k \in Nat /\ k <= n /\ m \in Nat
    OBVIOUS
<1>1. /\ k \in Nat /\ k <= n /\ m \in Nat
      /\ Numbered(k) \in Seq(Nat) /\ Len(Numbered(k)) = k
      /\ Numbered(n) \in Seq(Nat) /\ Len(Numbered(n)) = n
    BY <1>0, NumberedNext
<1>2. s \in Seq(Nat) /\ t \in Seq(Nat) /\ Len(s) = m + k /\ Len(t) = m + n
    <2>1. \A b \in Seq(Nat) : a \o b \in Seq(Nat) /\ Len(a \o b) = m + Len(b)
        BY ConcatProperties
    <2>. QED
        BY <1>1, <2>1
<1>3. ASSUME NEW i \in 1 .. m + k
      PROVE  s[i] = t[i]
    <2>1. CASE i <= m
        <3>1. s[i] = a[i] /\ t[i] = a[i]
            BY <1>1, <2>1, ConcatProperties
        <3>. QED
            BY <3>1
    <2>2. CASE i > m
        <3>1. i - m \in 1 .. k /\ i - m \in 1 .. n
            BY <1>1, <2>2
        <3>2. s[i] = Numbered(k)[i - m] /\ t[i] = Numbered(n)[i - m]
            BY <1>1, <2>2, <3>1, ConcatProperties
        <3>. QED
            BY <3>1, <3>2 DEF Numbered
    <2>. QED
        BY <1>1, <2>1, <2>2
<1>4. SubSeq(s, 1, Len(s)) = SubSeq(t, 1, Len(s))
    <2>. HIDE DEF s, t, m
    <2>. QED
        BY <1>1, <1>2, <1>3
<1>5. IsPrefix(s, t)
    BY <1>1, <1>2, <1>4 DEF IsPrefix
<1>6. IsPrefix(<<>>, t)
    BY <1>2 DEF IsPrefix
<1>. QED
    BY <1>5, <1>6

-----------------------------------------------------------------------------
(* Steps.  A record that differs from a good one in its stage only.         *)
LEMMA Moved ==
    ASSUME NEW r \in RelayType,
           NEW t \in {"queued", "peek", "offer", "served", "dial", "header", "hello",
                      "copy", "closed", "dropped"}
    PROVE  LET n == [r EXCEPT !.stage = t] IN
           /\ n \in RelayType
           /\ n.stage = t /\ n.header = r.header /\ n.hello = r.hello
           /\ n.sent = r.sent /\ n.end = r.end /\ n.taken = r.taken
           /\ n.got = r.got /\ n.copy = r.copy /\ n.eof = r.eof
BY DEF RelayType, Early

(* The stages a connection may go to with nothing else changed.             *)
MayGo(r, t) ==
    \/ t = "queued"  /\ r.stage = "none"
    \/ t = "peek"    /\ r.stage = "queued"
    \/ t = "offer"   /\ r.stage = "decide"
    \/ t = "served"  /\ r.stage \in {"queued", "offer"}
    \/ t = "header"  /\ r.stage = "dial" /\ r.header
    \/ t = "hello"   /\ r.stage = "dial" /\ ~ r.header /\ r.hello > 0
    \/ t = "copy"    /\ r.stage = "dial" /\ ~ r.header /\ r.hello = 0
    \/ t = "dropped" /\ r.stage \notin Copied

LEMMA MoveGood ==
    ASSUME NEW r, Good(r), NEW t, MayGo(r, t)
    PROVE  Good([r EXCEPT !.stage = t])
<1>. DEFINE n == [r EXCEPT !.stage = t]
<1>1. r \in RelayType /\ r.hello \in Nat
    BY DEF Good, Shaped, RelayType
<1>2. /\ n \in RelayType
      /\ n.stage = t /\ n.header = r.header /\ n.hello = r.hello
      /\ n.sent = r.sent /\ n.end = r.end /\ n.taken = r.taken
      /\ n.got = r.got /\ n.copy = r.copy /\ n.eof = r.eof
    <2>1. t \in {"queued", "peek", "offer", "served", "dial", "header", "hello",
                 "copy", "closed", "dropped"}
        BY DEF MayGo
    <2>. QED
        BY <1>1, <2>1, Moved
<1>. HIDE DEF n
<1>3. Ahead(n) = Ahead(r)
    BY <1>2 DEF Ahead
<1>4. Shaped(n)
    BY <1>1, <1>2 DEF Good, Shaped, MayGo, Copied, Early
<1>5. DoneForAReason(n)
    BY <1>1, <1>2 DEF Good, DoneForAReason
<1>6. n.got["client"] = Numbered(n.taken["target"])
    BY <1>2 DEF Good, Faithful
<1>7. Faithful(n)
    <2>1. CASE t \in {"queued", "peek", "offer", "header"}
        BY <1>2, <1>6, <2>1 DEF Good, Faithful, MayGo, Before, Copied
    <2>2. CASE t = "served"
        <3>1. r.got["target"] = <<>> /\ r.taken["client"] = r.hello
            BY <2>2 DEF Good, Shaped, Faithful, MayGo, Before, Copied
        <3>2. Read(n, 0)
            BY <1>1, <1>2, <3>1, NumberedZero DEF Read
        <3>. QED
            BY <1>2, <1>6, <2>2, <3>2 DEF Faithful, Before, Copied
    <2>3. CASE t \in {"hello", "copy"}
        <3>1. /\ r.got["target"] = <<>> /\ Ahead(r) = <<>>
              /\ r.taken["client"] = r.hello /\ r.stage = "dial"
            BY <2>3 DEF Good, Shaped, Faithful, MayGo, Before, Copied, Ahead
        <3>2. t = "copy" => r.taken["client"] = 0
            BY <3>1 DEF MayGo
        <3>. QED
            BY <1>2, <1>3, <1>6, <2>3, <3>1, <3>2, AheadAlone DEF Faithful, Before, Copied
    <2>4. CASE t = "dropped"
        <3>1. r.stage \notin Copied
            BY <2>4 DEF MayGo
        <3>2. \/ r.got["target"] = <<>>
              \/ \E k \in 0 .. r.taken["client"] : r.got["target"] = Ahead(r) \o Numbered(k)
            <4>1. CASE r.stage \in Before
                BY <4>1 DEF Good, Faithful
            <4>2. CASE r.stage = "hello"
                <5>1. r.got["target"] = Ahead(r) \o Numbered(0) /\ 0 <= r.taken["client"]
                    BY <1>1, <4>2, AheadAlone DEF Good, Shaped, Faithful, Copied
                <5>2. r.taken["client"] \in Nat
                    BY <1>1 DEF RelayType, Side
                <5>. QED
                    BY <5>1, <5>2
            <4>3. CASE r.stage = "served"
                <5>1. PICK k \in Nat : Read(r, k)
                    BY <4>3 DEF Good, Faithful
                <5>2. k \in 0 .. r.taken["client"]
                    BY <1>1, <5>1 DEF Read, RelayType, Side
                <5>3. ~ r.header
                    BY <4>3 DEF Good, Shaped, Early
                <5>4. r.got["target"] = Ahead(r) \o Numbered(k)
                    BY <5>1, <5>3, Unheaded DEF Read
                <5>. QED
                    BY <5>2, <5>4
            <4>4. CASE r.stage = "dropped"
                BY <4>4 DEF Good, Faithful
            <4>. QED
                BY <1>1, <3>1, <4>1, <4>2, <4>3, <4>4 DEF RelayType, Early, Before, Copied
        <3>. QED
            BY <1>2, <1>3, <1>6, <2>4, <3>2 DEF Faithful, Before, Copied
    <2>. QED
        BY <2>1, <2>2, <2>3, <2>4 DEF MayGo
<1>. QED
    BY <1>4, <1>5, <1>7 DEF Good, n

(* Nothing is written or read: what was faithful is.                        *)
LEMMA SameFaithful ==
    ASSUME NEW r, NEW n, Faithful(r),
           n.stage = r.stage, n.header = r.header, n.hello = r.hello,
           n.taken = r.taken, n.got = r.got
    PROVE  Faithful(n)
<1>1. Ahead(n) = Ahead(r)
    BY DEF Ahead
<1>2. \A k : Read(r, k) => Read(n, k)
    BY DEF Read
<1>3. n.stage = "served" => \E k \in Nat : Read(n, k)
    BY <1>2 DEF Faithful
<1>. QED
    BY <1>1, <1>3 DEF Faithful

LEMMA GoTo ==
    ASSUME NEW c \in Conn, RelayInv, NEW t, MayGo(relay[c], t),
           Set(c, [relay[c] EXCEPT !.stage = t])
    PROVE  Good(relay'[c]) /\ relay' \in [Conn -> RelayType]
<1>1. Good([relay[c] EXCEPT !.stage = t])
    BY MoveGood DEF RelayInv
<1>. QED
    BY <1>1 DEF RelayInv, Set, Good, Shaped

(* Whatever an end does, it takes nothing back.                             *)
LEMMA EndsGood ==
    ASSUME NEW c \in Conn, RelayInv, NEW x \in Side,
           Send(c, x) \/ Finish(c, x) \/ Reset(c, x)
    PROVE  Good(relay'[c]) /\ relay' \in [Conn -> RelayType]
<1>. DEFINE r == relay[c]
<1>0. Good(r) /\ r \in RelayType
    BY DEF RelayInv
<1>1. CASE Send(c, x)
    <2>. DEFINE n == [r EXCEPT !.sent[x] = @ + 1]
    <2>1. relay' = [relay EXCEPT ![c] = n] /\ r.end[x] = "open"
        BY <1>1 DEF Send, Set
    <2>2. n \in RelayType
        <3>1. r.sent[x] + 1 \in Nat /\ [r.sent EXCEPT ![x] = @ + 1] \in [Side -> Nat]
            BY <1>0 DEF RelayType
        <3>. QED
            BY <1>0, <3>1 DEF RelayType
    <2>3. /\ n.stage = r.stage /\ n.header = r.header /\ n.hello = r.hello
          /\ n.taken = r.taken /\ n.got = r.got /\ n.copy = r.copy /\ n.eof = r.eof
          /\ n.end = r.end /\ n.sent = [r.sent EXCEPT ![x] = @ + 1]
        BY <1>0 DEF RelayType
    <2>4. Shaped(n) /\ Faithful(n)
        <3>. HIDE DEF n
        <3>1. Shaped(n)
            BY <1>0, <2>2, <2>3 DEF Good, Shaped, Copied, Early
        <3>. QED
            BY <1>0, <2>3, <3>1, SameFaithful DEF Good
    <2>5. DoneForAReason(n)
        BY <1>0, <2>1, <2>3 DEF Good, DoneForAReason, RelayType
    <2>. QED
        BY <2>1, <2>2, <2>4, <2>5 DEF Good, RelayInv
<1>2. CASE Finish(c, x) \/ Reset(c, x)
    <2>1. PICK e \in {"fin", "reset"} :
              /\ relay' = [relay EXCEPT ![c] = [r EXCEPT !.end[x] = e]]
              /\ r.end[x] # "reset"
              /\ e = "fin" => r.end[x] = "open"
        BY <1>2 DEF Finish, Reset, Set
    <2>. DEFINE n == [r EXCEPT !.end[x] = e]
    <2>0. [r.end EXCEPT ![x] = e] \in [Side -> {"open", "fin", "reset"}]
        BY <1>0 DEF RelayType
    <2>2. n \in RelayType
        <3>1. [r EXCEPT !.end[x] = "fin"] \in RelayType
            BY <1>0 DEF RelayType
        <3>2. [r EXCEPT !.end[x] = "reset"] \in RelayType
            BY <1>0 DEF RelayType
        <3>3. CASE e = "fin"
            BY <3>1, <3>3
        <3>4. CASE e = "reset"
            BY <3>2, <3>4
        <3>. QED
            BY <3>3, <3>4
    <2>3. /\ n.stage = r.stage /\ n.header = r.header /\ n.hello = r.hello
          /\ n.taken = r.taken /\ n.got = r.got /\ n.copy = r.copy /\ n.eof = r.eof
          /\ n.sent = r.sent /\ n.end = [r.end EXCEPT ![x] = e]
        BY <1>0 DEF RelayType
    <2>4. Shaped(n) /\ Faithful(n)
        <3>. HIDE DEF n
        <3>1. Shaped(n)
            BY <1>0, <2>2, <2>3 DEF Good, Shaped, Copied, Early
        <3>. QED
            BY <1>0, <2>3, <3>1, SameFaithful DEF Good
    <2>5. DoneForAReason(n)
        BY <1>0, <2>1, <2>3 DEF Good, DoneForAReason, RelayType
    <2>. QED
        BY <2>1, <2>2, <2>4, <2>5 DEF Good, RelayInv
<1>. QED
    BY <1>1, <1>2

(* The preamble: the header, then what was peeked.                          *)
LEMMA PreambleGood ==
    ASSUME NEW c \in Conn, RelayInv, Dial(c) \/ WriteHeader(c) \/ WriteHello(c)
    PROVE  Good(relay'[c]) /\ relay' \in [Conn -> RelayType]
<1>. DEFINE r == relay[c]
<1>1. Good(r) /\ r \in RelayType /\ r.hello \in Nat
    BY DEF RelayInv, RelayType
<1>2. CASE Dial(c)
    <2>1. r.stage = "dial"
        BY <1>2 DEF Dial, Stage
    <2>2. MayGo(r, After(c, "nothing")) /\ MayGo(r, "dropped")
        <3>1. CASE r.header
            BY <2>1, <3>1 DEF After, MayGo, Copied
        <3>2. CASE ~ r.header /\ r.hello > 0
            BY <2>1, <3>2 DEF After, MayGo, Copied
        <3>3. CASE ~ r.header /\ r.hello = 0
            BY <2>1, <3>3 DEF After, MayGo, Copied
        <3>. QED
            BY <1>1, <3>1, <3>2, <3>3
    <2>. QED
        BY <1>2, <2>2, GoTo DEF Dial
<1>3. CASE Set(c, [r EXCEPT !.stage = "dropped"]) /\ r.stage \in {"header", "hello"}
    BY <1>3, GoTo DEF MayGo, Copied
<1>4. ASSUME NEW t \in {"hello", "copy"}, NEW w \in Seq(Nat),
             r.stage \in {"header", "hello"},
             t = "hello" => w = Ahead(r) /\ r.hello > 0,
             t = "copy" => w = Ahead(r) \o Numbered(r.hello),
             Set(c, [r EXCEPT !.stage = t, !.got["target"] = w])
      PROVE  Good(relay'[c]) /\ relay' \in [Conn -> RelayType]
    <2>. DEFINE n == [r EXCEPT !.stage = t, !.got["target"] = w]
    <2>1. r.got \in [Side -> Seq(Nat)] /\ [r.got EXCEPT !["target"] = w] \in [Side -> Seq(Nat)]
        BY <1>1, <1>4 DEF RelayType
    <2>2. /\ n.stage = t /\ n.header = r.header /\ n.hello = r.hello
          /\ n.sent = r.sent /\ n.end = r.end /\ n.taken = r.taken
          /\ n.got = [r.got EXCEPT !["target"] = w] /\ n.copy = r.copy /\ n.eof = r.eof
        BY <1>1 DEF RelayType
    <2>3. n \in RelayType
        BY <1>1, <1>4, <2>1 DEF RelayType
    <2>4. n.got["target"] = w /\ n.got["client"] = r.got["client"]
        BY <2>1, <2>2 DEF Side
    <2>5. relay' = [relay EXCEPT ![c] = n]
        BY <1>4 DEF Set
    <2>. HIDE DEF n
    <2>6. Shaped(n)
        BY <1>1, <1>4, <2>2, <2>3 DEF Good, Shaped, Copied, Early
    <2>7. DoneForAReason(n)
        BY <1>1, <2>2 DEF Good, DoneForAReason
    <2>8. r.taken["client"] = r.hello
        BY <1>1, <1>4 DEF Good, Shaped, Copied
    <2>9. Faithful(n)
        BY <1>1, <1>4, <2>2, <2>4, <2>8 DEF Good, Faithful, Before, Copied, Ahead
    <2>. QED
        BY <2>3, <2>5, <2>6, <2>7, <2>9 DEF Good, RelayInv
<1>5. CASE WriteHeader(c) /\ Writable(c, "target")
    <2>1. r.stage = "header" /\ r.header /\ r.got["target"] = <<>>
        BY <1>1, <1>5 DEF WriteHeader, Stage, Good, Shaped, Faithful, Before
    <2>2. Append(r.got["target"], Header) = <<Header>> /\ Ahead(r) = <<Header>>
        BY <2>1, HeaderFirst DEF Ahead
    <2>3. Set(c, [r EXCEPT !.stage = After(c, "header"), !.got["target"] = <<Header>>])
        BY <1>5, <2>2 DEF WriteHeader
    <2>4. CASE r.hello > 0
        <3>1. After(c, "header") = "hello"
            BY <2>4 DEF After
        <3>. QED
            BY <1>4, <2>1, <2>2, <2>3, <2>4, <3>1, HeaderFirst
    <2>5. CASE r.hello = 0
        <3>1. After(c, "header") = "copy"
            BY <2>5 DEF After
        <3>. QED
            BY <1>4, <2>1, <2>2, <2>3, <2>5, <3>1, HeaderFirst, AheadAlone
    <2>. QED
        BY <1>1, <2>4, <2>5
<1>6. CASE WriteHello(c) /\ Writable(c, "target")
    <2>1. r.stage = "hello" /\ r.got["target"] = Ahead(r)
        BY <1>1, <1>6 DEF WriteHello, Stage, Good, Faithful
    <2>2. r.got["target"] \o [i \in 1 .. r.hello |-> i] = Ahead(r) \o Numbered(r.hello)
        BY <2>1 DEF Numbered
    <2>3. Set(c, [r EXCEPT !.stage = "copy",
                           !.got["target"] = Ahead(r) \o Numbered(r.hello)])
        BY <1>6, <2>2 DEF WriteHello
    <2>4. Ahead(r) \o Numbered(r.hello) \in Seq(Nat)
        BY <1>1, AheadType, NumberedNext, ConcatProperties
    <2>. QED
        BY <1>4, <2>1, <2>3, <2>4
<1>. QED
    BY <1>2, <1>3, <1>5, <1>6 DEF WriteHeader, WriteHello, Stage

(* One read and one write: the piece that is next.                          *)
LEMMA CopyGood ==
    ASSUME NEW c \in Conn, RelayInv, NEW x \in Side, Copy(c, x)
    PROVE  Good(relay'[c]) /\ relay' \in [Conn -> RelayType]
<1>. DEFINE r == relay[c]
           y == Other(x)
           k == r.taken[x] + 1
           n == [r EXCEPT !.taken[x] = @ + 1, !.got[y] = Append(@, k)]
<1>1. /\ Good(r) /\ r \in RelayType /\ r.stage = "copy" /\ r.copy[x] = "run"
      /\ r.taken[x] \in Nat /\ k \in Nat /\ r.got[y] \in Seq(Nat)
      /\ y \in Side /\ y # x
    BY Sides DEF RelayInv, Copy, Copying, Stage, RelayType, Side
<1>2. relay' = [relay EXCEPT ![c] = n]
    BY DEF Copy, Set
<1>3. Append(r.got[y], k) \in Seq(Nat)
    BY <1>1, AppendProperties
<1>4. /\ n.stage = r.stage /\ n.header = r.header /\ n.hello = r.hello
      /\ n.sent = r.sent /\ n.end = r.end /\ n.copy = r.copy /\ n.eof = r.eof
      /\ n.taken = [r.taken EXCEPT ![x] = k]
      /\ n.got = [r.got EXCEPT ![y] = Append(@, k)]
    BY <1>1 DEF RelayType
<1>5. n \in RelayType
    <2>1. [r.taken EXCEPT ![x] = k] \in [Side -> Nat]
        BY <1>1 DEF RelayType
    <2>2. [r.got EXCEPT ![y] = Append(@, k)] \in [Side -> Seq(Nat)]
        BY <1>1, <1>3 DEF RelayType
    <2>. QED
        BY <1>1, <2>1, <2>2 DEF RelayType
<1>6. Shaped(n)
    <2>. HIDE DEF n
    <2>. QED
        BY <1>1, <1>4, <1>5 DEF Good, Shaped, Copied, Early
<1>7. DoneForAReason(n)
    BY <1>1, <1>4 DEF Good, DoneForAReason, RelayType
<1>8. Append(Numbered(r.taken[x]), k) = Numbered(k) /\ Numbered(r.taken[x]) \in Seq(Nat)
    BY <1>1, NumberedNext
<1>9. CASE x = "client"
    <2>1. /\ n.got["target"] = Append(r.got["target"], k) /\ n.got["client"] = r.got["client"]
          /\ n.taken["client"] = k /\ n.taken["target"] = r.taken["target"]
        BY <1>1, <1>4, <1>9, Sides DEF RelayType, Side
    <2>2. r.got["target"] = Ahead(r) \o Numbered(r.taken["client"])
        BY <1>1 DEF Good, Faithful, Copied
    <2>3. Append(r.got["target"], k) = Ahead(r) \o Numbered(k)
        <3>1. Append(Ahead(r) \o Numbered(r.taken[x]), k)
                  = Ahead(r) \o Append(Numbered(r.taken[x]), k)
            BY <1>1, <1>8, AppendBehind, AheadType
        <3>. QED
            BY <1>8, <1>9, <2>2, <3>1
    <2>4. Ahead(n) = Ahead(r)
        BY <1>4 DEF Ahead
    <2>5. n.got["client"] = Numbered(n.taken["target"])
        BY <1>1, <2>1 DEF Good, Faithful
    <2>6. Faithful(n)
        <3>. HIDE DEF n, k
        <3>. QED
            BY <1>1, <1>4, <2>1, <2>2, <2>3, <2>4, <2>5 DEF Faithful, Before, Copied
    <2>. QED
        BY <1>1, <1>2, <1>5, <1>6, <1>7, <2>6 DEF Good, RelayInv
<1>10. CASE x = "target"
    <2>1. /\ n.got["client"] = Append(r.got["client"], k) /\ n.got["target"] = r.got["target"]
          /\ n.taken["target"] = k /\ n.taken["client"] = r.taken["client"]
        BY <1>1, <1>4, <1>10, Sides DEF RelayType, Side
    <2>2. r.got["client"] = Numbered(r.taken["target"])
        BY <1>1 DEF Good, Faithful
    <2>3. Ahead(n) = Ahead(r)
        BY <1>4 DEF Ahead
    <2>4. Faithful(n)
        <3>1. r.got["target"] = Ahead(r) \o Numbered(r.taken["client"])
            BY <1>1 DEF Good, Faithful, Copied
        <3>2. n.taken["target"] = k /\ n.taken["client"] = r.taken["client"]
            BY <1>1, <1>4, <1>10 DEF RelayType, Side
        <3>. HIDE DEF n, k
        <3>. QED
            BY <1>1, <1>4, <1>8, <1>10, <2>1, <2>2, <2>3, <3>1, <3>2
            DEF Faithful, Before, Copied
    <2>. QED
        BY <1>1, <1>2, <1>5, <1>6, <1>7, <2>4 DEF Good, RelayInv
<1>. QED
    BY <1>9, <1>10 DEF Side

(* A copy ends for one of its three reasons, and passes the end on.         *)
LEMMA CopyEndsGood ==
    ASSUME NEW c \in Conn, RelayInv, NEW x \in Side, CopyEnds(c, x)
    PROVE  Good(relay'[c]) /\ relay' \in [Conn -> RelayType]
<1>. DEFINE r == relay[c]
           y == Other(x)
           n == [r EXCEPT !.copy[x] = "done", !.eof[y] = TRUE]
<1>1. /\ Good(r) /\ r \in RelayType /\ r.stage = "copy"
      /\ y \in Side /\ Other(y) = x
    BY Sides DEF RelayInv, CopyEnds, Copying, Stage, Side
<1>2. relay' = [relay EXCEPT ![c] = n]
    BY DEF CopyEnds, Set
<1>3. /\ n.stage = r.stage /\ n.header = r.header /\ n.hello = r.hello
      /\ n.sent = r.sent /\ n.end = r.end /\ n.taken = r.taken /\ n.got = r.got
      /\ n.copy = [r.copy EXCEPT ![x] = "done"] /\ n.eof = [r.eof EXCEPT ![y] = TRUE]
    BY <1>1 DEF RelayType
<1>4. n \in RelayType
    <2>1. [r.copy EXCEPT ![x] = "done"] \in [Side -> {"run", "done"}]
        BY <1>1 DEF RelayType
    <2>2. [r.eof EXCEPT ![y] = TRUE] \in [Side -> BOOLEAN]
        BY <1>1 DEF RelayType
    <2>. QED
        BY <1>1, <2>1, <2>2 DEF RelayType
<1>5. Shaped(n)
    <2>1. \A z \in Side : n.eof[Other(z)] => n.copy[z] = "done"
        <3>. SUFFICES ASSUME NEW z \in Side, n.eof[Other(z)]
                      PROVE  n.copy[z] = "done"
            OBVIOUS
        <3>1. CASE z = x
            BY <1>1, <1>3, <3>1 DEF RelayType
        <3>2. CASE z # x
            <4>1. Other(z) # y /\ Other(z) \in Side
                BY <3>2, Sides DEF Side
            <4>2. r.eof[Other(z)]
                BY <1>1, <1>3, <4>1 DEF RelayType
            <4>. QED
                BY <1>1, <1>3, <3>2, <4>2 DEF Good, Shaped, RelayType
        <3>. QED
            BY <3>1, <3>2
    <2>. QED
        <3>. HIDE DEF n
        <3>. QED
            BY <1>1, <1>3, <1>4, <2>1 DEF Good, Shaped, Copied, Early
<1>6. Faithful(n)
    BY <1>1, <1>3, SameFaithful DEF Good
<1>7. DoneForAReason(n)
    <2>1. \/ r.end[x] = "fin" /\ ~ r.taken[x] < r.sent[x]
          \/ \E z \in Side : r.end[z] = "reset"
        BY <1>1 DEF CopyEnds, Pending, Writable
    <2>. QED
        BY <1>1, <1>3, <2>1 DEF Good, DoneForAReason, RelayType
<1>. QED
    BY <1>1, <1>2, <1>4, <1>5, <1>6, <1>7 DEF Good, RelayInv

LEMMA CloseGood ==
    ASSUME NEW c \in Conn, RelayInv, Close(c)
    PROVE  Good(relay'[c]) /\ relay' \in [Conn -> RelayType]
<1>. DEFINE r == relay[c]
           n == [r EXCEPT !.stage = "closed"]
<1>1. /\ Good(r) /\ r \in RelayType /\ r.stage = "copy"
      /\ \A x \in Side : r.copy[x] = "done"
    BY DEF RelayInv, Close, Stage
<1>2. relay' = [relay EXCEPT ![c] = n]
    BY DEF Close, Set
<1>3. /\ n \in RelayType
      /\ n.stage = "closed" /\ n.header = r.header /\ n.hello = r.hello
      /\ n.sent = r.sent /\ n.end = r.end /\ n.taken = r.taken
      /\ n.got = r.got /\ n.copy = r.copy /\ n.eof = r.eof
    BY <1>1, Moved
<1>4. Good(n)
    <2>. HIDE DEF n
    <2>1. Shaped(n)
        BY <1>1, <1>3 DEF Good, Shaped, Copied, Early
    <2>2. Ahead(n) = Ahead(r)
        BY <1>3 DEF Ahead
    <2>3. Faithful(n)
        BY <1>1, <1>3, <2>2 DEF Good, Faithful, Before, Copied
    <2>4. DoneForAReason(n)
        BY <1>1, <1>3 DEF Good, DoneForAReason
    <2>. QED
        BY <2>1, <2>3, <2>4 DEF Good
<1>. QED
    BY <1>1, <1>2, <1>3, <1>4 DEF RelayInv

(* A connection is handed to a relay.                                       *)
LEMMA HandOver ==
    ASSUME NEW c \in Conn, RelayInv, NEW h \in BOOLEAN,
           Stage(c) \in {"none", "decide"},
           Set(c, [relay[c] EXCEPT !.stage = "dial", !.header = h])
    PROVE  Good(relay'[c]) /\ relay' \in [Conn -> RelayType]
<1>. DEFINE r == relay[c]
           n == [r EXCEPT !.stage = "dial", !.header = h]
<1>1. /\ Good(r) /\ r \in RelayType /\ r.stage \in {"none", "decide"}
      /\ relay' = [relay EXCEPT ![c] = n]
    BY DEF RelayInv, Stage, Set
<1>2. n \in RelayType
    BY <1>1 DEF RelayType
<1>3. /\ n.stage = "dial" /\ n.hello = r.hello
      /\ n.taken = r.taken /\ n.got = r.got /\ n.copy = r.copy /\ n.eof = r.eof
    BY <1>1 DEF RelayType
<1>4. Good(n)
    <2>. HIDE DEF n
    <2>1. Shaped(n)
        BY <1>1, <1>2, <1>3 DEF Good, Shaped, Copied, Early
    <2>2. Faithful(n)
        BY <1>1, <1>3 DEF Good, Faithful, Before, Copied
    <2>3. DoneForAReason(n)
        BY <1>1, <1>3 DEF Good, Shaped, DoneForAReason, Copied
    <2>. QED
        BY <2>1, <2>2, <2>3 DEF Good
<1>. QED
    BY <1>1, <1>2, <1>4 DEF RelayInv

LEMMA RelayingGood ==
    ASSUME NEW c \in Conn, RelayInv, Relaying(c) \/ Ends(c)
    PROVE  Good(relay'[c]) /\ relay' \in [Conn -> RelayType]
BY EndsGood, PreambleGood, CopyGood, CopyEndsGood, CloseGood DEF Relaying, Ends

LEMMA NoRelayGood == NoRelay \in RelayType /\ Good(NoRelay)
<1>1. NoRelay \in RelayType
    BY HeaderFirst DEF NoRelay, RelayType, Early
<1>2. Shaped(NoRelay)
    BY <1>1, Sides DEF Shaped, NoRelay, Side, Copied
<1>3. Faithful(NoRelay)
    BY NumberedZero DEF Faithful, NoRelay, Side, Before, Copied
<1>4. DoneForAReason(NoRelay)
    BY DEF DoneForAReason, NoRelay
<1>. QED
    BY <1>1, <1>2, <1>3, <1>4 DEF Good

-----------------------------------------------------------------------------
(* What follows from it.                                                    *)
LEMMA GoodInOrder == RelayInv => InOrder
<1>1. ASSUME RelayInv, NEW c \in Conn
      PROVE  /\ IsPrefix(relay[c].got["target"],
                         Preamble(c) \o Numbered(relay[c].taken["client"]))
             /\ Stage(c) \in {"copy", "closed"} =>
                    relay[c].got["target"] = Preamble(c) \o Numbered(relay[c].taken["client"])
             /\ relay[c].got["client"] = Numbered(relay[c].taken["target"])
    <2>. DEFINE r == relay[c]
                m == r.taken["client"]
    <2>1. Good(r) /\ r \in RelayType /\ Preamble(c) = Ahead(r) /\ m \in Nat
        BY <1>1 DEF RelayInv, Preamble, Ahead, RelayType, Side
    <2>2. Stage(c) \in {"copy", "closed"} => r.got["target"] = Ahead(r) \o Numbered(m)
        BY <2>1 DEF Good, Faithful, Stage, Copied
    <2>3. r.got["client"] = Numbered(r.taken["target"])
        BY <2>1 DEF Good, Faithful
    <2>4. \/ r.got["target"] = <<>>
          \/ \E k \in 0 .. m : r.got["target"] = Ahead(r) \o Numbered(k)
        <3>1. CASE r.stage = "dropped" \/ r.stage \in Before
            BY <2>1, <3>1 DEF Good, Faithful
        <3>2. CASE r.stage \in Copied
            BY <2>1, <3>2 DEF Good, Faithful
        <3>3. CASE r.stage = "hello"
            BY <2>1, <3>3, AheadAlone DEF Good, Faithful
        <3>4. CASE r.stage = "served"
            <4>1. PICK k \in Nat : Read(r, k)
                BY <2>1, <3>4 DEF Good, Faithful
            <4>2. k \in 0 .. m /\ ~ r.header
                BY <2>1, <3>4, <4>1 DEF Read, Good, Shaped, Early
            <4>. QED
                BY <4>1, <4>2, Unheaded DEF Read
        <3>. QED
            BY <2>1, <3>1, <3>2, <3>3, <3>4 DEF RelayType, Early, Before, Copied
    <2>5. IsPrefix(r.got["target"], Ahead(r) \o Numbered(m))
        <3>. HIDE DEF r, m
        <3>1. Ahead(r) \in Seq(Nat)
            BY AheadType
        <3>2. /\ IsPrefix(<<>>, Ahead(r) \o Numbered(m))
              /\ \A k \in 0 .. m : IsPrefix(Ahead(r) \o Numbered(k), Ahead(r) \o Numbered(m))
            BY <2>1, <3>1, PartIsPrefix
        <3>. QED
            BY <2>4, <3>2
    <2>. QED
        BY <2>1, <2>2, <2>3, <2>5
<1>. QED
    BY <1>1 DEF InOrder

LEMMA GoodEof == RelayInv => HonestEof
BY DEF RelayInv, Good, Shaped, DoneForAReason, HonestEof, Stage, Pending

-----------------------------------------------------------------------------
(* The relay as one connection (Pipe).                                      *)

(* Nothing is read that was not sent, and what a copy has come to the end   *)
(* of the other end has been told.                                          *)
Sound(r) ==
    /\ \A x \in Side : r.taken[x] <= r.sent[x]
    /\ \A x \in Side : r.copy[x] = "done" => r.eof[Other(x)]

PipeInv == RelayInv /\ \A c \in Conn : Sound(relay[c])

(* What the two ends see of a connection, given its record.                 *)
HeardBy(r, x) ==
    IF x = "target" /\ r.header /\ r.got[x] # <<>> THEN Tail(r.got[x]) ELSE r.got[x]
AllHeard(r) == [x \in Side |-> HeardBy(r, x)]
Over(r) == r.stage \in {"closed", "dropped"}
View(r) ==
    [sent |-> r.sent, end |-> r.end, heard |-> AllHeard(r), told |-> r.eof, over |-> Over(r)]

LEMMA SeenIsView == \A c : Seen(c) = View(relay[c])
BY DEF Seen, View, AllHeard, Over, Heard, HeardBy, Stage

(* A step of the pipe, on the record of one connection.                     *)
PipeStep(s, t) ==
    /\ ~ s.over
    /\ \/ /\ \/ \A x \in Side : s.told[x]
             \/ \A x \in Side : s.heard[x] = <<>>
          /\ t = [s EXCEPT !.over = TRUE]
       \/ \E x \in Side :
             \/ s.end[x] = "open" /\ t = [s EXCEPT !.sent[x] = @ + 1]
             \/ s.end[x] = "open" /\ t = [s EXCEPT !.end[x] = "fin"]
             \/ t = [s EXCEPT !.end[x] = "reset"]
             \/ \E y \in Side \ {x} :
                   /\ ~ s.told[y]
                   /\ \/ /\ s.end[y] # "reset"
                         /\ \E n \in Len(s.heard[y]) + 1 .. s.sent[x] :
                               t = [s EXCEPT !.heard[y] = [i \in 1 .. n |-> i]]
                      \/ /\ \/ s.end[x] = "fin" /\ Len(s.heard[y]) = s.sent[x]
                            \/ \E z \in Side : s.end[z] = "reset"
                         /\ t = [s EXCEPT !.told[y] = TRUE]

LEMMA HearStep ==
    ASSUME NEW s, NEW t, ~ s.over,
           NEW x \in Side, NEW y \in Side \ {x}, ~ s.told[y], s.end[y] # "reset",
           NEW k \in Len(s.heard[y]) + 1 .. s.sent[x],
           t = [s EXCEPT !.heard[y] = [i \in 1 .. k |-> i]]
    PROVE  PipeStep(s, t)
BY Zenon DEF PipeStep

LEMMA TellStep ==
    ASSUME NEW s, NEW t, ~ s.over,
           NEW x \in Side, NEW y \in Side \ {x}, ~ s.told[y],
           \/ s.end[x] = "fin" /\ Len(s.heard[y]) = s.sent[x]
           \/ \E z \in Side : s.end[z] = "reset",
           t = [s EXCEPT !.told[y] = TRUE]
    PROVE  PipeStep(s, t)
BY Zenon DEF PipeStep

LEMMA PipeSteps ==
    ASSUME NEW c \in Conn, relay \in [Conn -> RelayType], NEW n,
           relay' = [relay EXCEPT ![c] = n], PipeStep(View(relay[c]), View(n))
    PROVE  Direct!Step(c)
<1>. DEFINE P == [d \in Conn |-> Seen(d)]
            Q == [d \in Conn |-> Seen(d)']
            s == View(relay[c])
            t == View(n)
<1>1. /\ P[c] = s
      /\ \A u : t = u => Q = [P EXCEPT ![c] = u]
    <2>1. P = [d \in Conn |-> View(relay[d])]
        BY SeenIsView
    <2>2. Q = [d \in Conn |-> View(relay'[d])]
        BY DEF Seen, View, AllHeard, Over, Heard, HeardBy, Stage
    <2>3. relay'[c] = n /\ \A d \in Conn : d # c => relay'[d] = relay[d]
        OBVIOUS
    <2>. QED
        BY <2>1, <2>2, <2>3
<1>. HIDE DEF s, t
<1>2. P[c] = s /\ PipeStep(s, t)
    BY <1>1 DEF s, t
<1>3. ASSUME NEW u, t = u PROVE Q = [P EXCEPT ![c] = u]
    BY <1>1, <1>3
<1>4. ~ P[c].over
    BY <1>2 DEF PipeStep
<1>5. CASE /\ \/ \A x \in Side : s.told[x]
              \/ \A x \in Side : s.heard[x] = <<>>
           /\ t = [s EXCEPT !.over = TRUE]
    <2>1. Q = [P EXCEPT ![c].over = TRUE]
        BY <1>2, <1>3, <1>5
    <2>. QED
        BY <1>2, <1>4, <1>5, <2>1 DEF Direct!Step, Direct!End
<1>6. ASSUME NEW x \in Side, s.end[x] = "open", t = [s EXCEPT !.sent[x] = @ + 1]
      PROVE  Direct!Step(c)
    <2>1. Q = [P EXCEPT ![c].sent[x] = @ + 1]
        BY <1>2, <1>3, <1>6
    <2>. QED
        BY <1>2, <1>4, <1>6, <2>1 DEF Direct!Step, Direct!Send
<1>7. ASSUME NEW x \in Side, s.end[x] = "open", t = [s EXCEPT !.end[x] = "fin"]
      PROVE  Direct!Step(c)
    <2>1. Q = [P EXCEPT ![c].end[x] = "fin"]
        BY <1>2, <1>3, <1>7
    <2>. QED
        BY <1>2, <1>4, <1>7, <2>1 DEF Direct!Step, Direct!Finish
<1>8. ASSUME NEW x \in Side, t = [s EXCEPT !.end[x] = "reset"]
      PROVE  Direct!Step(c)
    <2>1. Q = [P EXCEPT ![c].end[x] = "reset"]
        BY <1>2, <1>3, <1>8
    <2>. QED
        BY <1>2, <1>4, <1>8, <2>1 DEF Direct!Step, Direct!BreakOff
<1>9. ASSUME NEW x \in Side, NEW y \in Side \ {x}, ~ s.told[y], s.end[y] # "reset",
             NEW k \in Len(s.heard[y]) + 1 .. s.sent[x],
             t = [s EXCEPT !.heard[y] = [i \in 1 .. k |-> i]]
      PROVE  Direct!Step(c)
    <2>1. Q = [P EXCEPT ![c].heard[y] = [i \in 1 .. k |-> i]]
        BY <1>2, <1>3, <1>9
    <2>2. Direct!Hear(c, x, y)
        BY <1>2, <1>9, <2>1 DEF Direct!Hear
    <2>. QED
        BY <1>4, <2>2 DEF Direct!Step
<1>10. ASSUME NEW x \in Side, NEW y \in Side \ {x}, ~ s.told[y],
              \/ s.end[x] = "fin" /\ Len(s.heard[y]) = s.sent[x]
              \/ \E z \in Side : s.end[z] = "reset",
              t = [s EXCEPT !.told[y] = TRUE]
       PROVE  Direct!Step(c)
    <2>1. Q = [P EXCEPT ![c].told[y] = TRUE]
        BY <1>2, <1>3, <1>10
    <2>2. Direct!Tell(c, x, y)
        BY <1>2, <1>10, <2>1 DEF Direct!Tell
    <2>. QED
        BY <1>4, <2>2 DEF Direct!Step
<1>. QED
    BY <1>2, <1>5, <1>6, <1>7, <1>8, <1>9, <1>10 DEF PipeStep

(* What has been heard is what the relay has read.                          *)
LEMMA CutHeader ==
    ASSUME NEW k \in Nat
    PROVE  /\ <<Header>> \o Numbered(k) # <<>>
           /\ Tail(<<Header>> \o Numbered(k)) = Numbered(k)
<1>. DEFINE h == <<Header>>
            t == Numbered(k)
            s == h \o t
<1>1. /\ h \in Seq(Nat) /\ Len(h) = 1 /\ t \in Seq(Nat) /\ Len(t) = k
    BY NumberedNext DEF Header
<1>. HIDE DEF h, t
<1>2. /\ s \in Seq(Nat) /\ Len(s) = 1 + k
      /\ \A i \in 1 .. k : s[i + 1] = t[i]
    <2>1. s \in Seq(Nat) /\ Len(s) = 1 + k
        BY <1>1, ConcatProperties
    <2>2. ASSUME NEW i \in 1 .. k PROVE s[i + 1] = t[i]
        <3>1. i + 1 \in 1 .. Len(h) + Len(t) /\ ~ i + 1 <= Len(h) /\ (i + 1) - Len(h) = i
            BY <1>1
        <3>2. s[i + 1] = t[(i + 1) - Len(h)]
            BY <1>1, <3>1, ConcatProperties
        <3>. QED
            BY <3>1, <3>2
    <2>. QED
        BY <2>1, <2>2
<1>. HIDE DEF s
<1>3. s # <<>>
    BY <1>2
<1>4. /\ Tail(s) \in Seq(Nat) /\ Len(Tail(s)) = k
      /\ \A i \in 1 .. k : Tail(s)[i] = s[i + 1]
    BY <1>2, <1>3, HeadTailProperties
<1>5. Tail(s) = t
    BY <1>1, <1>2, <1>4, SeqEqual
<1>. QED
    BY <1>3, <1>5 DEF s, h, t

LEMMA HeardIsRead ==
    ASSUME NEW r, Good(r)
    PROVE  /\ HeardBy(r, "client") = Numbered(r.taken["target"])
           /\ r.stage \in Copied => HeardBy(r, "target") = Numbered(r.taken["client"])
           /\ r.stage \in Before \cup {"hello"} => HeardBy(r, "target") = <<>>
<1>1. r.taken["client"] \in Nat
    BY DEF Good, Shaped, RelayType, Side
<1>2. HeardBy(r, "client") = Numbered(r.taken["target"])
    BY DEF Good, Faithful, HeardBy
<1>3. CASE r.header
    <2>1. Ahead(r) = <<Header>>
        BY <1>3 DEF Ahead
    <2>2. ASSUME NEW k \in Nat, r.got["target"] = <<Header>> \o Numbered(k)
          PROVE  HeardBy(r, "target") = Numbered(k)
        BY <1>3, <2>2, CutHeader DEF HeardBy
    <2>3. r.got["target"] = <<>> => HeardBy(r, "target") = <<>>
        BY DEF HeardBy
    <2>4. r.stage = "hello" => r.got["target"] = <<Header>> \o Numbered(0)
        BY <2>1, AheadAlone DEF Good, Faithful
    <2>. QED
        BY <1>1, <1>2, <2>1, <2>2, <2>3, <2>4, NumberedZero DEF Good, Faithful
<1>4. CASE ~ r.header
    <2>1. HeardBy(r, "target") = r.got["target"]
        BY <1>4 DEF HeardBy
    <2>2. Ahead(r) = <<>>
        BY <1>4 DEF Ahead
    <2>. QED
        BY <1>1, <1>2, <1>4, <2>1, <2>2, Unheaded DEF Good, Faithful
<1>. QED
    BY <1>3, <1>4

(* The ends.                                                                *)
LEMMA EndsView ==
    ASSUME NEW c \in Conn, PipeInv, Ends(c)
    PROVE  \E n : /\ relay' = [relay EXCEPT ![c] = n]
                  /\ Sound(n) /\ PipeStep(View(relay[c]), View(n))
<1>. DEFINE r == relay[c]
            s == View(r)
<1>0. r \in RelayType /\ Sound(r) /\ ~ s.over
    BY DEF PipeInv, RelayInv, Ends, Send, Finish, Reset, Reachable, Stage, Side, View, Over
<1>1. ASSUME NEW x \in Side, Send(c, x)
      PROVE  \E n : /\ relay' = [relay EXCEPT ![c] = n]
                    /\ Sound(n) /\ PipeStep(s, View(n))
    <2>. DEFINE n == [r EXCEPT !.sent[x] = @ + 1]
    <2>1. relay' = [relay EXCEPT ![c] = n] /\ r.end[x] = "open"
        BY <1>1 DEF Send, Set
    <2>2. /\ n.stage = r.stage /\ n.header = r.header /\ n.got = r.got /\ n.eof = r.eof
          /\ n.end = r.end /\ n.taken = r.taken /\ n.copy = r.copy
          /\ n.sent = [r.sent EXCEPT ![x] = @ + 1]
        BY <1>0 DEF RelayType
    <2>. HIDE DEF n
    <2>3. Sound(n)
        BY <1>0, <2>2 DEF Sound, RelayType
    <2>4. View(n) = [s EXCEPT !.sent[x] = @ + 1]
        <3>1. AllHeard(n) = AllHeard(r) /\ Over(n) = Over(r)
            BY <2>2 DEF AllHeard, HeardBy, Over
        <3>. QED
            BY <2>2, <3>1 DEF View
    <2>5. s.end[x] = "open"
        BY <2>1 DEF View
    <2>. QED
        BY <1>0, <2>1, <2>3, <2>4, <2>5 DEF PipeStep
<1>2. ASSUME NEW x \in Side, Finish(c, x) \/ Reset(c, x)
      PROVE  \E n : /\ relay' = [relay EXCEPT ![c] = n]
                    /\ Sound(n) /\ PipeStep(s, View(n))
    <2>1. PICK e \in {"fin", "reset"} :
              /\ relay' = [relay EXCEPT ![c] = [r EXCEPT !.end[x] = e]]
              /\ e = "fin" => r.end[x] = "open"
        BY <1>2 DEF Finish, Reset, Set
    <2>. DEFINE n == [r EXCEPT !.end[x] = e]
    <2>2. /\ n.stage = r.stage /\ n.header = r.header /\ n.got = r.got /\ n.eof = r.eof
          /\ n.sent = r.sent /\ n.taken = r.taken /\ n.copy = r.copy
          /\ n.end = [r.end EXCEPT ![x] = e]
        BY <1>0 DEF RelayType
    <2>3. relay' = [relay EXCEPT ![c] = n]
        BY <2>1
    <2>. HIDE DEF n
    <2>4. Sound(n)
        BY <1>0, <2>2 DEF Sound
    <2>5. View(n) = [s EXCEPT !.end[x] = e]
        <3>1. AllHeard(n) = AllHeard(r) /\ Over(n) = Over(r)
            BY <2>2 DEF AllHeard, HeardBy, Over
        <3>. QED
            BY <2>2, <3>1 DEF View
    <2>6. e = "fin" => s.end[x] = "open"
        BY <2>1 DEF View
    <2>. QED
        BY <1>0, <2>3, <2>4, <2>5, <2>6 DEF PipeStep
<1>. QED
    BY <1>1, <1>2 DEF Ends

(* The preamble is not heard; what was peeked is, all at once.  If the      *)
(* target cannot be reached, nothing has been heard yet.                    *)
LEMMA PreambleView ==
    ASSUME NEW c \in Conn, PipeInv, Dial(c) \/ WriteHeader(c) \/ WriteHello(c)
    PROVE  \E n : /\ relay' = [relay EXCEPT ![c] = n] /\ Sound(n)
                  /\ View(n) = View(relay[c]) \/ PipeStep(View(relay[c]), View(n))
<1>. DEFINE r == relay[c]
            n == relay'[c]
            s == View(r)
<1>0. /\ r \in RelayType /\ Good(r) /\ Sound(r) /\ relay \in [Conn -> RelayType]
      /\ n \in RelayType /\ Good(n) /\ r.hello \in Nat
      /\ r.stage \in {"dial", "header", "hello"}
    <2>1. r \in RelayType
        BY DEF PipeInv, RelayInv
    <2>. QED
        BY <2>1, PreambleGood
        DEF PipeInv, RelayInv, Dial, WriteHeader, WriteHello, Stage, RelayType
<1>1. relay' = [relay EXCEPT ![c] = n]
    BY <1>0 DEF Dial, WriteHeader, WriteHello, Set
<1>2. /\ n.sent = r.sent /\ n.end = r.end /\ n.taken = r.taken
      /\ n.eof = r.eof /\ n.copy = r.copy /\ n.hello = r.hello /\ n.header = r.header
      /\ n.stage \in {"header", "hello", "copy", "dropped"}
      /\ n.stage = "header" => r.stage = "dial"
      /\ n.stage = "hello" => r.stage \in {"dial", "header"}
      /\ n.stage = "dropped" => n.got = r.got
      /\ n.stage = "copy" => (r.stage = "hello" /\ Writable(c, "target")) \/ r.hello = 0
    <2>1. PICK t, g :
              /\ relay' = [relay EXCEPT ![c] = [r EXCEPT !.stage = t, !.got = g]]
              /\ t \in {"header", "hello", "copy", "dropped"}
              /\ t = "header" => r.stage = "dial"
              /\ t = "hello" => r.stage \in {"dial", "header"}
              /\ t = "dropped" => g = r.got
              /\ t = "copy" => (r.stage = "hello" /\ Writable(c, "target")) \/ r.hello = 0
        <3>0. \A t : [r EXCEPT !.stage = t] = [r EXCEPT !.stage = t, !.got = r.got]
            BY <1>0 DEF RelayType
        <3>1. \A t, v : [r EXCEPT !.stage = t, !.got["target"] = v]
                            = [r EXCEPT !.stage = t, !.got = [r.got EXCEPT !["target"] = v]]
            BY <1>0 DEF RelayType
        <3>2. CASE Dial(c)
            <4>1. PICK t \in {After(c, "nothing"), "dropped"} :
                      relay' = [relay EXCEPT ![c] = [r EXCEPT !.stage = t, !.got = r.got]]
                BY <3>0, <3>2 DEF Dial, Set
            <4>2. r.stage = "dial"
                BY <3>2 DEF Dial, Stage
            <4>3. /\ t \in {"header", "hello", "copy", "dropped"}
                  /\ t = "copy" => r.hello = 0
                BY <1>0, <4>1 DEF After
            <4>. QED
                BY <4>1, <4>2, <4>3, Zenon
        <3>3. CASE Set(c, [r EXCEPT !.stage = "dropped"])
            BY <3>0, <3>3 DEF Set
        <3>4. CASE WriteHeader(c) /\ Writable(c, "target")
            <4>1. PICK g : relay' = [relay EXCEPT ![c] =
                                        [r EXCEPT !.stage = After(c, "header"), !.got = g]]
                BY <3>1, <3>4 DEF WriteHeader, Set
            <4>2. After(c, "header") \in {"hello", "copy"} /\ r.stage = "header"
                  /\ (After(c, "header") = "copy" => r.hello = 0)
                BY <1>0, <3>4 DEF WriteHeader, After, Stage
            <4>. QED
                BY <4>1, <4>2
        <3>5. CASE WriteHello(c) /\ Writable(c, "target")
            <4>1. PICK g : relay' = [relay EXCEPT ![c] = [r EXCEPT !.stage = "copy", !.got = g]]
                BY <3>1, <3>5 DEF WriteHello, Set
            <4>. QED
                BY <3>5, <4>1 DEF WriteHello, Stage
        <3>. QED
            BY <3>2, <3>3, <3>4, <3>5 DEF WriteHeader, WriteHello
    <2>2. n = [r EXCEPT !.stage = t, !.got = g]
        BY <1>0, <2>1
    <2>. HIDE DEF n
    <2>3. /\ n.stage = t /\ n.got = g /\ n.sent = r.sent /\ n.end = r.end
          /\ n.taken = r.taken /\ n.eof = r.eof /\ n.copy = r.copy /\ n.hello = r.hello
          /\ n.header = r.header
        BY <1>0, <2>2 DEF RelayType
    <2>. QED
        BY <2>1, <2>3
<1>. HIDE DEF n
<1>3. /\ HeardBy(r, "client") = <<>> /\ HeardBy(r, "target") = <<>>
      /\ HeardBy(n, "client") = <<>>
    <2>1. r.taken["target"] = 0
        BY <1>0 DEF Good, Shaped, Copied
    <2>. QED
        BY <1>0, <1>2, <2>1, HeardIsRead, NumberedZero DEF Before
<1>4. Sound(n) /\ ~ s.over
    BY <1>0, <1>2 DEF Sound, View, Over
<1>5. CASE n.stage \in {"header", "hello"} \/ (n.stage = "copy" /\ r.hello = 0)
    <2>1. HeardBy(n, "target") = <<>>
        <3>1. CASE n.stage \in {"header", "hello"}
            BY <1>0, <3>1, HeardIsRead DEF Before
        <3>2. CASE n.stage = "copy" /\ r.hello = 0
            <4>1. n.taken["client"] = 0
                BY <1>0, <1>2, <3>2 DEF Good, Shaped, Copied
            <4>. QED
                BY <1>0, <3>2, <4>1, HeardIsRead, NumberedZero DEF Copied
        <3>. QED
            BY <1>5, <3>1, <3>2
    <2>2. AllHeard(n) = AllHeard(r) /\ Over(n) = Over(r)
        BY <1>0, <1>3, <1>5, <2>1 DEF AllHeard, Over, Side
    <2>3. View(n) = View(r)
        BY <1>2, <2>2 DEF View
    <2>. QED
        BY <1>1, <1>4, <2>3
<1>6. CASE n.stage = "copy" /\ r.hello # 0
    <2>. DEFINE k == r.hello
    <2>1. /\ r.stage = "hello" /\ r.end["target"] # "reset"
          /\ k \in Nat /\ k >= 1 /\ r.taken["client"] = k /\ k <= r.sent["client"]
          /\ r.sent["client"] \in Nat
        BY <1>0, <1>2, <1>6 DEF Good, Shaped, Copied, Sound, Writable, RelayType, Side
    <2>2. HeardBy(n, "target") = Numbered(k)
        BY <1>0, <1>2, <1>6, <2>1, HeardIsRead DEF Copied
    <2>3. /\ AllHeard(n) = [AllHeard(r) EXCEPT !["target"] = Numbered(k)]
          /\ Over(n) = Over(r)
        <3>1. AllHeard(r) = [x \in Side |-> <<>>]
            BY <1>3 DEF AllHeard, Side
        <3>2. AllHeard(n) = [x \in Side |-> IF x = "target" THEN Numbered(k) ELSE <<>>]
            BY <1>3, <2>2 DEF AllHeard, Side
        <3>. QED
            BY <1>6, <2>1, <3>1, <3>2 DEF Over
    <2>4. View(n) = [s EXCEPT !.heard["target"] = [i \in 1 .. k |-> i]]
        <3>1. View(n) = [s EXCEPT !.heard["target"] = Numbered(k)]
            BY <1>2, <2>3 DEF View
        <3>. QED
            BY <3>1 DEF Numbered
    <2>5. ~ s.told["target"] /\ s.end["target"] # "reset"
        <3>1. ~ r.eof["target"]
            BY <1>0, <2>1, Sides DEF Good, Shaped, Copied, Side
        <3>. QED
            BY <2>1, <3>1 DEF View
    <2>6. k \in Len(s.heard["target"]) + 1 .. s.sent["client"]
        <3>1. s.heard["target"] = <<>> /\ s.sent["client"] = r.sent["client"]
            BY <1>3 DEF View, AllHeard, Side
        <3>. QED
            BY <2>1, <3>1
    <2>7. "client" \in Side /\ "target" \in Side \ {"client"}
        BY DEF Side
    <2>8. PipeStep(s, View(n))
        BY <1>4, <2>4, <2>5, <2>6, <2>7, HearStep
    <2>. QED
        BY <1>1, <1>4, <2>8
<1>7. CASE n.stage = "dropped"
    <2>1. AllHeard(n) = AllHeard(r) /\ \A x \in Side : s.heard[x] = <<>>
        BY <1>2, <1>3, <1>7 DEF AllHeard, HeardBy, View, Side
    <2>2. View(n) = [s EXCEPT !.over = TRUE]
        <3>1. View(n) = [s EXCEPT !.over = Over(n)]
            BY <1>2, <2>1 DEF View
        <3>2. Over(n) = TRUE
            BY <1>7 DEF Over
        <3>. QED
            BY <3>1, <3>2, Zenon
    <2>3. PipeStep(s, View(n))
        BY <1>4, <2>1, <2>2, Zenon DEF PipeStep
    <2>. QED
        BY <1>1, <1>4, <2>3
<1>. QED
    BY <1>2, <1>5, <1>6, <1>7

(* Once the copying has begun, each end has heard what was read of the      *)
(* other.                                                                   *)
LEMMA CopiedHeard ==
    ASSUME NEW r, Good(r), r.stage \in Copied
    PROVE  AllHeard(r) = [x \in Side |-> Numbered(r.taken[Other(x)])]
<1>1. \A x \in Side : HeardBy(r, x) = Numbered(r.taken[Other(x)])
    BY HeardIsRead, Sides DEF Side
<1>. QED
    BY <1>1 DEF AllHeard

(* A piece is read from one end and heard at the other.                     *)
LEMMA CopyView ==
    ASSUME NEW c \in Conn, PipeInv, NEW x \in Side, Copy(c, x)
    PROVE  \E n : /\ relay' = [relay EXCEPT ![c] = n]
                  /\ Sound(n) /\ PipeStep(View(relay[c]), View(n))
<1>. DEFINE r == relay[c]
            y == Other(x)
            k == r.taken[x] + 1
            n == [r EXCEPT !.taken[x] = @ + 1, !.got[y] = Append(@, k)]
            s == View(r)
<1>1. /\ Good(r) /\ Sound(r) /\ r \in RelayType /\ r.stage = "copy"
      /\ r.copy[x] = "run" /\ r.end[y] # "reset" /\ r.taken[x] < r.sent[x]
      /\ r.taken[x] \in Nat /\ r.sent[x] \in Nat /\ k \in Nat
      /\ y \in Side \ {x} /\ Other(y) = x
    BY Sides DEF PipeInv, RelayInv, Copy, Copying, Pending, Writable, Stage, RelayType, Side
<1>2. relay' = [relay EXCEPT ![c] = n] /\ Good(n)
    <2>1. relay' = [relay EXCEPT ![c] = n]
        BY DEF Copy, Set
    <2>2. relay'[c] = n
        BY <2>1 DEF PipeInv, RelayInv
    <2>3. Good(relay'[c])
        BY CopyGood DEF PipeInv
    <2>. QED
        BY <2>1, <2>2, <2>3
<1>3. /\ n.stage = r.stage /\ n.sent = r.sent /\ n.end = r.end
      /\ n.copy = r.copy /\ n.eof = r.eof
      /\ n.taken = [r.taken EXCEPT ![x] = k]
    BY <1>1 DEF RelayType
<1>. HIDE DEF n
<1>4. Sound(n)
    <2>1. \A z \in Side : n.taken[z] <= n.sent[z]
        BY <1>1, <1>3 DEF Sound, RelayType
    <2>. QED
        BY <1>1, <1>3, <2>1 DEF Sound
<1>5. AllHeard(n) = [AllHeard(r) EXCEPT ![y] = Numbered(k)]
    <2>1. /\ AllHeard(r) = [z \in Side |-> Numbered(r.taken[Other(z)])]
          /\ AllHeard(n) = [z \in Side |-> Numbered(n.taken[Other(z)])]
        BY <1>1, <1>2, <1>3, CopiedHeard DEF Copied
    <2>2. \A z \in Side : n.taken[Other(z)] = IF z = y THEN k ELSE r.taken[Other(z)]
        BY <1>1, <1>3, Sides DEF RelayType, Side
    <2>. QED
        BY <2>1, <2>2
<1>6. View(n) = [s EXCEPT !.heard[y] = [i \in 1 .. k |-> i]]
    <2>1. Over(n) = Over(r)
        BY <1>3 DEF Over
    <2>2. View(n) = [s EXCEPT !.heard[y] = Numbered(k)]
        BY <1>3, <1>5, <2>1 DEF View
    <2>. QED
        BY <2>2 DEF Numbered
<1>7. ~ s.over /\ ~ s.told[y] /\ s.end[y] # "reset"
    <2>1. ~ r.eof[y]
        BY <1>1 DEF Good, Shaped
    <2>. QED
        BY <1>1, <2>1 DEF View, Over
<1>8. k \in Len(s.heard[y]) + 1 .. s.sent[x]
    <2>1. s.heard[y] = Numbered(r.taken[x]) /\ s.sent[x] = r.sent[x]
        BY <1>1, CopiedHeard DEF View, Copied
    <2>2. Len(Numbered(r.taken[x])) = r.taken[x]
        BY <1>1, NumberedNext
    <2>. QED
        BY <1>1, <2>1, <2>2
<1>9. PipeStep(s, View(n))
    BY <1>1, <1>6, <1>7, <1>8, HearStep
<1>. QED
    BY <1>2, <1>4, <1>9

(* A copy that ends tells the other end: all has been heard, or an end has  *)
(* broken off.                                                              *)
LEMMA CopyEndsView ==
    ASSUME NEW c \in Conn, PipeInv, NEW x \in Side, CopyEnds(c, x)
    PROVE  \E n : /\ relay' = [relay EXCEPT ![c] = n]
                  /\ Sound(n) /\ PipeStep(View(relay[c]), View(n))
<1>. DEFINE r == relay[c]
            y == Other(x)
            n == [r EXCEPT !.copy[x] = "done", !.eof[y] = TRUE]
            s == View(r)
<1>1. /\ Good(r) /\ Sound(r) /\ r \in RelayType /\ r.stage = "copy"
      /\ r.copy[x] = "run"
      /\ r.taken[x] \in Nat /\ r.sent[x] \in Nat /\ r.taken[x] <= r.sent[x]
      /\ y \in Side \ {x} /\ Other(y) = x
      /\ \/ r.end[x] = "fin" /\ ~ r.taken[x] < r.sent[x]
         \/ \E z \in Side : r.end[z] = "reset"
    BY Sides DEF PipeInv, RelayInv, Sound, CopyEnds, Copying, Pending, Writable, Stage,
                 RelayType, Side
<1>2. relay' = [relay EXCEPT ![c] = n]
    BY DEF CopyEnds, Set
<1>3. /\ n.stage = r.stage /\ n.header = r.header /\ n.sent = r.sent /\ n.end = r.end
      /\ n.taken = r.taken /\ n.got = r.got
      /\ n.copy = [r.copy EXCEPT ![x] = "done"] /\ n.eof = [r.eof EXCEPT ![y] = TRUE]
    BY <1>1 DEF RelayType
<1>. HIDE DEF n
<1>4. Sound(n)
    <2>1. ASSUME NEW z \in Side, n.copy[z] = "done" PROVE n.eof[Other(z)]
        <3>1. CASE z = x
            BY <1>1, <1>3, <3>1 DEF RelayType
        <3>2. CASE z # x
            <4>1. Other(z) # y /\ Other(z) \in Side /\ r.copy[z] = "done"
                BY <1>1, <1>3, <2>1, <3>2, Sides DEF Side, RelayType
            <4>2. r.eof[Other(z)]
                BY <1>1, <4>1 DEF Sound
            <4>. QED
                BY <1>1, <1>3, <4>1, <4>2 DEF RelayType
        <3>. QED
            BY <3>1, <3>2
    <2>. QED
        BY <1>1, <1>3, <2>1 DEF Sound
<1>5. View(n) = [s EXCEPT !.told[y] = TRUE]
    <2>1. /\ AllHeard(n) = AllHeard(r) /\ Over(n) = Over(r)
          /\ n.sent = r.sent /\ n.end = r.end
        BY <1>3 DEF AllHeard, HeardBy, Over
    <2>2. View(n) = [s EXCEPT !.told = n.eof]
        BY <2>1 DEF View
    <2>3. s.told = r.eof
        BY DEF View
    <2>. QED
        BY <1>3, <2>2, <2>3, Zenon
<1>6. ~ s.over /\ ~ s.told[y]
    <2>1. ~ r.eof[y]
        BY <1>1 DEF Good, Shaped
    <2>. QED
        BY <1>1, <2>1 DEF View, Over
<1>7. \/ s.end[x] = "fin" /\ Len(s.heard[y]) = s.sent[x]
      \/ \E z \in Side : s.end[z] = "reset"
    <2>1. s.heard[y] = Numbered(r.taken[x]) /\ s.sent = r.sent /\ s.end = r.end
        BY <1>1, CopiedHeard DEF View, Copied
    <2>2. Len(Numbered(r.taken[x])) = r.taken[x]
        BY <1>1, NumberedNext
    <2>. QED
        BY <1>1, <2>1, <2>2
<1>8. PipeStep(s, View(n))
    BY <1>1, <1>5, <1>6, <1>7, TellStep
<1>. QED
    BY <1>2, <1>4, <1>8

(* Both copies are done, so both ends have been told.                       *)
LEMMA CloseView ==
    ASSUME NEW c \in Conn, PipeInv, Close(c)
    PROVE  \E n : /\ relay' = [relay EXCEPT ![c] = n]
                  /\ Sound(n) /\ PipeStep(View(relay[c]), View(n))
<1>. DEFINE r == relay[c]
            n == [r EXCEPT !.stage = "closed"]
            s == View(r)
<1>1. /\ Sound(r) /\ r \in RelayType /\ r.stage = "copy"
      /\ \A x \in Side : r.copy[x] = "done"
    BY DEF PipeInv, RelayInv, Close, Stage
<1>2. relay' = [relay EXCEPT ![c] = n]
    BY DEF Close, Set
<1>3. /\ n.stage = "closed" /\ n.header = r.header
      /\ n.sent = r.sent /\ n.end = r.end /\ n.taken = r.taken
      /\ n.got = r.got /\ n.copy = r.copy /\ n.eof = r.eof
    BY <1>1, Moved
<1>. HIDE DEF n
<1>4. Sound(n)
    BY <1>1, <1>3 DEF Sound
<1>5. View(n) = [s EXCEPT !.over = TRUE]
    <2>1. AllHeard(n) = AllHeard(r)
        BY <1>3 DEF AllHeard, HeardBy
    <2>2. View(n) = [s EXCEPT !.over = Over(n)]
        BY <1>3, <2>1 DEF View
    <2>3. Over(n) = TRUE
        BY <1>3 DEF Over
    <2>. QED
        BY <2>2, <2>3, Zenon
<1>6. ~ s.over /\ \A x \in Side : s.told[x]
    <2>1. \A x \in Side : r.eof[x]
        BY <1>1, Sides DEF Sound, Side
    <2>2. ~ Over(r)
        BY <1>1 DEF Over
    <2>. QED
        BY <2>1, <2>2 DEF View
<1>7. PipeStep(s, View(n))
    BY <1>5, <1>6, Zenon DEF PipeStep
<1>. QED
    BY <1>2, <1>4, <1>7

LEMMA RelayingView ==
    ASSUME NEW c \in Conn, PipeInv, Relaying(c) \/ Ends(c)
    PROVE  \E n : /\ relay' = [relay EXCEPT ![c] = n] /\ Sound(n)
                  /\ View(n) = View(relay[c]) \/ PipeStep(View(relay[c]), View(n))
BY EndsView, PreambleView, CopyView, CopyEndsView, CloseView DEF Relaying

=============================================================================
