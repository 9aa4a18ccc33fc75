------------------------- MODULE VbusForwardProofs -------------------------
(***************************************************************************)
(* Proofs about the forwarder.  Whatever the application sends, its       *)
(* answers are answers and the state keeps its shape (Base); and as long   *)
(* as none was astray or swallowed (Trusting), for whatever URBs, each     *)
(* number is the tool's, on its way, or at the server, once (NumbersApart);*)
(* the table has those of the OUT requests among them and the ones an      *)
(* earlier session left (TableTells); after each header come the data it   *)
(* tells of, so that no read takes a header for data (InOrder).  Both are  *)
(* ForwardInv, and the first two properties follow from it.                *)
(*                                                                         *)
(* The other two take URBs that are Manageable; TLC evaluates this of      *)
(* those it runs with, and finds both violated by an IN answer larger than *)
(* BIG_SIZE.  With ForwardInv: until something was misread, cut or astray, *)
(* the thread stands at a header, or before the data it asks for, and      *)
(* swallows no other (Frame); the driver's queue knows the URB that each   *)
(* number means (KnowsUrbs), so it refuses no answer (NotRefused); and     *)
(* while nothing whatever disturbs the session, no call of the thread      *)
(* fails (Runs).                                                           *)
(***************************************************************************)
EXTENDS VbusForward, SeqLemmas, FiniteSetTheorems, TLAPS

(***************************************************************************)
(* Requests and answers.                                                   *)
(***************************************************************************)

Request == {Encode(u, n) : u \in Encodables, n \in Nat \ {0}}

\* The answers to the request q: what the application sends that fits it, or the server's.
AnswerTo(q) == {Reply(q.num, d) : d \in {e \in DeviceUrb : Fits(e, q)}}
                 \cup (IF Special(q) THEN {SpecialReply(q)} ELSE {})

Answers == UNION {AnswerTo(q) : q \in Request}

\* Products of lengths and counts, which the solver need not look into.
LEMMA Product ==
  ASSUME NEW m \in Nat, NEW n \in Nat
  PROVE  m * n \in Nat /\ 0 * n = 0
OBVIOUS

\* What every request is made of, whichever of the three computes its length.
LEMMA RequestFacts ==
  ASSUME NEW u \in Encodables, NEW n \in Nat
  PROVE  LET q == Encode(u, n)
         IN  /\ q.num = n /\ q.in = DirIn(u) /\ q.in \in BOOLEAN
             /\ q.length = Asks(u) /\ q.length \in Nat
             /\ q.packets = u.packets /\ q.packets \in Nat
             /\ q.type = "iso" <=> u.fn = "iso"
             /\ q.packets > 0 <=> u.fn = "iso"
             /\ ToolPasses(q) /\ q.size = ServerReads(q)
<1> DEFINE q == Encode(u, n)
<1>1. /\ u \in Urb /\ Consistent(u) /\ PipeFits(u)
      /\ HEADER \in Nat /\ ISO_DESC \in Nat
  BY ForwardAssumption, PduAssumption DEF Encodables, Encodable
<1>2. u.length \in Nat /\ u.packets \in Nat /\ u.fn \in Functions
      /\ u.pipe_in \in BOOLEAN /\ u.flag_in \in BOOLEAN
  BY <1>1 DEF Urb
<1>3. DirIn(u) \in BOOLEAN /\ Asks(u) \in Nat
  BY <1>2 DEF DirIn, Asks
<1>4. /\ q.num = n /\ q.in = DirIn(u) /\ q.length = Asks(u) /\ q.packets = u.packets
      /\ q.type = (IF u.fn \in OnPipe THEN u.type ELSE "control")
      /\ q.size = HEADER + (IF DirIn(u) THEN 0 ELSE Asks(u)) + u.packets * ISO_DESC
  BY DEF Encode
<1>5. q.type = "iso" <=> u.fn = "iso"
  BY <1>1, <1>4 DEF PipeFits, OnPipe
<1>6. u.packets > 0 <=> u.fn = "iso"
  BY <1>1 DEF Consistent
<1> DEFINE descs == u.packets * ISO_DESC
<1>7. descs \in Nat /\ (u.packets = 0 => descs = 0) /\ 0 * ISO_DESC = 0
  BY <1>1, <1>2, Product
<1>8. q.size = ToolExpects(q)
  BY <1>4 DEF ToolExpects
<1>9. q.size >= HEADER
  <2> HIDE DEF q, descs
  <2>1. q.size = HEADER + (IF DirIn(u) THEN 0 ELSE Asks(u)) + descs
    BY <1>4 DEF descs
  <2> QED
    BY <2>1, <1>1, <1>3, <1>7
<1>10. q.size = ServerReads(q)
  <2>1. IsoPackets(q) * ISO_DESC = descs
    <3>1. CASE u.fn = "iso"
      BY <3>1, <1>4, <1>5 DEF IsoPackets
    <3>2. CASE u.fn # "iso"
      <4>1. u.packets = 0
        BY <3>2, <1>2, <1>6
      <4> QED
        BY <4>1, <3>2, <1>5, <1>7 DEF IsoPackets
    <3> QED
      BY <3>1, <3>2
  <2> HIDE DEF q
  <2> QED
    BY <2>1, <1>4 DEF ServerReads
<1> QED
  BY <1>2, <1>3, <1>4, <1>5, <1>6, <1>8, <1>9, <1>10 DEF ToolPasses

\* A request of the driver's: the server reads what the tool passes on.
LEMMA RequestIsPassed ==
  ASSUME NEW q \in Request
  PROVE  /\ q.num \in Nat \ {0} /\ q.in \in BOOLEAN /\ q.length \in Nat
         /\ ToolPasses(q) /\ q.size = ServerReads(q)
<1>1. PICK u \in Encodables, n \in Nat \ {0} : q = Encode(u, n)
  BY DEF Request
<1> QED
  BY <1>1, RequestFacts

\* Words are larger than their halves.
LEMMA WordFacts ==
  /\ HalfWord \in Nat \ {0} /\ Word \in Nat \ {0} /\ HalfWord < Word
  /\ \A x \in Nat : /\ Wrapped(x) \in Nat /\ Wrapped(x) <= x
                    /\ x < Word => Wrapped(x) = x
                    /\ Signed(x) <= x
                    /\ x < HalfWord => Signed(x) = x
<1>1. /\ HalfWord \in Nat \ {0} /\ Word \in Nat \ {0} /\ HalfWord < Word
  BY PduAssumption DEF HalfWord, Word
<1> HIDE DEF HalfWord, Word
<1> QED
  BY <1>1 DEF Wrapped, Signed

\* What the swap makes of the length of the packets' descriptors.
LEMMA IsoLenFacts ==
  ASSUME NEW a, a.packets \in Nat
  PROVE  /\ a.packets * ISO_DESC \in Nat
         /\ a.packets = 0 => a.packets * ISO_DESC = 0
         /\ IsoLen(a) \in Nat /\ (IsoLen(a) > 0 => a.packets * ISO_DESC > 0)
<1> DEFINE descs == a.packets * ISO_DESC
           low == descs % 256
<1>1. descs \in Nat /\ (a.packets = 0 => descs = 0)
  BY Product, PduAssumption
<1>2. IsoLen(a) = low * SWAP
  BY DEF IsoLen
<1> HIDE DEF descs
<1>3. low \in Nat /\ (descs = 0 => low = 0)
  BY <1>1
<1> HIDE DEF low
<1>4. low * SWAP \in Nat /\ 0 * SWAP = 0
  BY <1>3, Product, PduAssumption
<1>5. IsoLen(a) \in Nat /\ (IsoLen(a) > 0 => descs > 0)
  BY <1>1, <1>2, <1>3, <1>4
<1> QED
  BY <1>1, <1>5 DEF descs

\* An answer that fits its request has the lengths that the request leads to.
LEMMA ReplyFacts ==
  ASSUME NEW q \in Request, NEW d \in DeviceUrb, Fits(d, q), NEW a, a = Reply(q.num, d)
  PROVE  /\ a.num = q.num /\ a.in = q.in /\ a.packets = IsoPackets(q)
         /\ a.actual \in Nat /\ a.actual <= q.length /\ a.actual < Word
         /\ a.data = (IF a.in THEN a.actual ELSE 0)
         /\ a.descs = a.packets * ISO_DESC
<1>1. /\ q.in \in BOOLEAN /\ q.length \in Nat
  BY RequestIsPassed
<1>2. /\ d.in \in BOOLEAN /\ d.iso \in BOOLEAN /\ d.packets \in Nat /\ d.actual \in Nat
      /\ d.actual < HalfWord
  BY WordFacts DEF DeviceUrb
<1>3. /\ d.in = q.in /\ (d.iso <=> q.type = "iso") /\ d.packets = IsoPackets(q)
      /\ d.actual <= q.length /\ d.unset = 0
  BY DEF Fits
<1>4. d.actual < Word /\ Wrapped(d.actual) = d.actual /\ Signed(d.actual) = d.actual
  BY <1>2, WordFacts
<1>5. d.unset + d.actual = d.actual
  BY <1>2, <1>3
<1>6. ret_len(d) = d.actual
  BY <1>4, <1>5 DEF ret_len
<1>7. /\ a.num = q.num /\ a.in = d.in /\ a.actual = ret_len(d) /\ a.packets = d.packets
      /\ a.data = (IF ~d.in \/ Signed(ret_len(d)) <= 0 THEN 0
                   ELSE IF d.iso THEN d.actual ELSE ret_len(d))
      /\ a.descs = (IF d.iso THEN d.packets * ISO_DESC ELSE 0)
  BY DEF Reply
<1>8. a.data = (IF a.in THEN a.actual ELSE 0)
  <2>1. a.data = (IF ~d.in \/ d.actual <= 0 THEN 0 ELSE d.actual)
    BY <1>4, <1>6, <1>7
  <2> QED
    BY <1>2, <1>6, <1>7, <2>1
<1>9. a.descs = a.packets * ISO_DESC
  <2>1. ~d.iso => d.packets = 0
    BY <1>3 DEF IsoPackets
  <2>2. 0 * ISO_DESC = 0
    BY Product, PduAssumption
  <2> QED
    BY <1>7, <2>1, <2>2
<1> QED
  BY <1>1, <1>2, <1>3, <1>4, <1>6, <1>7, <1>8, <1>9

\* The server's own answer is an empty one.
LEMMA SpecialReplyFacts ==
  ASSUME NEW q \in Request, Special(q), NEW a, a = SpecialReply(q)
  PROVE  /\ a.num = q.num /\ a.in = q.in /\ ~a.in /\ a.packets = 0 /\ IsoPackets(q) = 0
         /\ a.actual = 0 /\ a.data = 0 /\ a.descs = 0
<1>1. PICK u \in Encodables, n \in Nat \ {0} : q = Encode(u, n)
  BY DEF Request
<1>2. q.packets \in Nat /\ (q.packets > 0 <=> q.type = "iso")
  BY <1>1, RequestFacts
<1>3. q.type # "iso" /\ ~q.in
  BY DEF Special
<1> QED
  BY <1>2, <1>3 DEF SpecialReply, IsoPackets

\* What every answer is made of.
LEMMA AnswerFacts ==
  ASSUME NEW q \in Request, NEW a \in AnswerTo(q)
  PROVE  /\ a \in Answers /\ a.num = q.num /\ a.in = q.in
         /\ a.actual \in Nat /\ a.actual <= q.length /\ a.actual < Word
         /\ a.packets = IsoPackets(q) /\ a.packets \in Nat
         /\ a.data = (IF a.in THEN a.actual ELSE 0)
         /\ a.data \in Nat /\ a.descs \in Nat
         /\ a.packets = 0 => a.descs = 0 /\ IsoLen(a) = 0
         /\ IsoLen(a) \in Nat /\ (IsoLen(a) > 0 => a.descs > 0)
<1>1. q.in \in BOOLEAN /\ q.length \in Nat
  BY RequestIsPassed
<1>2. a \in Answers
  BY DEF Answers
<1>3. IsoPackets(q) \in Nat
  <2>1. PICK u \in Encodables, n \in Nat \ {0} : q = Encode(u, n)
    BY DEF Request
  <2>2. q.packets \in Nat
    BY <2>1, RequestFacts
  <2> QED
    BY <2>2 DEF IsoPackets
<1>4. CASE \E d \in DeviceUrb : Fits(d, q) /\ a = Reply(q.num, d)
  <2>1. PICK d \in DeviceUrb : Fits(d, q) /\ a = Reply(q.num, d)
    BY <1>4
  <2>2. /\ a.num = q.num /\ a.in = q.in /\ a.packets = IsoPackets(q)
        /\ a.actual \in Nat /\ a.actual <= q.length /\ a.actual < Word
        /\ a.data = (IF a.in THEN a.actual ELSE 0)
        /\ a.descs = a.packets * ISO_DESC
    BY <2>1, ReplyFacts
  <2>3. /\ a.packets * ISO_DESC \in Nat
        /\ a.packets = 0 => a.packets * ISO_DESC = 0
        /\ IsoLen(a) \in Nat /\ (IsoLen(a) > 0 => a.packets * ISO_DESC > 0)
    BY <1>3, <2>2, IsoLenFacts
  <2> DEFINE descs == a.packets * ISO_DESC
  <2>4. a.descs = descs /\ descs \in Nat /\ (a.packets = 0 => descs = 0)
        /\ IsoLen(a) \in Nat /\ (IsoLen(a) > 0 => descs > 0)
    BY <2>2, <2>3
  <2> HIDE DEF descs
  <2> QED
    BY <1>1, <1>2, <1>3, <2>2, <2>4
<1>5. CASE Special(q) /\ a = SpecialReply(q)
  <2>1. /\ a.num = q.num /\ a.in = q.in /\ ~a.in /\ a.packets = 0 /\ IsoPackets(q) = 0
        /\ a.actual = 0 /\ a.data = 0 /\ a.descs = 0
    BY <1>5, SpecialReplyFacts
  <2>2. IsoLen(a) \in Nat /\ ~(IsoLen(a) > 0)
    <3>1. /\ a.packets = 0 => a.packets * ISO_DESC = 0
          /\ IsoLen(a) \in Nat /\ (IsoLen(a) > 0 => a.packets * ISO_DESC > 0)
      BY <2>1, IsoLenFacts
    <3> QED
      BY <2>1, <3>1
  <2> QED
    BY <1>1, <1>2, <2>1, <2>2, WordFacts
<1> QED
  BY <1>4, <1>5 DEF AnswerTo

\* The fields of an answer.
LEMMA AnswerIsTyped ==
  ASSUME NEW a \in Answers
  PROVE  /\ a.num \in Nat \ {0} /\ a.in \in BOOLEAN /\ a.actual \in Nat /\ a.actual < Word
         /\ a.packets \in Nat
         /\ a.data = (IF a.in THEN a.actual ELSE 0)
         /\ a.data \in Nat /\ a.descs \in Nat
         /\ a.packets = 0 => a.descs = 0 /\ IsoLen(a) = 0
         /\ IsoLen(a) \in Nat /\ (IsoLen(a) > 0 => a.descs > 0)
<1>1. PICK q \in Request : a \in AnswerTo(q)
  BY DEF Answers
<1> QED
  BY <1>1, RequestIsPassed, AnswerFacts

\* Whatever the server sends, whether it fits a request or not.
Replied == {Reply(n, d) : n \in Nat, d \in DeviceUrb}
             \cup {SpecialReply(q) : q \in {r \in Request : Special(r)}}

\* The lengths in it are numbers, and what the tool computes from them.
LEMMA RepliedFacts ==
  ASSUME NEW a \in Replied
  PROVE  /\ a.num \in Nat /\ a.data \in Nat /\ a.descs \in Nat
         /\ \A out \in BOOLEAN : Follows(a, out) \in Nat
<1>1. /\ a.num \in Nat /\ a.actual \in Nat /\ a.packets \in Nat
      /\ a.data \in Nat /\ a.descs \in Nat
  <2>1. CASE \E n \in Nat, d \in DeviceUrb : a = Reply(n, d)
    <3>1. PICK n \in Nat, d \in DeviceUrb : a = Reply(n, d)
      BY <2>1
    <3>2. /\ d.unset \in Nat /\ d.actual \in Nat /\ d.packets \in Nat
      BY WordFacts DEF DeviceUrb
    <3>3. ret_len(d) \in Nat
      <4>1. d.unset + d.actual \in Nat
        BY <3>2
      <4> QED
        BY <4>1, WordFacts DEF ret_len
    <3>4. d.packets * ISO_DESC \in Nat
      BY <3>2, Product, PduAssumption
    <3>5. /\ a.num = n /\ a.actual = ret_len(d) /\ a.packets = d.packets
          /\ a.data \in {0, d.actual, ret_len(d)} /\ a.descs \in {0, d.packets * ISO_DESC}
      BY <3>1 DEF Reply
    <3> QED
      BY <3>2, <3>3, <3>4, <3>5
  <2>2. CASE \E q \in Request : Special(q) /\ a = SpecialReply(q)
    <3>1. PICK q \in Request : Special(q) /\ a = SpecialReply(q)
      BY <2>2
    <3> QED
      BY <3>1, SpecialReplyFacts, RequestIsPassed
  <2> QED
    BY <2>1, <2>2 DEF Replied
<1>2. ASSUME NEW out \in BOOLEAN PROVE Follows(a, out) \in Nat
  <2> DEFINE x == (IF out THEN 0 ELSE a.actual) + IsoLen(a)
  <2>1. x \in Nat
    BY <1>1, IsoLenFacts
  <2>2. Follows(a, out) = Wrapped(x)
    BY DEF Follows
  <2> HIDE DEF x
  <2> QED
    BY <2>1, <2>2, WordFacts
<1> QED
  BY <1>1, <1>2

\* An answer to a request is sent by the server.
LEMMA AnswerIsReplied ==
  ASSUME NEW a \in Answers
  PROVE  a \in Replied
<1>1. PICK q \in Request : a \in AnswerTo(q)
  BY DEF Answers
<1>2. q.num \in Nat
  BY <1>1, RequestIsPassed
<1> QED
  BY <1>1, <1>2 DEF AnswerTo, Replied

(***************************************************************************)
(* The stream to the tool.                                                 *)
(***************************************************************************)

Item == [kind : {"header"}, answer : Answers] \cup [kind : {"data"}, bytes : Nat]

HeadersOf(s) == {s[i].answer : i \in {j \in 1..Len(s) : s[j].kind = "header"}}

\* No two headers have the same number.
Once(s) == \A i, j \in 1..Len(s) :
             /\ s[i].kind = "header" /\ s[j].kind = "header"
             /\ s[i].answer.num = s[j].answer.num
             => i = j

\* From i on, s goes on with a header, if at all.
GoesOn(s, i) == i <= Len(s) => s[i].kind = "header"

\* From i on, s has the data of the answer a, and then goes on with a header.
Follow(s, i, a) ==
  IF a.data = 0 THEN GoesOn(s, i)
  ELSE /\ i <= Len(s) /\ s[i] = [kind |-> "data", bytes |-> a.data]
       /\ GoesOn(s, i + 1)

\* What the rest s of the stream begins with after the header of a.
Begins(s, a) ==
  /\ a.data + a.descs > 0 => s # <<>> /\ s[1].kind = "data"
  /\ a.packets = 0 => Follow(s, 1, a)

\* Each header is followed by data if it tells of any, and each that tells of no packets
\* by exactly its data.
Whole(s) ==
  \A i \in 1..Len(s) : s[i].kind = "header" =>
    LET a == s[i].answer
    IN  /\ a.data + a.descs > 0 => i < Len(s) /\ s[i + 1].kind = "data"
        /\ a.packets = 0 => Follow(s, i + 1, a)

\* The numbers of S are none of those of T.
Apart(S, T) == \A q \in S, r \in T : q.num # r.num

\* What is on the stream from the server is a header or data.
LEMMA ItemFacts ==
  ASSUME NEW e \in Item
  PROVE  /\ e.kind \in {"header", "data"}
         /\ e.kind = "header" => e.answer \in Answers
BY DEF Item

\* Reading a header leaves what belongs to its answer.
LEMMA TailOfStream ==
  ASSUME NEW s \in Seq(Item), s # <<>>, Once(s), Whole(s)
  PROVE  /\ Tail(s) \in Seq(Item) /\ Once(Tail(s)) /\ Whole(Tail(s))
         /\ Head(s) = s[1] /\ Head(s) \in Item
         /\ Head(s).kind = "header" =>
              /\ HeadersOf(s) = HeadersOf(Tail(s)) \cup {Head(s).answer}
              /\ Apart({Head(s).answer}, HeadersOf(Tail(s)))
              /\ Begins(Tail(s), Head(s).answer)
         /\ Head(s).kind # "header" => HeadersOf(s) = HeadersOf(Tail(s))
<1> DEFINE t == Tail(s)
<1>1. /\ t \in Seq(Item) /\ Len(s) \in Nat \ {0} /\ Len(t) = Len(s) - 1
      /\ \A i \in 1..Len(t) : t[i] = s[i + 1]
      /\ Head(s) = s[1] /\ Head(s) \in Item
  BY HeadTailProperties, EmptySeq
<1> HIDE DEF t
<1>2. Once(t)
  <2> SUFFICES ASSUME NEW i \in 1..Len(t), NEW j \in 1..Len(t),
                      t[i].kind = "header", t[j].kind = "header",
                      t[i].answer.num = t[j].answer.num
               PROVE  i = j
    BY DEF Once
  <2>1. i + 1 \in 1..Len(s) /\ j + 1 \in 1..Len(s) /\ t[i] = s[i + 1] /\ t[j] = s[j + 1]
    BY <1>1
  <2>2. i + 1 = j + 1
    BY <2>1 DEF Once
  <2> QED
    BY <2>2
<1>3. \A a : \A i \in Nat \ {0} : Follow(s, i + 1, a) => Follow(t, i, a)
  <2> SUFFICES ASSUME NEW i \in Nat \ {0}, NEW a, Follow(s, i + 1, a) PROVE Follow(t, i, a)
    OBVIOUS
  <2>1. \A k \in Nat \ {0} : GoesOn(s, k + 1) => GoesOn(t, k)
    BY <1>1 DEF GoesOn
  <2>2. i + 1 <= Len(s) => i <= Len(t) /\ t[i] = s[i + 1]
    BY <1>1
  <2> QED
    BY <2>1, <2>2 DEF Follow
<1>4. Whole(t)
  <2> SUFFICES ASSUME NEW i \in 1..Len(t), t[i].kind = "header"
               PROVE  /\ t[i].answer.data + t[i].answer.descs > 0 =>
                           i < Len(t) /\ t[i + 1].kind = "data"
                      /\ t[i].answer.packets = 0 => Follow(t, i + 1, t[i].answer)
    BY Zenon DEF Whole
  <2>1. i + 1 \in 1..Len(s) /\ t[i] = s[i + 1]
    BY <1>1
  <2> DEFINE a == t[i].answer
  <2>2. /\ a.data + a.descs > 0 => i + 1 < Len(s) /\ s[i + 1 + 1].kind = "data"
        /\ a.packets = 0 => Follow(s, i + 1 + 1, a)
    BY <2>1 DEF Whole
  <2> HIDE DEF a
  <2>3. i + 1 < Len(s) => i < Len(t) /\ t[i + 1] = s[i + 1 + 1]
    BY <1>1
  <2> QED
    BY <1>3, <2>2, <2>3 DEF a
<1>5. \A e : e \in HeadersOf(t) => \E i \in 1..Len(t) : t[i].kind = "header" /\ e = t[i].answer
  BY DEF HeadersOf
<1>6. ASSUME s[1].kind = "header"
      PROVE  /\ HeadersOf(s) = HeadersOf(t) \cup {s[1].answer}
             /\ Apart({s[1].answer}, HeadersOf(t)) /\ Begins(t, s[1].answer)
  <2>1. 1 \in 1..Len(s)
    BY <1>1
  <2>2. HeadersOf(t) \cup {s[1].answer} \subseteq HeadersOf(s)
    <3>1. ASSUME NEW i \in 1..Len(t) PROVE i + 1 \in 1..Len(s) /\ t[i] = s[i + 1]
      BY <1>1
    <3> QED
      BY <1>6, <2>1, <3>1 DEF HeadersOf
  <2>3. HeadersOf(s) \subseteq HeadersOf(t) \cup {s[1].answer}
    <3> SUFFICES ASSUME NEW i \in 1..Len(s), s[i].kind = "header", i # 1
                 PROVE  s[i].answer \in HeadersOf(t)
      BY DEF HeadersOf
    <3>1. i - 1 \in 1..Len(t) /\ t[i - 1] = s[i]
      BY <1>1
    <3> QED
      BY <3>1 DEF HeadersOf
  <2>4. Apart({s[1].answer}, HeadersOf(t))
    <3> SUFFICES ASSUME NEW i \in 1..Len(t), t[i].kind = "header",
                        t[i].answer.num = s[1].answer.num
                 PROVE  FALSE
      BY <1>5 DEF Apart
    <3>1. i + 1 \in 1..Len(s) /\ t[i] = s[i + 1]
      BY <1>1
    <3>2. i + 1 = 1
      BY <1>6, <2>1, <3>1 DEF Once
    <3> QED
      BY <3>2
  <2>5. Begins(t, s[1].answer)
    <3> DEFINE a == s[1].answer
    <3>1. /\ a.data + a.descs > 0 => 1 < Len(s) /\ s[1 + 1].kind = "data"
          /\ a.packets = 0 => Follow(s, 1 + 1, a)
      BY <1>6, <2>1 DEF Whole
    <3> HIDE DEF a
    <3>2. 1 < Len(s) => Len(t) >= 1 /\ t[1] = s[1 + 1]
      BY <1>1
    <3>3. Len(t) >= 1 => t # <<>>
      BY EmptySeq
    <3> QED
      BY <1>3, <3>1, <3>2, <3>3 DEF Begins, a
  <2> QED
    BY <2>2, <2>3, <2>4, <2>5
<1>7. ASSUME s[1].kind # "header" PROVE HeadersOf(s) = HeadersOf(t)
  <2>1. HeadersOf(t) \subseteq HeadersOf(s)
    <3>1. ASSUME NEW i \in 1..Len(t) PROVE i + 1 \in 1..Len(s) /\ t[i] = s[i + 1]
      BY <1>1
    <3> QED
      BY <3>1 DEF HeadersOf
  <2>2. HeadersOf(s) \subseteq HeadersOf(t)
    <3> SUFFICES ASSUME NEW i \in 1..Len(s), s[i].kind = "header"
                 PROVE  s[i].answer \in HeadersOf(t)
      BY DEF HeadersOf
    <3>1. i - 1 \in 1..Len(t) /\ t[i - 1] = s[i]
      BY <1>1, <1>7
    <3> QED
      BY <3>1 DEF HeadersOf
  <2> QED
    BY <2>1, <2>2
<1> QED
  BY <1>1, <1>2, <1>4, <1>6, <1>7 DEF t

\* One more item, or the data of n bytes, at the end of the stream.
LEMMA ItemOnStream ==
  ASSUME NEW s \in Seq(Item), NEW e \in Item
  PROVE  /\ s \o <<e>> \in Seq(Item) /\ Len(s \o <<e>>) = Len(s) + 1
         /\ (s \o <<e>>)[Len(s) + 1] = e
         /\ \A i \in 1..Len(s) : (s \o <<e>>)[i] = s[i]
<1>1. <<e>> \in Seq(Item) /\ Len(<<e>>) = 1 /\ <<e>>[1] = e
  OBVIOUS
<1>2. /\ s \o <<e>> \in Seq(Item)
      /\ Len(s \o <<e>>) = Len(s) + Len(<<e>>)
      /\ \A i \in 1..(Len(s) + Len(<<e>>)) :
           (s \o <<e>>)[i] = IF i <= Len(s) THEN s[i] ELSE <<e>>[i - Len(s)]
  BY <1>1, ConcatProperties
<1> DEFINE t == s \o <<e>>
           n == Len(s)
<1>3. n \in Nat
  OBVIOUS
<1> HIDE DEF t, n
<1>4. /\ t \in Seq(Item) /\ Len(t) = n + 1
      /\ \A i \in 1..(n + 1) : t[i] = IF i <= n THEN s[i] ELSE <<e>>[i - n]
  BY <1>1, <1>2 DEF t, n
<1>5. t[n + 1] = e
  <2>1. n + 1 \in 1..(n + 1) /\ ~(n + 1 <= n) /\ (n + 1) - n = 1
    BY <1>3
  <2> QED
    BY <1>1, <1>4, <2>1
<1>6. \A i \in 1..n : t[i] = s[i]
  BY <1>3, <1>4
<1> QED
  BY <1>4, <1>5, <1>6 DEF t, n

\* Data of some length is at most one item.
LEMMA DataIsItems ==
  ASSUME NEW n \in Nat
  PROVE  Data(n) \in Seq(Item)
<1>1. [kind |-> "data", bytes |-> n] \in Item
  BY DEF Item
<1> QED
  BY <1>1, EmptySeq DEF Data

\* t is s with the data of n bytes after it.
DataAfter(s, t, n) ==
  /\ t \in Seq(Item)
  /\ n = 0 => Len(t) = Len(s)
  /\ n > 0 => Len(t) = Len(s) + 1 /\ t[Len(s) + 1].kind = "data"
  /\ n > 0 => t[Len(s) + 1] = [kind |-> "data", bytes |-> n]
  /\ \A i \in 1..Len(s) : t[i] = s[i]

\* Data sent after a header leaves the headers on the stream as they are.
LEMMA DataOnStream ==
  ASSUME NEW s \in Seq(Item), NEW n \in Nat, NEW t, t = s \o Data(n)
  PROVE  DataAfter(s, t, n)
<1>1. CASE n = 0
  <2>1. t = s
    BY <1>1, ConcatEmptySeq DEF Data
  <2>2. ~(n > 0)
    BY <1>1
  <2>3. t \in Seq(Item) /\ Len(t) = Len(s) /\ \A i \in 1..Len(s) : t[i] = s[i]
    BY <2>1, Zenon
  <2> QED
    BY <2>2, <2>3, Zenon DEF DataAfter
<1>2. CASE n # 0
  <2> DEFINE e == [kind |-> "data", bytes |-> n]
  <2>1. e \in Item
    BY DEF Item
  <2>2. Data(n) = <<e>>
    BY <1>2 DEF Data
  <2> HIDE DEF e
  <2>3. /\ s \o <<e>> \in Seq(Item) /\ Len(s \o <<e>>) = Len(s) + 1
        /\ (s \o <<e>>)[Len(s) + 1] = e
        /\ \A i \in 1..Len(s) : (s \o <<e>>)[i] = s[i]
    BY <2>1, ItemOnStream
  <2>4. e.kind = "data"
    BY DEF e
  <2>5. t \in Seq(Item) /\ Len(t) = Len(s) + 1 /\ \A i \in 1..Len(s) : t[i] = s[i]
    BY <2>2, <2>3
  <2>6. t[Len(s) + 1] = e
    BY <2>2, <2>3
  <2> QED
    BY <1>2, <2>4, <2>5, <2>6, Zenon DEF e, DataAfter
<1> QED
  BY <1>1, <1>2

\* t is s with the answer a, and all that belongs to it, after it.
AnswerAfter(s, t, a) ==
  /\ t \in Seq(Item) /\ Once(t) /\ Whole(t) /\ HeadersOf(t) = HeadersOf(s) \cup {a}
  /\ Len(t) > Len(s) /\ \A i \in 1..Len(s) : t[i] = s[i]
  /\ \A b : \A i \in 1..(Len(s) + 1) : Follow(s, i, b) => Follow(t, i, b)

\* An answer sent adds its header to those on the stream.
LEMMA AnswerOnStream ==
  ASSUME NEW s \in Seq(Item), Once(s), Whole(s), NEW a \in Answers,
         Apart({a}, HeadersOf(s)), NEW t,
         t = s \o Answered(a)
  PROVE  AnswerAfter(s, t, a)
<1> DEFINE h == [kind |-> "header", answer |-> a]
           n == Len(s)
           t1 == s \o <<h>>
           t2 == t1 \o Data(a.data)
<1>1. h \in Item /\ h.kind = "header" /\ h.answer = a
  BY DEF Item
<1>2. /\ a.data \in Nat /\ a.descs \in Nat /\ n \in Nat
      /\ a.packets = 0 => a.descs = 0
  BY AnswerIsTyped
<1>3. t = t2 \o Data(a.descs)
  <2> DEFINE d1 == Data(a.data)
             d2 == Data(a.descs)
  <2>1. <<h>> \in Seq(Item)
    BY <1>1
  <2>2. d1 \in Seq(Item) /\ d2 \in Seq(Item)
    BY <1>2, DataIsItems
  <2>3. t = s \o ((<<h>> \o d1) \o d2)
    BY DEF Answered
  <2>4. t2 = (s \o <<h>>) \o d1
    OBVIOUS
  <2> HIDE DEF h, d1, d2, t2
  <2>5. <<h>> \o d1 \in Seq(Item)
    BY <2>1, <2>2, ConcatProperties
  <2>6. t = (s \o (<<h>> \o d1)) \o d2
    BY <2>2, <2>3, <2>5, ConcatAssociative
  <2>7. s \o (<<h>> \o d1) = t2
    BY <2>1, <2>2, <2>4, ConcatAssociative
  <2> QED
    BY <2>6, <2>7 DEF d2
<1> HIDE DEF h
<1>4. /\ t1 \in Seq(Item) /\ Len(t1) = n + 1 /\ t1[n + 1] = h
      /\ \A i \in 1..n : t1[i] = s[i]
  BY <1>1, ItemOnStream
<1> HIDE DEF t1
<1>5. DataAfter(t1, t2, a.data)
  BY <1>2, <1>4, DataOnStream
<1> HIDE DEF t2
<1>6. DataAfter(t2, t, a.descs)
  <2>1. t2 \in Seq(Item)
    BY <1>5 DEF DataAfter
  <2> QED
    BY <2>1, <1>2, <1>3, DataOnStream
<1> HIDE DEF n
<1>13. /\ Len(t2) \in Nat /\ Len(t2) >= n + 1
       /\ a.data = 0 => Len(t2) = n + 1
       /\ a.data > 0 => Len(t2) = n + 2 /\ t2[n + 2].kind = "data"
       /\ t2[n + 1] = h /\ \A i \in 1..n : t2[i] = s[i]
  BY <1>2, <1>4, <1>5 DEF DataAfter
<1>14. /\ Len(t) \in Nat /\ Len(t) >= Len(t2)
       /\ a.descs = 0 => Len(t) = Len(t2)
       /\ a.descs > 0 => Len(t) = Len(t2) + 1 /\ t[Len(t2) + 1].kind = "data"
       /\ \A i \in 1..Len(t2) : t[i] = t2[i]
  <2>1. t \in Seq(Item) /\ Len(t) \in Nat
    BY <1>6 DEF DataAfter
  <2>2. \A i \in 1..Len(t2) : t[i] = t2[i]
    BY <1>6, Zenon DEF DataAfter
  <2>3. a.descs = 0 => Len(t) = Len(t2)
    BY <1>6, Zenon DEF DataAfter
  <2>4. a.descs > 0 => Len(t) = Len(t2) + 1 /\ t[Len(t2) + 1].kind = "data"
    BY <1>6, Zenon DEF DataAfter
  <2>5. Len(t2) \in Nat /\ a.descs \in Nat
    BY <1>2, <1>13
  <2>6. Len(t) >= Len(t2)
    <3>1. CASE a.descs = 0
      BY <3>1, <2>3, <2>5
    <3>2. CASE a.descs > 0
      BY <3>2, <2>4, <2>5
    <3> QED
      BY <2>5, <3>1, <3>2
  <2> QED
    BY <2>1, <2>2, <2>3, <2>4, <2>6, Zenon
<1>15. a.data > 0 => t2[n + 2] = [kind |-> "data", bytes |-> a.data]
  <2>1. a.data > 0 => t2[Len(t1) + 1] = [kind |-> "data", bytes |-> a.data]
    BY <1>5 DEF DataAfter
  <2>2. Len(t1) + 1 = n + 2
    BY <1>2, <1>4
  <2> QED
    BY <2>1, <2>2
<1> DEFINE d == [kind |-> "data", bytes |-> a.data]
<1> HIDE DEF d
<1>7. /\ Len(t) \in Nat /\ Len(t) >= n + 1 /\ t[n + 1] = h
      /\ \A i \in 1..n : t[i] = s[i]
      /\ \A i \in 1..Len(t) : i <= n + 1 \/ t[i].kind = "data"
      /\ a.data > 0 => Len(t) >= n + 2 /\ t[n + 2] = d
      /\ a.data + a.descs > 0 => Len(t) >= n + 2
      /\ a.descs = 0 => (a.data = 0 => Len(t) = n + 1) /\ (a.data > 0 => Len(t) = n + 2)
  <2>8. n + 1 \in 1..Len(t2) /\ \A i \in 1..n : i \in 1..Len(t2)
    BY <1>2, <1>13
  <2>1. Len(t) >= n + 1 /\ t[n + 1] = h
    <3>1. t[n + 1] = h
      BY <1>13, <1>14, <2>8, Zenon
    <3> QED
      BY <3>1, <1>2, <1>13, <1>14
  <2>2. \A i \in 1..n : t[i] = s[i]
    BY <1>13, <1>14, <2>8, Zenon
  <2>3. ASSUME NEW i \in 1..Len(t), ~(i <= n + 1) PROVE t[i].kind = "data"
    <3>1. CASE i <= Len(t2)
      <4>1. a.data > 0 /\ i = n + 2
        BY <1>2, <1>13, <2>3, <3>1
      <4> QED
        BY SMTT(30), <1>2, <1>13, <1>14, <3>1, <4>1
    <3>2. CASE ~(i <= Len(t2))
      <4>1. a.descs > 0 /\ i = Len(t2) + 1
        BY <1>2, <1>13, <1>14, <2>3, <3>2
      <4> QED
        BY <1>14, <4>1
    <3> QED
      BY <3>1, <3>2
  <2>4. a.data > 0 => Len(t) >= n + 2 /\ t[n + 2] = t2[n + 2]
    BY <1>2, <1>13, <1>14
  <2>5. a.data > 0 => t[n + 2] = d
    BY <1>15, <2>4 DEF d
  <2>6. a.data + a.descs > 0 => Len(t) >= n + 2
    BY <1>2, <1>13, <1>14
  <2>7. a.descs = 0 => (a.data = 0 => Len(t) = n + 1) /\ (a.data > 0 => Len(t) = n + 2)
    BY <1>2, <1>13, <1>14
  <2> QED
    BY <1>14, <2>1, <2>2, <2>3, <2>4, <2>5, <2>6, <2>7
<1>8. \A b : \A i \in 1..(n + 1) : Follow(s, i, b) => Follow(t, i, b)
  <2>1. \A k \in 1..(n + 1) : GoesOn(s, k) => GoesOn(t, k)
    BY <1>1, <1>2, <1>7 DEF GoesOn, n
  <2>2. \A k \in 1..(n + 1) : k <= Len(s) => k \in 1..n /\ k + 1 \in 1..(n + 1) /\ k <= Len(t)
    BY <1>2, <1>7 DEF n
  <2> QED
    BY <1>7, <2>1, <2>2 DEF Follow
<1>9. ASSUME NEW i \in 1..Len(t), t[i].kind = "header"
      PROVE  \/ i \in 1..n /\ t[i] = s[i]
             \/ i = n + 1 /\ t[i].answer = a
  <2>1. i <= n + 1
    BY <1>7, <1>9
  <2>2. i \in 1..n \/ i = n + 1
    BY <1>2, <2>1
  <2> QED
    BY <1>1, <1>7, <2>2
<1>10. HeadersOf(t) = HeadersOf(s) \cup {a}
  <2>1. HeadersOf(t) \subseteq HeadersOf(s) \cup {a}
    BY <1>9 DEF HeadersOf, n
  <2>2. \A i \in 1..Len(s) : i \in 1..Len(t) /\ t[i] = s[i]
    BY <1>2, <1>7 DEF n
  <2>3. n + 1 \in 1..Len(t) /\ t[n + 1].kind = "header" /\ t[n + 1].answer = a
    BY SMTT(30), <1>1, <1>2, <1>7
  <2> QED
    BY <2>1, <2>2, <2>3 DEF HeadersOf
<1>11. Once(t)
  <2> SUFFICES ASSUME NEW i \in 1..Len(t), NEW j \in 1..Len(t),
                      t[i].kind = "header", t[j].kind = "header",
                      t[i].answer.num = t[j].answer.num
               PROVE  i = j
    BY DEF Once
  <2>1. \A k \in 1..n : t[k].kind = "header" => t[k].answer.num # a.num
    BY <1>7 DEF Apart, HeadersOf, n
  <2>2. i \in 1..n /\ j \in 1..n => i = j
    BY <1>9, <1>7 DEF Once, n
  <2> QED
    BY <1>9, <2>1, <2>2
<1>12. Whole(t)
  <2> SUFFICES ASSUME NEW i \in 1..Len(t), t[i].kind = "header"
               PROVE  /\ t[i].answer.data + t[i].answer.descs > 0 =>
                           i < Len(t) /\ t[i + 1].kind = "data"
                      /\ t[i].answer.packets = 0 => Follow(t, i + 1, t[i].answer)
    BY Zenon DEF Whole
  <2>1. CASE i \in 1..n
    <3>1. t[i] = s[i] /\ i \in 1..Len(s)
      BY <1>7, <2>1 DEF n
    <3> DEFINE b == s[i].answer
    <3>2. /\ b.data + b.descs > 0 => i < Len(s) /\ s[i + 1].kind = "data"
          /\ b.packets = 0 => Follow(s, i + 1, b)
      BY <3>1 DEF Whole
    <3> HIDE DEF b
    <3>3. i < Len(s) => i < Len(t) /\ t[i + 1] = s[i + 1]
      BY <1>2, <1>7, <2>1 DEF n
    <3>4. i + 1 \in 1..(n + 1)
      BY <1>2, <2>1
    <3> QED
      BY <1>8, <3>1, <3>2, <3>3, <3>4 DEF b
  <2>2. CASE i = n + 1 /\ t[i].answer = a
    <3>1. a.data + a.descs > 0 => i < Len(t) /\ t[i + 1].kind = "data"
      BY <1>2, <1>7, <2>2
    <3>2. a.packets = 0 => Follow(t, i + 1, a)
      <4>1. a.packets = 0 /\ a.data = 0 => GoesOn(t, i + 1)
        BY <1>2, <1>7, <2>2 DEF GoesOn
      <4>2. a.packets = 0 /\ a.data # 0 =>
              i + 1 <= Len(t) /\ t[i + 1] = d /\ GoesOn(t, (i + 1) + 1)
        BY <1>2, <1>7, <2>2 DEF GoesOn
      <4> QED
        BY <4>1, <4>2 DEF Follow, d
    <3> QED
      BY <2>2, <3>1, <3>2
  <2> QED
    BY <1>9, <2>1, <2>2
<1> QED
  <2>1. Len(t) > Len(s)
    BY <1>2, <1>7 DEF n
  <2> QED
    BY <2>1, <1>6, <1>7, <1>8, <1>10, <1>11, <1>12 DEF n, DataAfter, AnswerAfter

(***************************************************************************)
(* Requests on their way, and the table.                                   *)
(***************************************************************************)

\* No two requests of s have the same number.
Numbered(s) == \A i, j \in 1..Len(s) : s[i].num = s[j].num => i = j

\* The first of numbered requests is taken.
LEMMA TailOfRequests ==
  ASSUME NEW s \in Seq(Request), s # <<>>, Numbered(s)
  PROVE  /\ Tail(s) \in Seq(Request) /\ Numbered(Tail(s)) /\ Head(s) \in Request
         /\ ToSet(s) = ToSet(Tail(s)) \cup {Head(s)}
         /\ Apart({Head(s)}, ToSet(Tail(s)))
<1> DEFINE t == Tail(s)
<1>1. /\ t \in Seq(Request) /\ Len(s) \in Nat \ {0} /\ Len(t) = Len(s) - 1
      /\ \A i \in 1..Len(t) : t[i] = s[i + 1]
      /\ Head(s) = s[1] /\ Head(s) \in Request
  BY HeadTailProperties, EmptySeq
<1> HIDE DEF t
<1>2. \A i \in 1..Len(t) : i + 1 \in 1..Len(s) /\ t[i] = s[i + 1] /\ i + 1 # 1
  BY <1>1
<1>3. 1 \in 1..Len(s)
  BY <1>1
<1>4. Numbered(t)
  <2> SUFFICES ASSUME NEW i \in 1..Len(t), NEW j \in 1..Len(t), t[i].num = t[j].num
               PROVE  i = j
    BY DEF Numbered
  <2>1. i + 1 = j + 1
    BY <1>2 DEF Numbered
  <2> QED
    BY <2>1
<1>5. ToSet(s) = ToSet(t) \cup {s[1]}
  <2>1. ASSUME NEW i \in 1..Len(s), i # 1 PROVE s[i] \in ToSet(t)
    <3>1. i - 1 \in 1..Len(t) /\ t[i - 1] = s[i]
      BY <1>1, <2>1
    <3> QED
      BY <3>1 DEF ToSet
  <2> QED
    BY SMTT(30), <1>2, <1>3, <2>1 DEF ToSet
<1>6. Apart({s[1]}, ToSet(t))
  BY <1>2, <1>3 DEF Apart, ToSet, Numbered
<1> QED
  BY <1>1, <1>4, <1>5, <1>6 DEF t

\* A request with a number of its own joins numbered requests.
LEMMA AppendRequest ==
  ASSUME NEW s \in Seq(Request), Numbered(s), NEW q \in Request, Apart({q}, ToSet(s))
  PROVE  /\ Append(s, q) \in Seq(Request) /\ Numbered(Append(s, q))
         /\ ToSet(Append(s, q)) = ToSet(s) \cup {q}
<1> DEFINE t == Append(s, q)
<1>1. /\ t \in Seq(Request) /\ Len(t) = Len(s) + 1 /\ t[Len(s) + 1] = q
      /\ \A i \in 1..Len(s) : t[i] = s[i]
      /\ Len(s) \in Nat
  OBVIOUS
<1> HIDE DEF t
<1>2. \A i \in 1..Len(t) : i \in 1..Len(s) \/ i = Len(s) + 1
  BY <1>1
<1>3. \A i \in 1..Len(s) : s[i].num # q.num
  BY DEF Apart, ToSet
<1>4. Numbered(t)
  BY <1>1, <1>2, <1>3 DEF Numbered
<1>5. ToSet(t) = ToSet(s) \cup {q}
  <2>1. ToSet(t) \subseteq ToSet(s) \cup {q}
    BY <1>1, <1>2 DEF ToSet
  <2>2. \A i \in 1..Len(s) : i \in 1..Len(t)
    BY <1>1
  <2>3. Len(s) + 1 \in 1..Len(t)
    BY <1>1
  <2> QED
    BY <1>1, <2>1, <2>2, <2>3 DEF ToSet
<1> QED
  BY <1>1, <1>4, <1>5 DEF t

\* The first of a set of positions is one of them.
LEMMA FirstIsOne ==
  ASSUME NEW S \in SUBSET Nat, S # {}
  PROVE  FirstOf(S) \in S
BY Smallest DEF FirstOf

(***************************************************************************)
(* The invariants.                                                         *)
(***************************************************************************)

ToolState ==
  [at : {"idle", "dev_read", "to_sock", "sock_read", "to_dev", "data", "wait", "over"},
   stage : {"first_dev", "first_sock", "loop"},
   dev_read : {"none", "pending", "done", "failed"},
   sock_read : {"none", "pending"},
   request : Request \cup {NULL}, answer : Replied \cup {NULL}, need : Nat, left : Nat]

\* The thread holds a request that it has not sent, or an answer that the driver has not.
HasRequest == At("to_sock") \/ tool.dev_read = "done"
HasAnswer == At("to_dev") \/ At("data")

ThreadShape ==
  /\ tool \in ToolState
  /\ HasRequest => tool.request \in Request
  /\ tool.at \in {"dev_read", "to_sock"} => tool.dev_read = "none"

DriverShape ==
  /\ Present \in BOOLEAN
  /\ ioctl_q \in Seq([urb : Urbs, num : Nat])
  /\ seq_num \in Nat

ConnShape ==
  /\ out_q_seqnum_array \in [Slots -> Nat]
  /\ to_server \in Seq(Request)
  /\ server \in [open : BOOLEAN, taken : SUBSET Request, seqnum : Nat]
  /\ ~server.open => server.taken = {}

\* Between sessions there is neither a device nor a connection.
IdleShape ==
  At("idle") => /\ tool = IdleTool
                /\ ~Present /\ ioctl_q = <<>> /\ ~server.open
                /\ to_server = <<>> /\ to_client = <<>>

\* What the server sends, whatever the application does.
AnyItem == [kind : {"header"}, answer : Replied] \cup [kind : {"data"}, bytes : Nat]

\* What holds then.
Base ==
  /\ ThreadShape /\ DriverShape /\ ConnShape /\ IdleShape
  /\ HasAnswer => tool.answer \in Replied
  /\ to_client \in Seq(AnyItem)

\* No answer was astray, and none swallowed with its header: what is on its way belongs to
\* the session's requests.
Trusting == Undisturbed({"astray", "swallowed"})

ToolShape ==
  /\ ThreadShape
  /\ HasRequest => tool.request.num <= seq_num
  /\ HasAnswer => tool.answer \in Answers /\ tool.answer.num <= seq_num

StreamShape == ConnShape /\ to_client \in Seq(Item)

Shapes == ToolShape /\ DriverShape /\ StreamShape /\ IdleShape

\* Where the session's requests are, and then their answers: with the tool, on their way
\* to the server, there, on their way back, and with the tool again.
Waiting == IF HasRequest THEN {tool.request} ELSE {}
Sent == ToSet(to_server)
Returned == HeadersOf(to_client)
AtDevice == IF At("to_dev") THEN {tool.answer} ELSE {}

Flow == Sent \cup server.taken \cup Returned \cup AtDevice

\* Each number is in one place, once.
NumbersApart ==
  /\ \A q \in Flow : q.num <= seq_num
  /\ Numbered(to_server)
  /\ \A q, r \in server.taken : q.num = r.num => q = r
  /\ Once(to_client)
  /\ Apart(Waiting, Flow)
  /\ Apart(Sent, server.taken) /\ Apart(Sent, Returned) /\ Apart(Sent, AtDevice)
  /\ Apart(server.taken, Returned) /\ Apart(server.taken, AtDevice)
  /\ Apart(Returned, AtDevice)

\* The table has the numbers of the OUT requests that were sent, and none of another
\* request of this session, but for what an earlier session has left; and as long as the
\* server is there, none twice and none whose answer was looked at.
TableTells ==
  InSession =>
    /\ \A q \in Flow : ~q.in => q.num \in InTable
    /\ \A q \in Flow : q.in /\ q.num \in InTable => q.num \in leftover
    /\ \A q \in Waiting : q.num \in InTable => q.num \in leftover
    /\ \A n \in InTable : n <= seq_num \/ n \in leftover
    /\ server.open =>
         /\ \A n \in InTable : n \in leftover \/ \E q \in Flow : ~q.in /\ q.num = n
         /\ \A i, j \in Slots :
              /\ out_q_seqnum_array[i] = out_q_seqnum_array[j]
              /\ out_q_seqnum_array[i] \notin leftover \cup {0}
              => i = j

\* Whatever is misread: a header's data come after it, and reading them takes no header.
InOrder ==
  /\ Whole(to_client)
  /\ At("to_dev") =>
       /\ server.open /\ tool.answer.data + tool.answer.descs > 0 =>
            to_client # <<>> /\ to_client[1].kind = "data"
       /\ tool.answer.packets = 0 /\ to_client # <<>> => Follow(to_client, 1, tool.answer)
  /\ At("data") =>
       /\ tool.need > 0 /\ tool.left = tool.need
       /\ server.open => to_client # <<>> /\ to_client[1].kind = "data"

(***************************************************************************)
(* The thread.                                                             *)
(***************************************************************************)

\* Where a call returns to, told by stages.
LEMMA AfterFacts ==
  ASSUME NEW t \in ToolState, NEW ok \in BOOLEAN, NEW r, r = After(t, ok)
  PROVE  /\ r \in ToolState
         /\ r.dev_read = t.dev_read /\ r.sock_read = t.sock_read
         /\ r.request = t.request /\ r.answer = t.answer /\ r.need = t.need /\ r.left = t.left
         /\ r.at \in {"sock_read", "wait", "over"}
         /\ t.stage = "first_dev" => r.at = "sock_read" /\ r.stage = "first_sock"
         /\ t.stage = "first_sock" => r.at = "wait" /\ r.stage = "loop"
         /\ t.stage = "loop" =>
              /\ r.stage = "loop" /\ r.at \in {"wait", "over"}
              /\ ok /\ ~signalflag => r.at = "wait"
<1>1. CASE t.stage = "first_dev"
  <2>1. r = [t EXCEPT !.at = "sock_read", !.stage = "first_sock"]
    BY <1>1 DEF After
  <2> QED
    BY <1>1, <2>1 DEF ToolState
<1>2. CASE t.stage = "first_sock"
  <2>1. r = [t EXCEPT !.at = "wait", !.stage = "loop"]
    BY <1>2 DEF After
  <2> QED
    BY <1>2, <2>1 DEF ToolState
<1>3. CASE t.stage = "loop"
  <2>1. r = [t EXCEPT !.at = IF ok /\ ~signalflag THEN "wait" ELSE "over"]
    BY <1>3 DEF After
  <2>2. CASE ok /\ ~signalflag
    <3>1. r = [t EXCEPT !.at = "wait"]
      BY <2>1, <2>2
    <3> QED
      BY <1>3, <3>1 DEF ToolState
  <2>3. CASE ~(ok /\ ~signalflag)
    <3>1. r = [t EXCEPT !.at = "over"]
      BY <2>1, <2>3
    <3> QED
      BY <1>3, <2>3, <3>1 DEF ToolState
  <2> QED
    BY <2>2, <2>3
<1>4. t.stage \in {"first_dev", "first_sock", "loop"}
  BY DEF ToolState
<1> QED
  BY <1>1, <1>2, <1>3, <1>4

\* The thread has come back from a call, and has neither changed what it had read from the
\* driver nor kept an answer.
Returns ==
  /\ tool' \in ToolState
  /\ tool'.at \in {"sock_read", "wait", "over"}
  /\ tool'.dev_read = tool.dev_read /\ tool'.request = tool.request

\* A step that leaves the connection and the table alone: the device and its URBs change,
\* and the thread may get the next request.
Quiet ==
  /\ UNCHANGED <<out_q_seqnum_array, streamVars, leftover, refused>>
  /\ tool' \in ToolState
  /\ InSession /\ InSession'
  /\ tool'.at = tool.at \/ (~HasAnswer /\ ~HasAnswer')
  /\ tool'.answer = tool.answer /\ tool'.need = tool.need /\ tool'.left = tool.left
  /\ tool'.at \in {"dev_read", "to_sock"} => tool'.dev_read = "none"
  /\ blame \subseteq blame'
  /\ \/ /\ seq_num' = seq_num
        /\ HasRequest' => HasRequest /\ tool'.request = tool.request
     \/ /\ seq_num' = seq_num + 1
        /\ HasRequest' => tool'.request \in Request /\ tool'.request.num = seq_num + 1

\* The request that is encoded next carries the next number.
LEMMA NewRequest ==
  ASSUME DriverShape, NEW u \in Urbs, Encodable(u, BIG_SIZE)
  PROVE  /\ Encode(u, seq_num + 1) \in Request
         /\ Encode(u, seq_num + 1).num = seq_num + 1
<1>1. u \in Encodables /\ seq_num + 1 \in Nat \ {0}
  BY DEF Encodables, DriverShape
<1> QED
  BY <1>1, RequestFacts DEF Request

\* Submitting an URB gives the thread a request at most.
LEMMA SubmitUrbIsQuiet ==
  ASSUME Base, SubmitUrb
  PROVE  Quiet
<1> USE DEF Base
<1>1. /\ UNCHANGED <<out_q_seqnum_array, streamVars, leftover, refused>>
      /\ InSession
  BY DEF SubmitUrb, IdleShape, InSession, At
<1>2. PICK u \in Urbs :
        \/ tool' = tool /\ seq_num' = seq_num /\ blame' = blame
        \/ /\ tool.dev_read = "pending" /\ seq_num' = seq_num + 1
           /\ Encodable(u, BIG_SIZE) /\ blame' = blame
           /\ tool' = [tool EXCEPT !.dev_read = "done", !.request = Encode(u, seq_num + 1)]
        \/ /\ tool.dev_read = "pending" /\ seq_num' = seq_num + 1
           /\ blame' = blame \cup {"disturbed"}
           /\ tool' = [tool EXCEPT !.dev_read = "failed"]
  BY DEF SubmitUrb, Blame
<1>3. CASE tool' = tool /\ seq_num' = seq_num /\ blame' = blame
  BY <1>1, <1>3 DEF Quiet, ThreadShape, HasRequest, HasAnswer, InSession, At
<1>4. CASE /\ tool.dev_read = "pending" /\ seq_num' = seq_num + 1
           /\ Encodable(u, BIG_SIZE) /\ blame' = blame
           /\ tool' = [tool EXCEPT !.dev_read = "done", !.request = Encode(u, seq_num + 1)]
  <2> DEFINE q == Encode(u, seq_num + 1)
  <2>1. q \in Request /\ q.num = seq_num + 1
    BY <1>4, NewRequest
  <2> HIDE DEF q
  <2>2. tool' = [tool EXCEPT !.dev_read = "done", !.request = q]
    BY <1>4 DEF q
  <2>3. /\ tool' \in ToolState /\ tool'.at = tool.at /\ tool'.answer = tool.answer
        /\ tool'.need = tool.need /\ tool'.left = tool.left /\ tool'.request = q
        /\ tool.at \notin {"dev_read", "to_sock"}
    BY <1>4, <2>1, <2>2 DEF ToolState, ThreadShape
  <2> QED
    BY <1>1, <1>4, <2>1, <2>3 DEF Quiet, InSession, At
<1>5. CASE /\ tool.dev_read = "pending" /\ seq_num' = seq_num + 1
           /\ blame' = blame \cup {"disturbed"}
           /\ tool' = [tool EXCEPT !.dev_read = "failed"]
  <2>1. /\ tool' \in ToolState /\ tool'.at = tool.at /\ tool'.answer = tool.answer
        /\ tool'.need = tool.need /\ tool'.left = tool.left /\ tool'.dev_read = "failed"
        /\ tool.at \notin {"dev_read", "to_sock"}
    BY <1>5 DEF ToolState, ThreadShape
  <2> QED
    BY <1>1, <1>5, <2>1 DEF Quiet, InSession, At, HasRequest
<1> QED
  BY <1>2, <1>3, <1>4, <1>5

\* A cancel, an unplug, an interrupt, a timeout or the end of a read gives it none.
LEMMA OthersAreQuiet ==
  ASSUME Base, CancelUrb \/ Unplug \/ CtrlC \/ Timeout \/ DevEvent
  PROVE  Quiet
<1> USE DEF Base
<1>1. /\ UNCHANGED <<out_q_seqnum_array, streamVars, leftover, refused, seq_num>>
      /\ blame \subseteq blame'
  BY DEF CancelUrb, Unplug, CtrlC, Timeout, DevEvent, Blame, driverVars, envVars
<1>2. InSession
  <2>1. CASE CancelUrb
    <3>1. ioctl_q # <<>>
      BY <2>1 DEF CancelUrb
    <3> QED
      BY <3>1 DEF IdleShape, InSession, At
  <2> QED
    BY <2>1 DEF Unplug, CtrlC, Timeout, DevEvent, IdleShape, InSession, At
<1>3. CASE tool' = tool
  BY <1>1, <1>2, <1>3 DEF Quiet, ThreadShape, HasRequest, HasAnswer, InSession, At
<1>4. CASE Unplug
  <2>1. tool' = tool \/ (tool.dev_read = "pending" /\ tool' = [tool EXCEPT !.dev_read = "failed"])
    BY <1>4 DEF Unplug, ThreadShape, ToolState
  <2>2. CASE tool.dev_read = "pending" /\ tool' = [tool EXCEPT !.dev_read = "failed"]
    <3>1. /\ tool' \in ToolState /\ tool'.at = tool.at /\ tool'.answer = tool.answer
          /\ tool'.need = tool.need /\ tool'.left = tool.left /\ tool'.dev_read = "failed"
          /\ tool.at \notin {"dev_read", "to_sock"}
      BY <2>2 DEF ToolState, ThreadShape
    <3> QED
      BY <1>1, <1>2, <3>1 DEF Quiet, InSession, At, HasRequest
  <2> QED
    BY <1>3, <2>1, <2>2
<1>5. CASE Timeout
  <2>1. tool.at = "wait" /\ tool' = [tool EXCEPT !.at = "over"]
    BY <1>5 DEF Timeout, At
  <2>2. /\ tool' \in ToolState /\ tool'.at = "over" /\ tool'.answer = tool.answer
        /\ tool'.need = tool.need /\ tool'.left = tool.left /\ tool'.dev_read = tool.dev_read
        /\ tool'.request = tool.request
    BY <2>1 DEF ToolState, ThreadShape
  <2> QED
    BY <1>1, <1>2, <2>1, <2>2 DEF Quiet, InSession, At, HasRequest, HasAnswer
<1>6. CASE DevEvent
  <2>1. tool.at = "wait"
    BY <1>6 DEF DevEvent, At
  <2>2. CASE tool.dev_read = "done"
    <3>1. tool' = [tool EXCEPT !.at = "to_sock", !.dev_read = "none"]
      BY <1>6, <2>2 DEF DevEvent
    <3>2. /\ tool' \in ToolState /\ tool'.at = "to_sock" /\ tool'.answer = tool.answer
          /\ tool'.need = tool.need /\ tool'.left = tool.left /\ tool'.dev_read = "none"
          /\ tool'.request = tool.request
      BY <3>1 DEF ToolState, ThreadShape
    <3> QED
      BY <1>1, <1>2, <2>1, <2>2, <3>2 DEF Quiet, InSession, At, HasRequest, HasAnswer
  <2>3. CASE tool.dev_read # "done"
    <3> DEFINE t == [tool EXCEPT !.dev_read = "none"]
    <3>1. /\ t \in ToolState /\ t.dev_read = "none" /\ t.answer = tool.answer
          /\ t.need = tool.need /\ t.left = tool.left
      BY DEF ToolState, ThreadShape
    <3>2. tool' = After(t, FALSE)
      BY <1>6, <2>3 DEF DevEvent
    <3> HIDE DEF t
    <3>3. /\ tool' \in ToolState /\ tool'.at \in {"sock_read", "wait", "over"}
          /\ tool'.answer = tool.answer
          /\ tool'.need = tool.need /\ tool'.left = tool.left /\ tool'.dev_read = "none"
      BY <3>1, <3>2, AfterFacts
    <3> QED
      BY <1>1, <1>2, <2>1, <3>3 DEF Quiet, InSession, At, HasRequest, HasAnswer
  <2> QED
    BY <2>2, <2>3
<1> QED
  BY <1>3, <1>4, <1>5, <1>6 DEF CancelUrb, CtrlC

\* Nor does reading the device: it gives the thread a request, or waits for one.
LEMMA DevReadIsQuiet ==
  ASSUME Base, DevRead
  PROVE  Quiet
<1> USE DEF Base
<1>1. /\ UNCHANGED <<out_q_seqnum_array, streamVars, leftover, refused>>
      /\ tool.at = "dev_read"
  BY DEF DevRead, At, envVars
<1> DEFINE none == [tool EXCEPT !.dev_read = "none"]
           pending == [tool EXCEPT !.dev_read = "pending"]
<1>2. \/ tool' = After(none, FALSE) /\ seq_num' \in {seq_num, seq_num + 1}
         /\ blame \subseteq blame'
      \/ tool' = After(pending, TRUE) /\ seq_num' = seq_num /\ blame' = blame
      \/ \E u \in Urbs :
           /\ Encodable(u, BIG_SIZE) /\ seq_num' = seq_num + 1 /\ blame' = blame
           /\ tool' = [tool EXCEPT !.at = "to_sock", !.dev_read = "none",
                                   !.request = Encode(u, seq_num + 1)]
  <2>1. CASE ~Present
    BY <2>1 DEF DevRead
  <2>2. CASE Present /\ Unsent = {}
    BY <2>2 DEF DevRead
  <2>3. CASE Present /\ Unsent # {}
    <3> DEFINE i == FirstOf(Unsent)
               u == ioctl_q[i].urb
    <3>1. i \in 1..Len(ioctl_q)
      <4>1. Unsent \in SUBSET Nat
        BY DEF Unsent
      <4> QED
        BY <2>3, <4>1, FirstIsOne DEF Unsent
    <3>3. /\ seq_num' = seq_num + 1
          /\ IF Encodable(u, BIG_SIZE)
             THEN /\ tool' = [tool EXCEPT !.at = "to_sock", !.dev_read = "none",
                                          !.request = Encode(u, seq_num')]
                  /\ blame' = blame
             ELSE /\ tool' = After(none, FALSE)
                  /\ Blame("disturbed")
      BY <2>3 DEF DevRead
    <3> HIDE DEF i
    <3>2. u \in Urbs
      <4>1. ioctl_q[i] \in [urb : Urbs, num : Nat]
        BY <3>1, ElementOfSeq DEF DriverShape
      <4> QED
        BY <4>1
    <3> HIDE DEF u, none, pending
    <3> QED
      BY <3>2, <3>3 DEF Blame
  <2> QED
    BY <2>1, <2>2, <2>3
<1>3. /\ none \in ToolState /\ none.dev_read = "none" /\ none.answer = tool.answer
      /\ none.need = tool.need /\ none.left = tool.left
      /\ pending \in ToolState /\ pending.dev_read = "pending" /\ pending.answer = tool.answer
      /\ pending.need = tool.need /\ pending.left = tool.left
  BY DEF ToolState, ThreadShape
<1> HIDE DEF none, pending
<1>4. CASE tool' = After(none, FALSE) /\ seq_num' \in {seq_num, seq_num + 1} /\ blame \subseteq blame'
  <2>1. /\ tool' \in ToolState /\ tool'.at \in {"sock_read", "wait", "over"}
        /\ tool'.answer = tool.answer
        /\ tool'.need = tool.need /\ tool'.left = tool.left /\ tool'.dev_read = "none"
    BY ZenonT(30), <1>3, <1>4, AfterFacts
  <2> QED
    BY <1>1, <1>4, <2>1 DEF Quiet, InSession, At, HasRequest, HasAnswer
<1>5. CASE tool' = After(pending, TRUE) /\ seq_num' = seq_num /\ blame' = blame
  <2>1. /\ tool' \in ToolState /\ tool'.at \in {"sock_read", "wait", "over"}
        /\ tool'.answer = tool.answer
        /\ tool'.need = tool.need /\ tool'.left = tool.left /\ tool'.dev_read = "pending"
    BY <1>3, <1>5, AfterFacts
  <2> QED
    BY <1>1, <1>5, <2>1 DEF Quiet, InSession, At, HasRequest, HasAnswer
<1>6. ASSUME NEW u \in Urbs,
             Encodable(u, BIG_SIZE), seq_num' = seq_num + 1, blame' = blame,
             tool' = [tool EXCEPT !.at = "to_sock", !.dev_read = "none",
                                  !.request = Encode(u, seq_num + 1)]
      PROVE  Quiet
  <2> DEFINE q == Encode(u, seq_num + 1)
  <2>1. q \in Request /\ q.num = seq_num + 1
    BY <1>6, NewRequest
  <2> HIDE DEF q
  <2>2. tool' = [tool EXCEPT !.at = "to_sock", !.dev_read = "none", !.request = q]
    BY <1>6 DEF q
  <2>3. /\ tool' \in ToolState /\ tool'.at = "to_sock" /\ tool'.answer = tool.answer
        /\ tool'.need = tool.need /\ tool'.left = tool.left /\ tool'.request = q /\ tool'.dev_read = "none"
    BY <2>1, <2>2 DEF ToolState, ThreadShape
  <2> QED
    BY <1>1, <1>6, <2>1, <2>3 DEF Quiet, InSession, At, HasRequest, HasAnswer
<1> QED
  BY <1>2, <1>4, <1>5, <1>6

(***************************************************************************)
(* What steps have in common.                                              *)
(***************************************************************************)

\* Every step keeps the driver's types.
LEMMA DriverKept ==
  ASSUME DriverShape, ForwardNext
  PROVE  DriverShape'
<1> DEFINE E == [urb : Urbs, num : Nat]
<1>1. ioctl_q \in Seq(E) /\ seq_num \in Nat /\ Present \in BOOLEAN
  BY DEF DriverShape
<1>2. \A i \in 1..Len(ioctl_q) : RemoveAt(ioctl_q, i) \in Seq(E)
  BY <1>1, RemoveAtElements
<1>3. ASSUME NEW S \in SUBSET Nat, S # {} PROVE FirstOf(S) \in S
  BY <1>3, FirstIsOne
<1>4. CASE SubmitUrb
  <2>1. PICK u \in Urbs :
          \/ ioctl_q' = Append(ioctl_q, [urb |-> u, num |-> 0]) /\ seq_num' = seq_num
          \/ /\ seq_num' = seq_num + 1
             /\ \/ ioctl_q' = Append(ioctl_q, [urb |-> u, num |-> seq_num'])
                \/ ioctl_q' = ioctl_q
    BY <1>4 DEF SubmitUrb
  <2>2. seq_num' \in Nat /\ Present' = Present
    BY <1>1, <1>4, <2>1 DEF SubmitUrb
  <2>3. [urb |-> u, num |-> 0] \in E /\ [urb |-> u, num |-> seq_num'] \in E
    BY <2>2
  <2>4. ioctl_q' \in Seq(E)
    <3> DEFINE e == [urb |-> u, num |-> 0]
               f == [urb |-> u, num |-> seq_num']
    <3>1. e \in E /\ f \in E /\ (ioctl_q' \in {Append(ioctl_q, e), Append(ioctl_q, f), ioctl_q})
      BY <2>1, <2>3
    <3> HIDE DEF e, f, E
    <3> QED
      BY SMTT(30), <1>1, <3>1, AppendProperties
  <2> QED
    BY <1>1, <2>2, <2>4 DEF DriverShape
<1>5. CASE DevRead
  <2> DEFINE i == FirstOf(Unsent)
  <2>1. /\ Present' = Present /\ seq_num' \in {seq_num, seq_num + 1}
        /\ \/ ioctl_q' = ioctl_q
           \/ Unsent # {} /\ ioctl_q' = [ioctl_q EXCEPT ![i].num = seq_num + 1]
           \/ Unsent # {} /\ ioctl_q' = RemoveAt(ioctl_q, i)
    BY <1>5 DEF DevRead
  <2>2. Unsent # {} => i \in 1..Len(ioctl_q)
    <3>1. Unsent \in SUBSET Nat
      BY DEF Unsent
    <3> QED
      BY <1>3, <3>1 DEF Unsent
  <2> HIDE DEF i
  <2>3. ASSUME Unsent # {}, ioctl_q' = [ioctl_q EXCEPT ![i].num = seq_num + 1]
        PROVE  ioctl_q' \in Seq(E)
    <3> DEFINE e == [ioctl_q[i] EXCEPT !.num = seq_num + 1]
    <3>1. ioctl_q[i] \in E
      BY <1>1, <2>2, <2>3, ElementOfSeq
    <3>2. e \in E
      BY SMTT(30), <1>1, <3>1
    <3>3. ioctl_q' = [ioctl_q EXCEPT ![i] = e]
      BY <2>3
    <3> HIDE DEF e, E
    <3> QED
      BY <1>1, <2>2, <2>3, <3>2, <3>3, ExceptSeq
  <2>4. ioctl_q' \in Seq(E)
    BY <1>1, <1>2, <2>1, <2>2, <2>3
  <2> QED
    BY <1>1, <2>1, <2>4 DEF DriverShape
<1>6. ASSUME NEW a, NEW n, GivesDevice(a, n)
      PROVE  ioctl_q' \in Seq(E)
  <2> DEFINE found == {i \in 1..Len(ioctl_q) : ioctl_q[i].num = a.num}
             i == FirstOf(found)
  <2>1. ioctl_q' = ioctl_q \/ (found # {} /\ ioctl_q' = RemoveAt(ioctl_q, i))
    BY <1>6 DEF GivesDevice
  <2>2. found # {} => i \in 1..Len(ioctl_q)
    BY <1>3
  <2> HIDE DEF i, found
  <2> QED
    BY <1>1, <1>2, <2>1, <2>2
<1>7. CASE WriteToDev
  <2>1. Present' = Present /\ seq_num' = seq_num
    BY <1>7 DEF WriteToDev
  <2>2. ioctl_q' = ioctl_q \/ GivesDevice(tool.answer, HEADER)
    BY <1>7 DEF WriteToDev
  <2>3. ioctl_q' \in Seq(E)
    BY <1>1, <1>6, <2>2
  <2> QED
    BY <1>1, <2>1, <2>3 DEF DriverShape
<1>8. CASE WriteToDevData
  <2>1. Present' = Present /\ seq_num' = seq_num
    BY <1>8 DEF WriteToDevData
  <2>2. ioctl_q' = ioctl_q \/ GivesDevice(tool.answer, HEADER + tool.need)
    BY <1>8 DEF WriteToDevData
  <2>3. ioctl_q' \in Seq(E)
    BY <1>1, <1>6, <2>2
  <2> QED
    BY <1>1, <2>1, <2>3 DEF DriverShape
<1>9. CASE CancelUrb
  BY <1>1, <1>2, <1>9 DEF CancelUrb, DriverShape
<1>10. CASE Unplug \/ EndSession
  <2>1. ioctl_q' = <<>> /\ Present' = FALSE /\ seq_num' = seq_num
    BY <1>10 DEF Unplug, EndSession
  <2>2. <<>> \in Seq(E)
    BY EmptySeq
  <2> QED
    BY <1>1, <2>1, <2>2 DEF DriverShape
<1>11. CASE BeginSession
  BY <1>1, <1>11 DEF BeginSession, DriverShape
<1>12. CASE WriteToSock \/ SockRead \/ SockEvent \/ DevEvent \/ Timeout \/ CtrlC
            \/ ServerReceives \/ ServerAnswers \/ ServerLeaves
  <2>1. UNCHANGED driverVars
    BY <1>12 DEF WriteToSock, SockRead, SockEvent, DevEvent, Timeout, CtrlC,
                 ServerReceives, ServerAnswers, ServerLeaves
  <2> QED
    BY <2>1 DEF driverVars, DriverShape
<1> QED
  BY <1>4, <1>5, <1>7, <1>8, <1>9, <1>10, <1>11, <1>12
     DEF ForwardNext, usbip_vbus_forward, Surroundings

\* Whatever leaves the table alone, loses answers only when the server has left, and
\* brings at most a new request.
LEMMA TableKept ==
  ASSUME TableTells, InSession, DriverShape, StreamShape,
         UNCHANGED <<out_q_seqnum_array, leftover>>,
         seq_num' \in {seq_num, seq_num + 1},
         Flow' \subseteq Flow, server'.open => server.open /\ Flow' = Flow,
         \A q \in Waiting' : q \in Waiting \/ q.num = seq_num + 1
  PROVE  TableTells'
<1>1. InTable' = InTable
  BY DEF InTable
<1>2. \A n \in InTable : n <= seq_num \/ n \in leftover
  BY DEF TableTells
<1>4. seq_num + 1 \notin InTable \/ seq_num + 1 \in leftover
  BY <1>2 DEF DriverShape
<1>3. \A n \in InTable' : n <= seq_num' \/ n \in leftover
  <2> SUFFICES ASSUME NEW n \in InTable, n \notin leftover PROVE n <= seq_num'
    BY <1>1
  <2>1. n <= seq_num
    BY <1>2
  <2>2. n \in Nat
    BY DEF InTable, StreamShape, ConnShape
  <2> QED
    BY <2>1, <2>2 DEF DriverShape
<1>5. \A q \in Waiting' : q.num \in InTable' => q.num \in leftover
  BY <1>1, <1>4 DEF TableTells
<1>6. /\ \A q \in Flow' : ~q.in => q.num \in InTable'
      /\ \A q \in Flow' : q.in /\ q.num \in InTable' => q.num \in leftover
  BY <1>1 DEF TableTells
<1>7. ASSUME server'.open
      PROVE  /\ \A n \in InTable' : n \in leftover \/ \E q \in Flow' : ~q.in /\ q.num = n
             /\ \A i, j \in Slots :
                  /\ out_q_seqnum_array[i] = out_q_seqnum_array[j]
                  /\ out_q_seqnum_array[i] \notin leftover \cup {0}
                  => i = j
  BY <1>1, <1>7 DEF TableTells
<1> QED
  BY <1>3, <1>5, <1>6, <1>7 DEF TableTells

\* Whatever takes numbers away, and brings at most a new request.
LEMMA NumbersKept ==
  ASSUME NumbersApart, StreamShape, ToolShape, DriverShape,
         seq_num' \in {seq_num, seq_num + 1},
         Numbered(to_server'), Once(to_client'),
         Sent' \subseteq Sent, server'.taken \subseteq server.taken,
         Returned' \subseteq Returned, AtDevice' \subseteq AtDevice,
         \A q \in Waiting' : q \in Waiting \/ q.num = seq_num + 1
  PROVE  NumbersApart'
<1>1. Flow' \subseteq Flow
  BY DEF Flow
<1>2. \A q \in Flow : q.num \in Nat /\ q.num <= seq_num
  <2>1. \A q \in Request : q.num \in Nat
    BY RequestIsPassed
  <2>2. \A a \in Answers : a.num \in Nat
    BY AnswerIsTyped
  <2>3. Sent \subseteq Request
    BY DEF Sent, StreamShape, ConnShape, ToSet
  <2>4. server.taken \subseteq Request
    BY DEF StreamShape, ConnShape
  <2>5. Returned \subseteq Answers
    <3> SUFFICES ASSUME NEW i \in 1..Len(to_client), to_client[i].kind = "header"
                 PROVE  to_client[i].answer \in Answers
      BY DEF Returned, HeadersOf
    <3>1. to_client[i] \in Item
      BY DEF StreamShape, ConnShape
    <3> QED
      BY <3>1, ItemFacts
  <2>6. AtDevice \subseteq Answers
    BY DEF AtDevice, ToolShape, ThreadShape, HasAnswer
  <2>7. \A q \in Flow : q.num \in Nat
    BY <2>1, <2>2, <2>3, <2>4, <2>5, <2>6 DEF Flow
  <2> QED
    BY <2>7 DEF NumbersApart
<1>3. \A q \in Flow' : q.num <= seq_num'
  <2> SUFFICES ASSUME NEW q \in Flow' PROVE q.num <= seq_num'
    OBVIOUS
  <2>1. q.num \in Nat /\ q.num <= seq_num /\ seq_num \in Nat
    BY <1>1, <1>2 DEF DriverShape
  <2> QED
    BY <2>1
<1>4. Apart(Waiting', Flow')
  <2> SUFFICES ASSUME NEW q \in Waiting', NEW r \in Flow' PROVE q.num # r.num
    BY DEF Apart
  <2>1. r \in Flow /\ r.num \in Nat /\ r.num <= seq_num /\ seq_num \in Nat
    BY <1>1, <1>2 DEF DriverShape
  <2>2. CASE q \in Waiting
    BY <2>1, <2>2 DEF NumbersApart, Apart
  <2>3. CASE q.num = seq_num + 1
    BY <2>1, <2>3
  <2> QED
    BY <2>2, <2>3
<1>6. /\ Apart(Sent', server'.taken) /\ Apart(Sent', Returned') /\ Apart(Sent', AtDevice')
      /\ Apart(server'.taken, Returned') /\ Apart(server'.taken, AtDevice')
      /\ Apart(Returned', AtDevice')
  BY DEF NumbersApart, Apart
<1>7. \A q, r \in server'.taken : q.num = r.num => q = r
  BY DEF NumbersApart
<1>8. Apart(Waiting, Flow)' /\ Apart(Sent, server.taken)' /\ Apart(Sent, Returned)'
      /\ Apart(Sent, AtDevice)' /\ Apart(server.taken, Returned)'
      /\ Apart(server.taken, AtDevice)' /\ Apart(Returned, AtDevice)'
  BY <1>4, <1>6 DEF Apart
<1>9. Numbered(to_server)' /\ Once(to_client)'
  BY DEF Numbered, Once
<1> QED
  BY <1>3, <1>7, <1>8, <1>9 DEF NumbersApart

\* Whatever leaves the stream alone, and brings the thread no answer.
LEMMA OrderKept ==
  ASSUME InOrder, to_client' = to_client, server'.open => server.open,
         \/ tool'.at = tool.at /\ tool'.answer = tool.answer /\ tool'.need = tool.need
            /\ tool'.left = tool.left
         \/ ~HasAnswer'
  PROVE  InOrder'
<1>1. Whole(to_client)'
  BY DEF InOrder, Whole, Follow, GoesOn
<1>2. CASE tool'.at = tool.at /\ tool'.answer = tool.answer /\ tool'.need = tool.need
           /\ tool'.left = tool.left
  <2>1. At("to_dev")' => At("to_dev")
    BY <1>2 DEF At
  <2>2. At("data")' => At("data")
    BY <1>2 DEF At
  <2> QED
    BY <1>1, <1>2, <2>1, <2>2 DEF InOrder, Follow, GoesOn
<1>3. CASE ~HasAnswer'
  BY <1>1, <1>3 DEF InOrder, HasAnswer
<1> QED
  BY <1>2, <1>3

\* A quiet step keeps each part of the invariant.
LEMMA QuietKeeps ==
  ASSUME Shapes, NumbersApart, TableTells, InOrder, Quiet
  PROVE  /\ ToolShape' /\ StreamShape' /\ IdleShape'
         /\ NumbersApart' /\ TableTells' /\ InOrder'
<1> USE DEF Shapes
<1>1. /\ UNCHANGED <<out_q_seqnum_array, to_server, to_client, server, leftover>>
      /\ InSession /\ InSession' /\ seq_num' \in {seq_num, seq_num + 1}
      /\ seq_num \in Nat
  BY DEF Quiet, streamVars, DriverShape
<1>2. StreamShape'
  BY <1>1 DEF StreamShape, ConnShape
<1>3. IdleShape'
  BY <1>1 DEF IdleShape, InSession, At
<1>4. HasAnswer' => HasAnswer
  BY DEF Quiet, HasAnswer, At
<1>5. ToolShape'
  <2>1. HasRequest' => tool'.request \in Request /\ tool'.request.num <= seq_num'
    <3>1. CASE seq_num' = seq_num /\ (HasRequest' => HasRequest /\ tool'.request = tool.request)
      BY <3>1 DEF ToolShape, ThreadShape
    <3>2. CASE /\ seq_num' = seq_num + 1
               /\ HasRequest' => tool'.request \in Request /\ tool'.request.num = seq_num + 1
      BY <1>1, <3>2
    <3> QED
      BY <3>1, <3>2 DEF Quiet
  <2>2. HasAnswer' => tool'.answer \in Answers /\ tool'.answer.num <= seq_num'
    <3> SUFFICES ASSUME HasAnswer' PROVE tool'.answer \in Answers /\ tool'.answer.num <= seq_num'
      OBVIOUS
    <3>1. tool.answer \in Answers /\ tool.answer.num <= seq_num /\ tool'.answer = tool.answer
      BY <1>4 DEF ToolShape, ThreadShape, Quiet
    <3>2. tool.answer.num \in Nat
      BY <3>1, AnswerIsTyped
    <3> QED
      BY <1>1, <3>1, <3>2
  <2> QED
    BY <2>1, <2>2 DEF ToolShape, ThreadShape, Quiet
<1>6. AtDevice' = AtDevice
  BY DEF AtDevice, At, Quiet, HasAnswer
<1>7. \A q \in Waiting' : q \in Waiting \/ q.num = seq_num + 1
  BY DEF Waiting, Quiet
<1>8. Sent' = Sent /\ Returned' = Returned /\ server'.taken = server.taken
  BY <1>1 DEF Sent, Returned
<1>9. Flow' = Flow
  BY <1>6, <1>8 DEF Flow
<1>10. TableTells'
  BY <1>1, <1>7, <1>9, TableKept
<1>11. NumbersApart'
  <2>1. Numbered(to_server') /\ Once(to_client')
    BY <1>1 DEF NumbersApart
  <2> QED
    BY <1>1, <1>6, <1>7, <1>8, <2>1, NumbersKept
<1>12. InOrder'
  BY <1>1, OrderKept DEF Quiet
<1> QED
  BY <1>2, <1>3, <1>5, <1>10, <1>11, <1>12

(***************************************************************************)
(* The table, step by step.                                                *)
(***************************************************************************)

\* A free slot takes the number n.
LEMMA RecordTells ==
  ASSUME StreamShape, Recorded(0) # {}, NEW n \in Nat \ {0},
         out_q_seqnum_array' = record_out(n)
  PROVE  /\ out_q_seqnum_array' \in [Slots -> Nat]
         /\ InTable' = InTable \cup {n}
         /\ \A i, j \in Slots :
              out_q_seqnum_array'[i] = out_q_seqnum_array'[j] =>
                \/ out_q_seqnum_array'[i] = out_q_seqnum_array[i]
                   /\ out_q_seqnum_array'[j] = out_q_seqnum_array[j]
                \/ i = j
                \/ n \in InTable /\ out_q_seqnum_array'[i] = n
<1> DEFINE f == out_q_seqnum_array
           g == out_q_seqnum_array'
           k == FirstOf(Recorded(0))
<1>1. f \in [Slots -> Nat]
  BY DEF StreamShape, ConnShape
<1>2. k \in Slots /\ f[k] = 0
  <2>1. Recorded(0) \in SUBSET Nat
    BY DEF Recorded, Slots
  <2> QED
    BY <2>1, FirstIsOne DEF Recorded
<1>3. g = [f EXCEPT ![k] = n]
  BY DEF record_out
<1> HIDE DEF k
<1>4. InTable = {f[i] : i \in Slots} \ {0} /\ InTable' = {g[i] : i \in Slots} \ {0}
  BY DEF InTable
<1> HIDE DEF f, g
<1>5. g \in [Slots -> Nat] /\ g[k] = n /\ \A i \in Slots : i # k => g[i] = f[i]
  BY <1>1, <1>2, <1>3
<1>6. InTable' = InTable \cup {n}
  BY <1>2, <1>4, <1>5
<1>7. ASSUME NEW i \in Slots, NEW j \in Slots, g[i] = g[j]
      PROVE  \/ g[i] = f[i] /\ g[j] = f[j]
             \/ i = j
             \/ n \in InTable /\ g[i] = n
  <2>1. ASSUME NEW m \in Slots, m # k, g[m] = n PROVE n \in InTable
    BY <2>1, <1>4, <1>5
  <2> QED
    BY <1>5, <1>7, <2>1
<1> QED
  BY <1>5, <1>6, <1>7 DEF f, g

\* The first slot that has the number n is cleared.
LEMMA CheckOutTells ==
  ASSUME StreamShape, NEW n \in Nat \ {0}, out_q_seqnum_array' = check_out(n)
  PROVE  /\ out_q_seqnum_array' \in [Slots -> Nat]
         /\ \A i \in Slots : out_q_seqnum_array'[i] \in {0, out_q_seqnum_array[i]}
         /\ InTable' \subseteq InTable /\ InTable \ {n} \subseteq InTable'
         /\ n \in InTable' =>
              \E i, j \in Slots :
                i # j /\ out_q_seqnum_array[i] = n /\ out_q_seqnum_array[j] = n
         /\ n \in InTable <=> Recorded(n) # {}
<1> DEFINE f == out_q_seqnum_array
           g == out_q_seqnum_array'
           k == FirstOf(Recorded(n))
<1>1. f \in [Slots -> Nat]
  BY DEF StreamShape, ConnShape
<1>2. Recorded(n) # {} => k \in Slots /\ f[k] = n
  <2>1. Recorded(n) \in SUBSET Nat
    BY DEF Recorded, Slots
  <2> QED
    BY <2>1, FirstIsOne DEF Recorded
<1>3. IF Recorded(n) = {} THEN g = f ELSE g = [f EXCEPT ![k] = 0]
  BY DEF check_out
<1> HIDE DEF k
<1>4. InTable = {f[i] : i \in Slots} \ {0} /\ InTable' = {g[i] : i \in Slots} \ {0}
  BY DEF InTable
<1>5. n \in InTable <=> Recorded(n) # {}
  BY DEF InTable, Recorded
<1> HIDE DEF f, g
<1>6. CASE Recorded(n) = {}
  <2>1. g = f /\ InTable' = InTable /\ n \notin InTable
    BY <1>3, <1>4, <1>5, <1>6
  <2> QED
    BY <1>1, <1>5, <2>1 DEF f, g
<1>7. CASE Recorded(n) # {}
  <2>1. /\ g \in [Slots -> Nat] /\ g[k] = 0 /\ f[k] = n /\ k \in Slots
        /\ \A i \in Slots : i # k => g[i] = f[i]
    BY <1>1, <1>2, <1>3, <1>7
  <2>2. \A i \in Slots : g[i] \in {0, f[i]}
    BY <2>1
  <2>3. InTable' \subseteq InTable /\ InTable \ {n} \subseteq InTable'
    BY <1>4, <2>1
  <2>4. ASSUME n \in InTable' PROVE \E i, j \in Slots : i # j /\ f[i] = n /\ f[j] = n
    <3>1. PICK i \in Slots : g[i] = n
      BY <1>4, <2>4
    <3>2. i # k /\ f[i] = n
      BY <2>1, <3>1
    <3> QED
      BY <2>1, <3>2
  <2> QED
    BY <1>5, <2>1, <2>2, <2>3, <2>4 DEF f, g
<1> QED
  BY <1>6, <1>7

\* All that the steps below have to keep while nothing was astray.
SessionInv == Shapes /\ NumbersApart /\ TableTells /\ InOrder

Keeps == /\ ToolShape' /\ StreamShape' /\ IdleShape'
         /\ NumbersApart' /\ TableTells' /\ InOrder'

\* A quiet step keeps the invariant.
LEMMA QuietIsKept ==
  ASSUME SessionInv, Quiet
  PROVE  Keeps
BY QuietKeeps DEF SessionInv, Keeps

\* Each number's place, from the shapes.
LEMMA FlowIsTyped ==
  ASSUME Shapes
  PROVE  /\ Sent \subseteq Request /\ server.taken \subseteq Request
         /\ Returned \subseteq Answers /\ AtDevice \subseteq Answers
         /\ \A q \in Flow : q.num \in Nat \ {0} /\ q.in \in BOOLEAN
<1> USE DEF Shapes
<1>1. \A q \in Request : q.num \in Nat \ {0} /\ q.in \in BOOLEAN
  BY RequestIsPassed
<1>2. \A a \in Answers : a.num \in Nat \ {0} /\ a.in \in BOOLEAN
  BY AnswerIsTyped
<1>3. Sent \subseteq Request
  BY DEF Sent, StreamShape, ConnShape, ToSet
<1>4. server.taken \subseteq Request
  BY DEF StreamShape, ConnShape
<1>5. Returned \subseteq Answers
  <2> SUFFICES ASSUME NEW i \in 1..Len(to_client), to_client[i].kind = "header"
               PROVE  to_client[i].answer \in Answers
    BY DEF Returned, HeadersOf
  <2>1. to_client[i] \in Item
    BY DEF StreamShape, ConnShape
  <2> QED
    BY <2>1, ItemFacts
<1>6. AtDevice \subseteq Answers
  BY DEF AtDevice, ToolShape, ThreadShape, HasAnswer
<1>7. \A q \in Flow : q.num \in Nat \ {0} /\ q.in \in BOOLEAN
  BY <1>1, <1>2, <1>3, <1>4, <1>5, <1>6 DEF Flow
<1> QED
  BY <1>3, <1>4, <1>5, <1>6, <1>7

\* The tool passes a request on to the server.
LEMMA WriteToSockKeeps ==
  ASSUME SessionInv, WriteToSock
  PROVE  Keeps
<1> USE DEF SessionInv, Shapes
<1> DEFINE q == tool.request
           t == [tool EXCEPT !.request = NULL]
<1>1. /\ tool.at = "to_sock" /\ tool.dev_read = "none"
      /\ q \in Request /\ q.num <= seq_num
      /\ q.num \in Nat \ {0} /\ q.in \in BOOLEAN /\ ToolPasses(q)
      /\ seq_num \in Nat
  BY RequestIsPassed DEF WriteToSock, ToolShape, ThreadShape, HasRequest, At, DriverShape
<1>2. /\ seq_num' = seq_num /\ to_client' = to_client /\ server' = server
      /\ leftover' = leftover /\ UNCHANGED refused /\ blame \subseteq blame'
  BY DEF WriteToSock, driverVars, envVars
<1>3. /\ t \in ToolState /\ t.dev_read = "none" /\ t.answer = tool.answer
      /\ t.need = tool.need /\ t.left = tool.left
  BY <1>1 DEF ToolShape, ThreadShape, ToolState
<1>4. Waiting = {q} /\ ~HasAnswer /\ InSession /\ AtDevice = {}
  BY <1>1 DEF Waiting, HasRequest, HasAnswer, At, InSession, AtDevice
<1>5. ASSUME tool' = After(t, FALSE)
      PROVE  /\ tool' \in ToolState /\ tool'.at \in {"sock_read", "wait", "over"}
             /\ tool'.dev_read = "none"
             /\ tool'.answer = tool.answer /\ tool'.need = tool.need /\ tool'.left = tool.left
  <2> HIDE DEF t
  <2> QED
    BY <1>3, <1>5, AfterFacts
<1>6. CASE ~q.in /\ Recorded(0) = {}
  <2>1. /\ tool' = After(t, FALSE)
        /\ UNCHANGED <<out_q_seqnum_array, to_server>>
    BY <1>6 DEF WriteToSock
  <2>2. Quiet
    BY <1>2, <1>4, <1>5, <2>1 DEF Quiet, HasRequest, HasAnswer, InSession, At, streamVars
  <2> QED
    BY <2>2, QuietIsKept
<1>7. CASE ~(~q.in /\ Recorded(0) = {})
  <2>1. /\ out_q_seqnum_array' = (IF ~q.in THEN record_out(q.num) ELSE out_q_seqnum_array)
        /\ to_server' = (IF server.open THEN Append(to_server, q) ELSE to_server)
        /\ \/ tool' = [tool EXCEPT !.at = "dev_read", !.request = NULL]
           \/ tool' = After(t, FALSE)
    BY <1>1, <1>7 DEF WriteToSock
  <2>2. /\ tool' \in ToolState /\ tool'.at \in {"dev_read", "sock_read", "wait", "over"}
        /\ tool'.dev_read = "none"
    <3>1. CASE tool' = [tool EXCEPT !.at = "dev_read", !.request = NULL]
      BY <1>1, <3>1 DEF ToolShape, ThreadShape, ToolState
    <3> QED
      BY <1>5, <2>1, <3>1
  <2>3. ~HasRequest' /\ ~HasAnswer' /\ InSession' /\ AtDevice' = {} /\ Waiting' = {}
    BY <2>2 DEF HasRequest, HasAnswer, InSession, AtDevice, Waiting, At
  <2>4. ToolShape' /\ IdleShape'
    BY <2>2, <2>3 DEF ToolShape, ThreadShape, IdleShape, InSession, At
  <2>5. InOrder'
    BY <1>2, <2>3, OrderKept
  <2>6. ASSUME ~q.in
        PROVE  /\ out_q_seqnum_array' \in [Slots -> Nat]
               /\ InTable' = InTable \cup {q.num}
               /\ \A i, j \in Slots :
                    out_q_seqnum_array'[i] = out_q_seqnum_array'[j] =>
                      \/ out_q_seqnum_array'[i] = out_q_seqnum_array[i]
                         /\ out_q_seqnum_array'[j] = out_q_seqnum_array[j]
                      \/ i = j
                      \/ q.num \in InTable /\ out_q_seqnum_array'[i] = q.num
    <3>1. out_q_seqnum_array' = record_out(q.num) /\ Recorded(0) # {}
      BY <1>7, <2>1, <2>6
    <3> HIDE DEF q
    <3> QED
      BY <1>1, <3>1, RecordTells
  <2>7. ASSUME q.in PROVE out_q_seqnum_array' = out_q_seqnum_array /\ InTable' = InTable
    BY <2>1, <2>7 DEF InTable
  <2>8. Apart({q}, Sent) /\ Numbered(to_server) /\ to_server \in Seq(Request)
    BY <1>4 DEF NumbersApart, Apart, Flow, StreamShape, ConnShape
  <2>9. /\ to_server' \in Seq(Request) /\ Numbered(to_server')
        /\ Sent' = IF server.open THEN Sent \cup {q} ELSE Sent
    <3> HIDE DEF q
    <3>1. CASE server.open
      BY <1>1, <2>1, <2>8, <3>1, AppendRequest DEF Sent
    <3>2. CASE ~server.open
      BY <2>1, <2>8, <3>2 DEF Sent
    <3> QED
      BY <3>1, <3>2
  <2>10. StreamShape'
    BY <1>2, <2>6, <2>7, <2>9, <1>1 DEF StreamShape, ConnShape
  <2>11. Returned' = Returned /\ server'.taken = server.taken
    BY <1>2 DEF Returned
  <2>12. Flow' = IF server.open THEN Flow \cup {q} ELSE Flow
    BY <1>4, <2>3, <2>9, <2>11 DEF Flow
  <2>13. NumbersApart'
    <3>1. Once(to_client')
      BY <1>2 DEF NumbersApart
    <3>2. CASE ~server.open
      BY <1>2, <1>4, <2>3, <2>9, <2>11, <3>1, <3>2, NumbersKept
    <3>3. CASE server.open
      <4> HIDE DEF q
      <4>1. Sent' = Sent \cup {q} /\ Flow' = Flow \cup {q}
        BY <2>9, <2>12, <3>3
      <4>2. Apart({q}, Flow)
        BY <1>4 DEF NumbersApart
      <4>3. Apart({q}, Sent) /\ Apart({q}, server.taken) /\ Apart({q}, Returned)
        BY <4>2 DEF Apart, Flow
      <4>4. \A p \in Flow' : p.num <= seq_num'
        BY <1>1, <1>2, <4>1 DEF NumbersApart
      <4>5. Apart(Waiting, Flow)' /\ Apart(Sent, AtDevice)' /\ Apart(server.taken, AtDevice)'
            /\ Apart(Returned, AtDevice)'
        BY <2>3 DEF Apart
      <4>6. Apart(Sent, server.taken)' /\ Apart(Sent, Returned)'
        <5>1. Apart(Sent, server.taken) /\ Apart(Sent, Returned)
          BY DEF NumbersApart
        <5> QED
          BY <2>11, <4>1, <4>3, <5>1 DEF Apart
      <4>7. Apart(server.taken, Returned)'
        <5>1. Apart(server.taken, Returned)
          BY DEF NumbersApart
        <5> QED
          BY <2>11, <5>1 DEF Apart
      <4>8. \A p, r \in server'.taken : p.num = r.num => p = r
        BY <2>11 DEF NumbersApart
      <4>9. Numbered(to_server)' /\ Once(to_client)'
        BY <2>9, <3>1 DEF Numbered, Once
      <4> QED
        BY <4>4, <4>5, <4>6, <4>7, <4>8, <4>9 DEF NumbersApart
    <3> QED
      BY <3>2, <3>3
  <2>14. TableTells'
    <3> HIDE DEF q
    <3>1. Apart({q}, Flow) /\ (q.num \in InTable => q.num \in leftover)
      BY <1>4 DEF NumbersApart, TableTells
    <3>2. InTable \subseteq InTable' /\ InTable' \subseteq InTable \cup {q.num}
          /\ (q.in => InTable' = InTable) /\ (~q.in => q.num \in InTable')
      BY <1>1, <2>6, <2>7
    <3>3. /\ \A p \in Flow' : ~p.in => p.num \in InTable'
          /\ \A p \in Flow' : p.in /\ p.num \in InTable' => p.num \in leftover'
      BY <1>2, <1>4, <2>12, <3>1, <3>2 DEF TableTells, Apart
    <3>4. \A n \in InTable' : n <= seq_num' \/ n \in leftover'
      BY <1>1, <1>2, <1>4, <3>2 DEF TableTells
    <3>5. ASSUME server'.open
          PROVE  /\ \A n \in InTable' : n \in leftover' \/ \E p \in Flow' : ~p.in /\ p.num = n
                 /\ \A i, j \in Slots :
                      /\ out_q_seqnum_array'[i] = out_q_seqnum_array'[j]
                      /\ out_q_seqnum_array'[i] \notin leftover' \cup {0}
                      => i = j
      <4>1. server.open /\ Flow' = Flow \cup {q}
        BY <1>2, <2>12, <3>5
      <4>2. \A n \in InTable' : n \in leftover' \/ \E p \in Flow' : ~p.in /\ p.num = n
        <5>1. \A n \in InTable : n \in leftover \/ \E p \in Flow : ~p.in /\ p.num = n
          BY <1>4, <4>1 DEF TableTells
        <5> QED
          BY <1>1, <1>2, <3>2, <4>1, <5>1
      <4>3. \A i, j \in Slots :
              /\ out_q_seqnum_array[i] = out_q_seqnum_array[j]
              /\ out_q_seqnum_array[i] \notin leftover \cup {0}
              => i = j
        BY <1>4, <4>1 DEF TableTells
      <4>4. ASSUME NEW i \in Slots, NEW j \in Slots,
                   out_q_seqnum_array'[i] = out_q_seqnum_array'[j],
                   out_q_seqnum_array'[i] \notin leftover' \cup {0}
            PROVE  i = j
        <5>1. CASE q.in
          BY <1>2, <2>7, <4>3, <4>4, <5>1
        <5>2. CASE ~q.in
          BY <1>2, <2>6, <3>1, <4>3, <4>4, <5>2
        <5> QED
          BY <5>1, <5>2
      <4> QED
        BY <4>2, <4>4
    <3> QED
      BY <2>3, <3>3, <3>4, <3>5 DEF TableTells
  <2> QED
    BY <2>4, <2>5, <2>10, <2>13, <2>14 DEF Keeps
<1> QED
  BY <1>6, <1>7

\* A read of a header's length, from whichever of the two calls.
LEMMA ReadsSockKeeps ==
  ASSUME SessionInv, tool.at \in {"sock_read", "wait"},
         ReadsSock([tool EXCEPT !.sock_read = "none"]),
         UNCHANGED <<driverVars, out_q_seqnum_array, to_server, server, envVars, refused>>
  PROVE  Keeps
<1> USE DEF SessionInv, Shapes
<1> DEFINE t == [tool EXCEPT !.sock_read = "none"]
<1>1. /\ seq_num' = seq_num /\ seq_num \in Nat /\ server' = server
      /\ leftover' = leftover /\ out_q_seqnum_array' = out_q_seqnum_array
      /\ to_server' = to_server
  BY DEF driverVars, envVars, DriverShape
<1>2. /\ t \in ToolState /\ t.dev_read = tool.dev_read /\ t.answer = tool.answer
      /\ t.need = tool.need /\ t.left = tool.left /\ t.request = tool.request
  BY DEF ToolShape, ThreadShape, ToolState
<1>3. ~HasAnswer /\ InSession /\ AtDevice = {} /\ (HasRequest <=> tool.dev_read = "done")
  BY DEF HasRequest, HasAnswer, At, InSession, AtDevice
<1>4. ASSUME tool' = After(t, FALSE)
      PROVE  /\ tool' \in ToolState /\ tool'.at \in {"sock_read", "wait", "over"}
             /\ tool'.dev_read = tool.dev_read /\ tool'.request = tool.request
             /\ tool'.answer = tool.answer /\ tool'.need = tool.need /\ tool'.left = tool.left
  <2> HIDE DEF t
  <2> QED
    BY ZenonT(30), <1>2, <1>4, AfterFacts
<1>5. ASSUME tool'.at \notin {"dev_read", "to_sock", "idle"}, tool'.dev_read = tool.dev_read,
             tool'.request = tool.request
      PROVE  /\ InSession' /\ (HasRequest' <=> HasRequest) /\ Waiting' = Waiting
             /\ \A q \in Waiting' : q \in Waiting \/ q.num = seq_num + 1
  BY <1>3, <1>5 DEF HasRequest, Waiting, InSession, At
<1>6. CASE to_client' = to_client /\ tool' = After(t, FALSE)
  <2>1. blame \subseteq blame'
    BY DEF ReadsSock, Blame
  <2>2. Quiet
    BY <1>1, <1>3, <1>4, <1>5, <1>6, <2>1 DEF Quiet, HasAnswer, At, streamVars, HasRequest
  <2> QED
    BY <2>2, QuietIsKept
<1>7. CASE to_client # <<>> /\ to_client' = Tail(to_client)
  <2> DEFINE e == Head(to_client)
  <2>1. /\ to_client \in Seq(Item) /\ Once(to_client) /\ Whole(to_client)
    BY DEF StreamShape, ConnShape, NumbersApart, InOrder
  <2>2. /\ to_client' \in Seq(Item) /\ Once(to_client') /\ Whole(to_client')
        /\ e \in Item
        /\ e.kind = "header" =>
              /\ Returned = HeadersOf(to_client') \cup {e.answer}
              /\ Apart({e.answer}, HeadersOf(to_client'))
              /\ Begins(to_client', e.answer)
        /\ e.kind # "header" => Returned = HeadersOf(to_client')
    BY <1>7, <2>1, TailOfStream DEF Returned
  <2>3. HeadersOf(to_client') = Returned'
    BY DEF Returned, HeadersOf
  <2>4. StreamShape'
    BY <1>1, <2>2 DEF StreamShape, ConnShape
  <2>5. Sent' = Sent /\ server'.taken = server.taken
    BY <1>1 DEF Sent
  <2>6. Once(to_client)' /\ Whole(to_client)' /\ Numbered(to_server)'
    BY <1>1, <2>2 DEF Once, Whole, Follow, GoesOn, Numbered, NumbersApart
  <2>7. tool' = IF e.kind = "header"
                THEN [t EXCEPT !.at = "to_dev", !.answer = e.answer]
                ELSE After(t, FALSE)
    <3>1. to_client' # to_client
      <4>1. Len(to_client') # Len(to_client)
        BY <1>7, <2>1, HeadTailProperties, EmptySeq
      <4> QED
        BY <4>1
    <3>2. ReadsSock(t)
      OBVIOUS
    <3> HIDE DEF t
    <3> QED
      BY <1>7, <3>1, <3>2 DEF ReadsSock
  <2>8. CASE e.kind # "header"
    <3>1. tool' = After(t, FALSE) /\ Returned' = Returned
      BY <2>2, <2>3, <2>7, <2>8
    <3>2. ~HasAnswer' /\ AtDevice' = {}
      BY <1>4, <3>1 DEF HasAnswer, At, AtDevice
    <3>3. Flow' = Flow
      BY <1>3, <2>5, <3>1, <3>2 DEF Flow
    <3>4. /\ InSession' /\ (HasRequest' <=> HasRequest) /\ Waiting' = Waiting
      BY <1>4, <1>5, <3>1
    <3>5. ToolShape' /\ IdleShape'
      BY <1>1, <1>4, <3>1, <3>2, <3>4 DEF ToolShape, ThreadShape, IdleShape, InSession, At
    <3>6. TableTells'
      BY <1>1, <1>3, <3>3, <3>4, TableKept
    <3>7. NumbersApart'
      <4>1. Numbered(to_server') /\ Once(to_client')
        BY <2>2, <1>1 DEF NumbersApart
      <4> QED
        BY <1>1, <1>3, <2>5, <3>1, <3>2, <3>4, <4>1, NumbersKept
    <3>8. InOrder'
      BY <2>6, <3>2 DEF InOrder, HasAnswer
    <3> QED
      BY <2>4, <3>5, <3>6, <3>7, <3>8 DEF Keeps
  <2>9. CASE e.kind = "header"
    <3> DEFINE a == e.answer
    <3>1. /\ a \in Answers /\ Returned = Returned' \cup {a} /\ Apart({a}, Returned')
          /\ Begins(to_client', a)
      BY <2>2, <2>3, <2>9, ItemFacts
    <3>2. tool' = [t EXCEPT !.at = "to_dev", !.answer = a]
      BY <2>7, <2>9
    <3> HIDE DEF a, e
    <3>3. /\ tool' \in ToolState /\ tool'.at = "to_dev" /\ tool'.answer = a
          /\ tool'.dev_read = tool.dev_read /\ tool'.request = tool.request
      BY <1>2, <3>1, <3>2, AnswerIsReplied DEF ToolState
    <3>4. AtDevice' = {a} /\ HasAnswer' /\ At("to_dev")' /\ ~At("data")'
      BY <3>3 DEF AtDevice, HasAnswer, At
    <3>5. Flow' = Flow
      BY <1>3, <2>5, <3>1, <3>4 DEF Flow
    <3>6. InSession' /\ (HasRequest' <=> HasRequest) /\ Waiting' = Waiting
      BY <1>5, <3>3
    <3>7. a \in Flow /\ a.num <= seq_num
      BY <3>1 DEF Flow, NumbersApart
    <3>8. ToolShape' /\ IdleShape'
      BY <1>1, <3>1, <3>3, <3>6, <3>7 DEF ToolShape, ThreadShape, IdleShape, InSession, At
    <3>9. TableTells'
      BY <1>1, <1>3, <3>5, <3>6, TableKept
    <3>10. NumbersApart'
      <4>1. /\ Apart(Sent, Returned) /\ Apart(server.taken, Returned)
            /\ Apart(Sent, server.taken) /\ Apart(Waiting, Flow)
        BY DEF NumbersApart
      <4>2. /\ Apart(Sent, Returned)' /\ Apart(Sent, AtDevice)'
            /\ Apart(server.taken, Returned)' /\ Apart(server.taken, AtDevice)'
            /\ Apart(Returned, AtDevice)'
        BY <2>5, <3>1, <3>4, <4>1 DEF Apart
      <4>3. Apart(Sent, server.taken)' /\ Apart(Waiting, Flow)'
        BY <2>5, <3>5, <3>6, <4>1 DEF Apart
      <4>4. /\ \A q \in Flow' : q.num <= seq_num'
            /\ \A q, r \in server'.taken : q.num = r.num => q = r
        BY <1>1, <2>5, <3>5 DEF NumbersApart
      <4> QED
        BY <2>6, <4>2, <4>3, <4>4 DEF NumbersApart
    <3>11. InOrder'
      <4>1. a.data + a.descs > 0 => to_client' # <<>> /\ to_client'[1].kind = "data"
        BY <3>1 DEF Begins
      <4>2. a.packets = 0 => Follow(to_client', 1, a)
        BY <3>1 DEF Begins
      <4>3. tool'.answer.packets = 0 => Follow(to_client, 1, tool.answer)'
        BY <3>3, <4>2 DEF Follow, GoesOn
      <4> QED
        BY <2>6, <3>3, <3>4, <4>1, <4>3 DEF InOrder
    <3> QED
      BY <2>4, <3>8, <3>9, <3>10, <3>11 DEF Keeps
  <2> QED
    BY <2>8, <2>9
<1> QED
  BY <1>6, <1>7 DEF ReadsSock

\* The tool reads an answer's header.
LEMMA SockReadKeeps ==
  ASSUME SessionInv, SockRead \/ SockEvent
  PROVE  Keeps
<1> USE DEF SessionInv, Shapes
<1>1. UNCHANGED <<driverVars, out_q_seqnum_array, to_server, server, envVars, refused>>
  BY DEF SockRead, SockEvent
<1>2. tool.at \in {"sock_read", "wait"}
  BY DEF SockRead, SockEvent, At
<1> DEFINE pending == [tool EXCEPT !.sock_read = "pending"]
<1>3. \/ ReadsSock([tool EXCEPT !.sock_read = "none"])
      \/ tool' = After(pending, TRUE) /\ to_client' = to_client /\ blame' = blame
  BY DEF SockRead, SockEvent
<1>4. CASE tool' = After(pending, TRUE) /\ to_client' = to_client /\ blame' = blame
  <2>1. /\ pending \in ToolState /\ pending.dev_read = tool.dev_read
        /\ pending.answer = tool.answer
        /\ pending.need = tool.need /\ pending.left = tool.left /\ pending.request = tool.request
    BY DEF ToolShape, ThreadShape, ToolState
  <2> HIDE DEF pending
  <2>2. /\ tool' \in ToolState /\ tool'.at \in {"sock_read", "wait", "over"}
        /\ tool'.dev_read = tool.dev_read /\ tool'.request = tool.request
        /\ tool'.answer = tool.answer /\ tool'.need = tool.need /\ tool'.left = tool.left
    BY <1>4, <2>1, AfterFacts
  <2>3. Quiet
    BY <1>1, <1>2, <1>4, <2>2
       DEF Quiet, HasRequest, HasAnswer, InSession, At, streamVars, driverVars, envVars
  <2> QED
    BY <2>3, QuietIsKept
<1> QED
  BY <1>1, <1>2, <1>3, <1>4, ReadsSockKeeps

\* The thread after the driver has got an answer.
LEMMA GivesDeviceReturns ==
  ASSUME tool \in ToolState, NEW a, NEW n, GivesDevice(a, n)
  PROVE  /\ tool' \in ToolState /\ tool'.at \in {"sock_read", "wait", "over"}
         /\ tool'.dev_read = tool.dev_read /\ tool'.request = tool.request
<1> DEFINE t == [tool EXCEPT !.answer = NULL, !.need = 0, !.left = 0]
<1>1. t \in ToolState /\ t.dev_read = tool.dev_read /\ t.request = tool.request
  BY DEF ToolState
<1>2. tool' = After(t, FALSE) \/ tool' = [tool EXCEPT !.at = "sock_read", !.answer = NULL, !.need = 0,
                                                      !.left = 0]
  BY DEF GivesDevice
<1>3. CASE tool' = After(t, FALSE)
  <2> HIDE DEF t
  <2> QED
    BY <1>1, <1>3, AfterFacts
<1>4. CASE tool' = [tool EXCEPT !.at = "sock_read", !.answer = NULL, !.need = 0, !.left = 0]
  BY <1>4 DEF ToolState
<1> QED
  BY <1>2, <1>3, <1>4

\* What the thread is about to read follows the header, in the stream of a server that is
\* still there.
LEMMA AnswerAtDevice ==
  ASSUME SessionInv, tool.at = "to_dev"
  PROVE  LET a == tool.answer
             out == Recorded(a.num) # {}
         IN  /\ a \in Answers /\ a \in Flow /\ a.num \in Nat \ {0}
             /\ Follows(a, out) \in Nat
             /\ Follows(a, out) > 0 => a.data + a.descs > 0
             /\ ~a.in => out
<1> USE DEF SessionInv, Shapes
<1> DEFINE a == tool.answer
           out == Recorded(a.num) # {}
<1>1. a \in Answers /\ a \in Flow
  BY DEF ToolShape, ThreadShape, HasAnswer, At, Flow, AtDevice
<1>2. /\ a.num \in Nat \ {0} /\ a.in \in BOOLEAN /\ a.actual \in Nat
      /\ a.data = (IF a.in THEN a.actual ELSE 0)
      /\ a.data \in Nat /\ a.descs \in Nat
      /\ IsoLen(a) \in Nat /\ (IsoLen(a) > 0 => a.descs > 0)
  BY <1>1, AnswerIsTyped
<1>3. ~a.in => out
  <2>1. ~a.in => a.num \in InTable
    BY <1>1 DEF TableTells, InSession, At
  <2> QED
    BY <2>1 DEF InTable, Recorded
<1> DEFINE x == (IF out THEN 0 ELSE a.actual) + IsoLen(a)
           i == IsoLen(a)
           f == Follows(a, out)
<1>4. f = Wrapped(x)
  BY DEF Follows
<1> HIDE DEF a, out, f, i
<1>5. x = (IF out THEN 0 ELSE a.actual) + i /\ i \in Nat /\ (i > 0 => a.descs > 0)
  BY <1>2 DEF i
<1> HIDE DEF x
<1>6. x \in Nat /\ (x > 0 => a.data + a.descs > 0)
  BY <1>2, <1>3, <1>5
<1>7. f \in Nat /\ f <= x
  BY <1>4, <1>6, WordFacts
<1>8. f > 0 => a.data + a.descs > 0
  BY <1>6, <1>7
<1> QED
  BY <1>1, <1>2, <1>3, <1>7, <1>8 DEF f, a, out

\* The tool gives the driver an answer without data, or goes on to read the data.
LEMMA WriteToDevKeeps ==
  ASSUME SessionInv, WriteToDev
  PROVE  Keeps
<1> USE DEF SessionInv, Shapes
<1> DEFINE a == tool.answer
           out == Recorded(a.num) # {}
           t == [tool EXCEPT !.answer = NULL]
<1>1. /\ tool.at = "to_dev" /\ out_q_seqnum_array' = check_out(a.num)
      /\ UNCHANGED <<Present, seq_num, to_server, to_client, server, leftover>>
  BY DEF WriteToDev, At, streamVars, envVars
<1>2. /\ a \in Answers /\ a \in Flow /\ a.num \in Nat \ {0}
      /\ Follows(a, out) \in Nat
      /\ Follows(a, out) > 0 => a.data + a.descs > 0
  BY <1>1, AnswerAtDevice
<1>3. /\ AtDevice = {a} /\ InSession /\ HasAnswer
      /\ (HasRequest <=> tool.dev_read = "done") /\ tool \in ToolState
      /\ a.num <= seq_num
  BY <1>1 DEF HasRequest, HasAnswer, At, InSession, AtDevice, ToolShape, ThreadShape
<1>4. \/ GivesDevice(a, HEADER)
      \/ tool' = After(t, FALSE)
      \/ Follows(a, out) # 0 /\ tool' = [tool EXCEPT !.at = "data", !.need = Follows(a, out),
                                                     !.left = Follows(a, out)]
  BY DEF WriteToDev
<1>5. /\ tool' \in ToolState /\ tool'.at \in {"data", "sock_read", "wait", "over"}
      /\ tool'.dev_read = tool.dev_read /\ tool'.request = tool.request
      /\ tool'.at = "data" => tool'.answer = a /\ tool'.need = Follows(a, out)
                              /\ tool'.left = tool'.need /\ Follows(a, out) > 0
  <2>1. CASE GivesDevice(a, HEADER)
    <3> HIDE DEF a
    <3>1. /\ tool' \in ToolState /\ tool'.at \in {"sock_read", "wait", "over"}
          /\ tool'.dev_read = tool.dev_read /\ tool'.request = tool.request
      BY <1>3, <2>1, GivesDeviceReturns
    <3> QED
      BY <3>1
  <2>2. CASE tool' = After(t, FALSE)
    <3>1. t \in ToolState /\ t.dev_read = tool.dev_read /\ t.request = tool.request
      BY <1>3 DEF ToolState
    <3> HIDE DEF t
    <3>2. /\ tool' \in ToolState /\ tool'.at \in {"sock_read", "wait", "over"}
          /\ tool'.dev_read = tool.dev_read /\ tool'.request = tool.request
      BY <2>2, <3>1, AfterFacts
    <3> QED
      BY <3>2
  <2>3. CASE Follows(a, out) # 0 /\ tool' = [tool EXCEPT !.at = "data", !.need = Follows(a, out),
                                                         !.left = Follows(a, out)]
    <3> DEFINE f == Follows(a, out)
    <3>1. f \in Nat /\ f # 0 /\ tool' = [tool EXCEPT !.at = "data", !.need = f, !.left = f]
      BY <1>2, <2>3
    <3> HIDE DEF f
    <3>2. f > 0
      BY <3>1
    <3>3. /\ tool' \in ToolState /\ tool'.at = "data" /\ tool'.answer = tool.answer
          /\ tool'.need = f /\ tool'.left = f
          /\ tool'.dev_read = tool.dev_read /\ tool'.request = tool.request
      BY <1>3, <3>1 DEF ToolState
    <3> QED
      BY <3>2, <3>3 DEF f
  <2> QED
    BY <1>4, <2>1, <2>2, <2>3
<1>6. /\ AtDevice' = {} /\ InSession' /\ (HasRequest' <=> HasRequest) /\ Waiting' = Waiting
      /\ ~At("to_dev")'
  BY <1>3, <1>5 DEF HasRequest, Waiting, InSession, At, AtDevice
<1>7. ToolShape' /\ IdleShape'
  <2>1. HasAnswer' => tool'.answer = a
    BY <1>5 DEF HasAnswer, At
  <2> HIDE DEF a
  <2> QED
    BY <1>1, <1>2, <1>3, <1>5, <1>6, <2>1 DEF ToolShape, ThreadShape, IdleShape, InSession, At
<1>8. /\ Sent' = Sent /\ server'.taken = server.taken /\ Returned' = Returned
  BY <1>1 DEF Sent, Returned
<1> HIDE DEF a, out, t
<1>9. /\ out_q_seqnum_array' \in [Slots -> Nat]
      /\ \A i \in Slots : out_q_seqnum_array'[i] \in {0, out_q_seqnum_array[i]}
      /\ InTable' \subseteq InTable /\ InTable \ {a.num} \subseteq InTable'
      /\ a.num \in InTable' =>
           \E i, j \in Slots :
             i # j /\ out_q_seqnum_array[i] = a.num /\ out_q_seqnum_array[j] = a.num
  BY <1>1, <1>2, CheckOutTells
<1>10. StreamShape'
  BY <1>1, <1>9 DEF StreamShape, ConnShape
<1>11. NumbersApart'
  <2>1. Numbered(to_server') /\ Once(to_client')
    BY <1>1 DEF NumbersApart
  <2> QED
    BY <1>1, <1>6, <1>8, <2>1, NumbersKept
<1>12. InOrder'
  <2>1. Whole(to_client)'
    BY <1>1 DEF InOrder, Whole, Follow, GoesOn
  <2>2. At("data")' => tool'.need > 0 /\ tool'.left = tool'.need
    BY <1>5 DEF At
  <2>3. At("data")' /\ server'.open => to_client' # <<>> /\ to_client'[1].kind = "data"
    BY <1>1, <1>2, <1>5 DEF InOrder, At, a, out
  <2> QED
    BY <1>6, <2>1, <2>2, <2>3 DEF InOrder
<1>13. TableTells'
  <2>1. Flow' \subseteq Flow /\ \A q \in Flow : q \in Flow' \/ q = a
    BY <1>3, <1>6, <1>8 DEF Flow
  <2>2. \A q \in Flow' : q.num # a.num
    BY <1>3, <1>6, <1>8 DEF Flow, NumbersApart, Apart
  <2>3. /\ \A q \in Flow' : ~q.in => q.num \in InTable'
        /\ \A q \in Flow' : q.in /\ q.num \in InTable' => q.num \in leftover'
        /\ \A q \in Waiting' : q.num \in InTable' => q.num \in leftover'
        /\ \A n \in InTable' : n <= seq_num' \/ n \in leftover'
    BY <1>1, <1>3, <1>6, <1>9, <2>1, <2>2 DEF TableTells
  <2>4. ASSUME server'.open
        PROVE  /\ \A n \in InTable' : n \in leftover' \/ \E q \in Flow' : ~q.in /\ q.num = n
               /\ \A i, j \in Slots :
                    /\ out_q_seqnum_array'[i] = out_q_seqnum_array'[j]
                    /\ out_q_seqnum_array'[i] \notin leftover' \cup {0}
                    => i = j
    <3>1. /\ \A n \in InTable : n \in leftover \/ \E q \in Flow : ~q.in /\ q.num = n
          /\ \A i, j \in Slots :
               /\ out_q_seqnum_array[i] = out_q_seqnum_array[j]
               /\ out_q_seqnum_array[i] \notin leftover \cup {0}
               => i = j
      BY <1>1, <1>3, <2>4 DEF TableTells
    <3>2. a.num \in InTable' => a.num \in leftover
      BY <1>2, <1>9, <3>1
    <3> QED
      BY <1>1, <1>9, <2>1, <3>1, <3>2
  <2> QED
    BY <2>3, <2>4 DEF TableTells
<1> QED
  BY <1>7, <1>10, <1>11, <1>12, <1>13 DEF Keeps

\* The tool comes to the end of the stream, or reads exactly the data of the answer.
LEMMA DataRead ==
  ASSUME SessionInv, WriteToDevData, Trusting'
  PROVE  \/ /\ to_client = <<>> /\ UNCHANGED <<to_client, blame, ioctl_q, refused>>
            /\ tool' = After([tool EXCEPT !.answer = NULL, !.need = 0, !.left = 0], FALSE)
         \/ /\ to_client # <<>> /\ to_client[1] = [kind |-> "data", bytes |-> tool.need]
            /\ to_client' = Tail(to_client) /\ blame' = blame
            /\ GivesDevice(tool.answer, HEADER + tool.need)
<1> DEFINE e == Head(to_client)
           d == [kind |-> "data", bytes |-> tool.need]
<1>1. tool.left = tool.need /\ "swallowed" \notin blame'
  BY DEF SessionInv, InOrder, WriteToDevData, Trusting, Undisturbed
<1>2. to_client \in Seq(Item)
  BY DEF SessionInv, Shapes, StreamShape
<1>3. CASE to_client = <<>>
  BY <1>3 DEF WriteToDevData
<1>4. CASE to_client # <<>>
  <2>1. \/ "swallowed" \in blame'
        \/ /\ to_client' = (IF SizeOf(e) = tool.left THEN <<>>
                            ELSE <<[kind |-> "data", bytes |-> SizeOf(e) - tool.left]>>)
                             \o Tail(to_client)
           /\ GivesDevice(tool.answer, HEADER + tool.need)
           /\ blame' = IF e # d THEN blame \cup {"swallowed"} ELSE blame
    BY <1>4 DEF WriteToDevData, Blame
  <2>6. e = d /\ blame' = blame
    BY <1>1, <2>1
  <2>2. SizeOf(e) = tool.left
    BY <1>1, <2>6 DEF SizeOf
  <2>3. Tail(to_client) \in Seq(Item) /\ e = to_client[1]
    BY <1>2, <1>4
  <2>4. to_client' = <<>> \o Tail(to_client)
    BY <1>1, <2>1, <2>2
  <2>5. to_client' = Tail(to_client)
    BY <2>3, <2>4, ConcatEmptySeq
  <2> QED
    BY <1>1, <1>4, <2>1, <2>3, <2>5, <2>6
<1> QED
  BY <1>3, <1>4

\* The tool reads an answer's data and gives the driver both.
LEMMA WriteToDevDataKeeps ==
  ASSUME SessionInv, WriteToDevData, Trusting'
  PROVE  Keeps
<1> USE DEF SessionInv, Shapes
<1> DEFINE t == [tool EXCEPT !.answer = NULL, !.need = 0, !.left = 0]
<1>1. /\ tool.at = "data"
      /\ UNCHANGED <<seq_num, out_q_seqnum_array, to_server, server, leftover>>
  BY DEF WriteToDevData, At, envVars
<1>2. /\ AtDevice = {} /\ InSession /\ (HasRequest <=> tool.dev_read = "done")
      /\ tool \in ToolState /\ seq_num \in Nat
  BY <1>1 DEF HasRequest, At, InSession, AtDevice, ToolShape, ThreadShape, DriverShape
<1>3. \/ to_client' = to_client /\ tool' = After(t, FALSE)
      \/ /\ to_client # <<>> /\ to_client' = Tail(to_client)
         /\ GivesDevice(tool.answer, HEADER + tool.need)
  BY DataRead
<1>4. /\ tool' \in ToolState /\ tool'.at \in {"sock_read", "wait", "over"}
      /\ tool'.dev_read = tool.dev_read /\ tool'.request = tool.request
  <2>1. CASE GivesDevice(tool.answer, HEADER + tool.need)
    BY <1>2, <2>1, GivesDeviceReturns
  <2>2. CASE tool' = After(t, FALSE)
    <3>1. t \in ToolState /\ t.dev_read = tool.dev_read /\ t.request = tool.request
      BY <1>2 DEF ToolState
    <3> HIDE DEF t
    <3> QED
      BY <2>2, <3>1, AfterFacts
  <2> QED
    BY <1>3, <2>1, <2>2
<1>5. /\ AtDevice' = {} /\ InSession' /\ (HasRequest' <=> HasRequest) /\ Waiting' = Waiting
      /\ ~HasAnswer'
  BY <1>2, <1>4 DEF HasRequest, HasAnswer, Waiting, InSession, At, AtDevice
<1>6. ToolShape' /\ IdleShape'
  BY <1>1, <1>4, <1>5 DEF ToolShape, ThreadShape, IdleShape, InSession, At
<1>7. /\ Sent' = Sent /\ server'.taken = server.taken
  BY <1>1 DEF Sent
<1>8. /\ to_client' \in Seq(Item) /\ Once(to_client') /\ Whole(to_client')
      /\ HeadersOf(to_client') \subseteq Returned
      /\ server.open => HeadersOf(to_client') = Returned
  <2>1. to_client \in Seq(Item) /\ Once(to_client) /\ Whole(to_client)
    BY DEF StreamShape, ConnShape, NumbersApart, InOrder
  <2>2. CASE to_client' = to_client
    BY <2>1, <2>2 DEF Returned
  <2>3. CASE to_client # <<>> /\ to_client' = Tail(to_client)
    <3>1. /\ Tail(to_client) \in Seq(Item) /\ Once(Tail(to_client)) /\ Whole(Tail(to_client))
          /\ HeadersOf(Tail(to_client)) \subseteq HeadersOf(to_client)
          /\ to_client[1].kind # "header" => HeadersOf(to_client) = HeadersOf(Tail(to_client))
      BY <2>1, <2>3, TailOfStream
    <3>3. server.open => to_client[1].kind # "header"
      BY <1>1 DEF InOrder, At
    <3> QED
      BY <2>3, <3>1, <3>3 DEF Returned
  <2> QED
    BY <1>3, <2>2, <2>3
<1>9. Returned' = HeadersOf(to_client')
  BY DEF Returned, HeadersOf
<1>10. Flow' \subseteq Flow /\ (server'.open => server.open /\ Flow' = Flow)
  BY <1>1, <1>2, <1>5, <1>7, <1>8, <1>9 DEF Flow
<1>11. StreamShape'
  BY <1>1, <1>8 DEF StreamShape, ConnShape
<1>12. TableTells'
  BY <1>1, <1>2, <1>5, <1>10, TableKept
<1>13. NumbersApart'
  <2>1. Numbered(to_server')
    BY <1>1 DEF NumbersApart
  <2> QED
    BY <1>1, <1>2, <1>5, <1>7, <1>8, <1>9, <2>1, NumbersKept
<1>14. InOrder'
  <2>1. Whole(to_client)'
    BY <1>8 DEF Whole, Follow, GoesOn
  <2> QED
    BY <1>5, <2>1 DEF InOrder, HasAnswer
<1> QED
  BY <1>6, <1>11, <1>12, <1>13, <1>14 DEF Keeps

(***************************************************************************)
(* The server, and the sessions.                                           *)
(***************************************************************************)

\* A connection that is closed.
LEMMA ClosedServer ==
  ASSUME ConnShape
  PROVE  /\ ~Closed.open /\ Closed.taken = {}
         /\ Closed \in [open : BOOLEAN, taken : SUBSET Request, seqnum : Nat]
BY DEF Closed, ConnShape

\* The thread does not see the step.
LEMMA ThreadKept ==
  ASSUME ToolShape, IdleShape, ~At("idle"), UNCHANGED <<tool, seq_num>>
  PROVE  /\ ToolShape' /\ IdleShape'
         /\ Waiting' = Waiting /\ AtDevice' = AtDevice /\ InSession' = InSession
         /\ (HasAnswer' <=> HasAnswer)
BY DEF ToolShape, ThreadShape, IdleShape, At, Waiting, AtDevice, InSession, HasAnswer, HasRequest

\* The answer a to the request q comes from the server, which has it no longer.
Comes(q, a) ==
  /\ server.open /\ q \in Sent \cup server.taken /\ a \in AnswerTo(q)
  /\ to_client' = to_client \o Answered(a)
  /\ UNCHANGED <<driverVars, tool, out_q_seqnum_array, envVars, refused, blame>>
  /\ server'.open /\ ConnShape' /\ Numbered(to_server')
  /\ Sent' \subseteq Sent /\ server'.taken \subseteq server.taken
  /\ Sent \cup server.taken = Sent' \cup server'.taken \cup {q}
  /\ Apart({q}, Sent') /\ Apart({q}, server'.taken)

\* An answer that was not astray does.
LEMMA AnswerComes ==
  ASSUME SessionInv, ServerAnswers, Trusting'
  PROVE  \E q \in Request : \E a \in Answers : Comes(q, a)
<1> USE DEF SessionInv, Shapes
<1> DEFINE n == server.seqnum + 1
           due == {q \in server.taken : q.num = n}
<1>1. PICK d \in DeviceUrbs :
        /\ to_client' = to_client \o Answered(Reply(n, d))
        /\ server' = [server EXCEPT !.seqnum = n, !.taken = @ \ due]
        /\ blame' = IF \E q \in due : Fits(d, q) THEN blame ELSE blame \cup {"astray"}
  BY DEF ServerAnswers
<1>2. blame' = blame /\ \E q \in due : Fits(d, q)
  BY <1>1 DEF Trusting, Undisturbed
<1>3. PICK q \in due : Fits(d, q)
  BY <1>2
<1>4. q \in server.taken /\ q.num = n /\ q \in Request
  BY DEF StreamShape, ConnShape
<1>5. due = {q}
  BY <1>4 DEF NumbersApart
<1> DEFINE a == Reply(q.num, d)
<1>6. a \in AnswerTo(q)
  BY <1>3, ForwardAssumption DEF AnswerTo
<1>7. a \in Answers
  BY <1>4, <1>6 DEF Answers
<1>8. /\ UNCHANGED <<driverVars, tool, out_q_seqnum_array, to_server, envVars, refused>>
      /\ server.open /\ Sent' = Sent
  BY DEF ServerAnswers, Sent
<1>9. /\ server' \in [open : BOOLEAN, taken : SUBSET Request, seqnum : Nat]
      /\ server'.open /\ server'.taken = server.taken \ {q}
  <2>1. server \in [open : BOOLEAN, taken : SUBSET Request, seqnum : Nat]
    BY DEF StreamShape, ConnShape
  <2>2. n \in Nat
    BY <2>1
  <2>3. server' = [server EXCEPT !.seqnum = n, !.taken = @ \ {q}]
    BY <1>1, <1>5
  <2> HIDE DEF due, n
  <2> QED
    BY <1>8, <2>1, <2>2, <2>3
<1>10. ConnShape' /\ Numbered(to_server')
  BY <1>8, <1>9 DEF StreamShape, ConnShape, NumbersApart
<1>11. Apart({q}, Sent') /\ Apart({q}, server'.taken)
  BY <1>4, <1>8, <1>9 DEF NumbersApart, Apart
<1>12. to_client' = to_client \o Answered(a)
  BY <1>1, <1>4
<1> HIDE DEF a, due, n
<1>13. Comes(q, a)
  BY <1>2, <1>4, <1>6, <1>8, <1>9, <1>10, <1>11, <1>12 DEF Comes
<1> QED
  BY <1>4, <1>7, <1>13

\* The server receives a request: it has it, or answers it itself, or leaves.
LEMMA ServerReceivesCases ==
  ASSUME SessionInv, ServerReceives
  PROVE  \/ /\ UNCHANGED to_client /\ blame \subseteq blame'
            /\ server' \in {[server EXCEPT !.taken = @ \cup {Head(to_server)}], Closed}
         \/ \E q \in Request : \E a \in Answers : Comes(q, a)
<1> USE DEF SessionInv, Shapes
<1> DEFINE q == Head(to_server)
           a == SpecialReply(q)
<1>1. /\ server.open /\ to_server # <<>> /\ to_server' = Tail(to_server)
      /\ UNCHANGED <<driverVars, tool, out_q_seqnum_array, envVars, refused>>
  BY DEF ServerReceives
<1>2. \/ /\ UNCHANGED to_client /\ blame \subseteq blame'
         /\ server' \in {[server EXCEPT !.taken = @ \cup {q}], Closed}
      \/ /\ Special(q) /\ to_client' = to_client \o Answered(a)
         /\ UNCHANGED <<server, blame>>
  BY DEF ServerReceives, Blame
<1>3. CASE /\ Special(q) /\ to_client' = to_client \o Answered(a)
           /\ UNCHANGED <<server, blame>>
  <2>1. /\ to_server' \in Seq(Request) /\ Numbered(to_server') /\ q \in Request
        /\ Sent = ToSet(to_server') \cup {q} /\ Apart({q}, ToSet(to_server'))
    BY <1>1, TailOfRequests DEF StreamShape, ConnShape, NumbersApart, Sent
  <2>2. a \in AnswerTo(q)
    BY <1>3 DEF AnswerTo
  <2>3. a \in Answers
    BY <2>1, <2>2 DEF Answers
  <2>4. Sent' = ToSet(to_server')
    BY DEF Sent, ToSet
  <2>5. ConnShape' /\ server'.open
    BY <1>1, <1>3, <2>1 DEF StreamShape, ConnShape
  <2>6. Apart({q}, Sent') /\ Apart({q}, server'.taken)
    BY <1>3, <2>1, <2>4 DEF NumbersApart, Apart
  <2> HIDE DEF a, q
  <2>7. Comes(q, a)
    BY <1>1, <1>3, <2>1, <2>2, <2>4, <2>5, <2>6 DEF Comes
  <2> QED
    BY <2>1, <2>3, <2>7
<1> QED
  BY <1>2, <1>3

\* What comes joins the stream whole.
LEMMA ComesAfter ==
  ASSUME SessionInv, NEW q \in Request, NEW a \in Answers, Comes(q, a)
  PROVE  /\ a.num = q.num /\ a.in = q.in
         /\ AnswerAfter(to_client, to_client', a) /\ Returned' = Returned \cup {a}
<1> USE DEF SessionInv, Shapes
<1>1. a.num = q.num /\ a.in = q.in
  BY AnswerFacts DEF Comes
<1>2. Apart({a}, HeadersOf(to_client))
  BY <1>1 DEF NumbersApart, Apart, Returned, Comes
<1>3. AnswerAfter(to_client, to_client', a)
  <2>1. to_client \in Seq(Item) /\ Once(to_client) /\ Whole(to_client)
    BY DEF StreamShape, ConnShape, NumbersApart, InOrder
  <2> QED
    BY <1>2, <2>1, AnswerOnStream DEF Comes
<1>4. Returned' = Returned \cup {a}
  BY <1>3 DEF Returned, HeadersOf, AnswerAfter
<1> QED
  BY <1>1, <1>3, <1>4

\* The server has received a request that it will answer, or left.
LEMMA ServerReceivesKeeps ==
  ASSUME SessionInv, ServerReceives, UNCHANGED to_client,
         server' \in {[server EXCEPT !.taken = @ \cup {Head(to_server)}], Closed}
  PROVE  Keeps
<1> USE DEF SessionInv, Shapes
<1> DEFINE q == Head(to_server)
<1>1. /\ server.open /\ to_server # <<>> /\ to_server' = Tail(to_server)
      /\ UNCHANGED <<tool, seq_num, out_q_seqnum_array, to_client, leftover>>
      /\ server' \in {[server EXCEPT !.taken = @ \cup {q}], Closed}
  BY DEF ServerReceives, driverVars, envVars
<1>2. ~At("idle") /\ InSession
  BY <1>1 DEF IdleShape, InSession, At
<1>3. /\ ToolShape' /\ IdleShape' /\ Waiting' = Waiting /\ AtDevice' = AtDevice
  BY <1>1, <1>2, ThreadKept
<1>4. /\ to_server' \in Seq(Request) /\ Numbered(to_server') /\ q \in Request
      /\ Sent = ToSet(to_server') \cup {q} /\ Apart({q}, ToSet(to_server'))
  BY <1>1, TailOfRequests DEF StreamShape, ConnShape, NumbersApart, Sent
<1>5. Sent' = ToSet(to_server') /\ Returned' = Returned
  BY <1>1 DEF Sent, Returned
<1> HIDE DEF q
<1>6. /\ server' \in [open : BOOLEAN, taken : SUBSET Request, seqnum : Nat]
      /\ ~server'.open => server'.taken = {}
      /\ server'.open => server'.taken = server.taken \cup {q}
  <2>1. server \in [open : BOOLEAN, taken : SUBSET Request, seqnum : Nat]
    BY DEF StreamShape, ConnShape
  <2>2. CASE server' = [server EXCEPT !.taken = @ \cup {q}]
    BY <1>1, <1>4, <2>1, <2>2
  <2>3. CASE server' = Closed
    BY <2>1, <2>3 DEF Closed
  <2> QED
    BY <1>1, <2>2, <2>3
<1>7. StreamShape'
  BY <1>1, <1>4, <1>6 DEF StreamShape, ConnShape
<1>8. InOrder'
  BY <1>1, OrderKept
<1>9. Flow' \subseteq Flow /\ (server'.open => Flow' = Flow)
  BY <1>3, <1>4, <1>5, <1>6 DEF Flow
<1>10. TableTells'
  BY <1>1, <1>2, <1>3, <1>9, TableKept
<1>11. NumbersApart'
  <2>1. CASE ~server'.open
    <3>1. Once(to_client')
      BY <1>1 DEF NumbersApart
    <3>2. Sent' \subseteq Sent /\ server'.taken \subseteq server.taken
      BY <1>4, <1>5, <1>6, <2>1
    <3> QED
      BY <1>1, <1>3, <1>4, <1>5, <3>1, <3>2, NumbersKept
  <2>2. CASE server'.open
    <3>1. server'.taken = server.taken \cup {q} /\ Flow' = Flow /\ Sent = Sent' \cup {q}
      BY <1>4, <1>5, <1>6, <1>9, <2>2
    <3>2. /\ Apart(Sent, server.taken) /\ Apart(Sent, Returned) /\ Apart(Sent, AtDevice)
          /\ Apart(server.taken, Returned) /\ Apart(server.taken, AtDevice)
          /\ Apart(Returned, AtDevice) /\ Apart(Waiting, Flow)
      BY DEF NumbersApart
    <3>3. Apart({q}, Sent')
      BY <1>4, <1>5 DEF Apart
    <3>4. /\ Apart(Sent, server.taken)' /\ Apart(Sent, Returned)' /\ Apart(Sent, AtDevice)'
          /\ Apart(server.taken, Returned)' /\ Apart(server.taken, AtDevice)'
      BY <1>3, <1>5, <3>1, <3>2, <3>3 DEF Apart
    <3>5. Apart(Returned, AtDevice)' /\ Apart(Waiting, Flow)'
      BY <1>3, <1>5, <3>1, <3>2 DEF Apart
    <3>6. \A p, r \in server'.taken : p.num = r.num => p = r
      <4>1. \A p \in server.taken : p.num # q.num
        BY <3>1, <3>2 DEF Apart
      <4>2. \A p, r \in server.taken : p.num = r.num => p = r
        BY DEF NumbersApart
      <4> QED
        BY <3>1, <4>1, <4>2
    <3>7. Numbered(to_server)' /\ Once(to_client)'
      BY <1>1, <1>4 DEF Numbered, Once, NumbersApart
    <3>8. \A p \in Flow' : p.num <= seq_num'
      BY <1>1, <3>1 DEF NumbersApart
    <3> QED
      BY <3>4, <3>5, <3>6, <3>7, <3>8 DEF NumbersApart
  <2> QED
    BY <2>1, <2>2
<1> QED
  BY <1>3, <1>7, <1>8, <1>10, <1>11 DEF Keeps

\* An answer comes.
LEMMA ComesKeeps ==
  ASSUME SessionInv, NEW q \in Request, NEW a \in Answers, Comes(q, a)
  PROVE  Keeps
<1> USE DEF SessionInv, Shapes
<1>2. /\ server.open /\ server'.open
      /\ UNCHANGED <<tool, seq_num, out_q_seqnum_array, leftover>>
  BY DEF Comes, driverVars, envVars
<1>4. ~At("idle") /\ InSession
  BY <1>2 DEF IdleShape, InSession, At
<1>5. /\ ToolShape' /\ IdleShape' /\ Waiting' = Waiting /\ AtDevice' = AtDevice
  BY <1>2, <1>4, ThreadKept
<1>7. a.num = q.num /\ a.in = q.in
  BY ComesAfter
<1>8. /\ Sent' \subseteq Sent /\ server'.taken \subseteq server.taken
      /\ Sent \cup server.taken = Sent' \cup server'.taken \cup {q}
      /\ Apart({q}, Sent') /\ Apart({q}, server'.taken)
      /\ Numbered(to_server') /\ q \in Sent \cup server.taken
  BY DEF Comes
<1>10. AnswerAfter(to_client, to_client', a)
  BY ComesAfter
<1>11. Returned' = Returned \cup {a}
  BY ComesAfter
<1>12. StreamShape'
  BY <1>10 DEF StreamShape, AnswerAfter, Comes
<1>13. InOrder'
  <2>1. to_client \in Seq(Item) /\ Len(to_client) \in Nat
    BY DEF StreamShape, ConnShape
  <2>2. to_client # <<>> => to_client' # <<>> /\ to_client'[1] = to_client[1]
    <3>1. to_client # <<>> => 1 \in 1..Len(to_client)
      BY <2>1, EmptySeq
    <3>2. to_client' # <<>>
      BY <1>10, <2>1, EmptySeq DEF AnswerAfter
    <3> QED
      BY <1>10, <3>1, <3>2 DEF AnswerAfter
  <2>3. ASSUME At("to_dev"), tool.answer.packets = 0
        PROVE  Follow(to_client', 1, tool.answer)
    <3>1. Follow(to_client, 1, tool.answer)
      <4>1. CASE to_client # <<>>
        BY <2>3, <4>1 DEF InOrder
      <4>2. CASE to_client = <<>>
        <5>1. tool.answer.data = 0
          <6>1. ~(tool.answer.data + tool.answer.descs > 0)
            BY <1>2, <2>3, <4>2 DEF InOrder
          <6>2. tool.answer.data \in Nat /\ tool.answer.descs \in Nat
            BY <2>3, AnswerIsTyped DEF ToolShape, ThreadShape, HasAnswer
          <6> QED
            BY <6>1, <6>2
        <5>2. ~(1 <= Len(to_client))
          BY <4>2, EmptySeq
        <5> QED
          BY <5>1, <5>2 DEF Follow, GoesOn
      <4> QED
        BY <4>1, <4>2
    <3>2. 1 \in 1..(Len(to_client) + 1)
      BY <2>1
    <3> QED
      BY <1>10, <3>1, <3>2 DEF AnswerAfter
  <2>4. Whole(to_client)' /\ (Follow(to_client', 1, tool.answer) => Follow(to_client, 1, tool.answer)')
    BY <1>2, <1>10 DEF Whole, Follow, GoesOn, AnswerAfter
  <2>5. (At("to_dev")' <=> At("to_dev")) /\ (At("data")' <=> At("data"))
    BY <1>2 DEF At
  <2> QED
    BY <1>2, <2>2, <2>3, <2>4, <2>5 DEF InOrder
<1>14. NumbersApart'
  <2>1. /\ Apart(Sent, server.taken) /\ Apart(Sent, Returned) /\ Apart(Sent, AtDevice)
        /\ Apart(server.taken, Returned) /\ Apart(server.taken, AtDevice)
        /\ Apart(Returned, AtDevice) /\ Apart(Waiting, Flow)
        /\ \A p, r \in server.taken : p.num = r.num => p = r
        /\ \A p \in Flow : p.num <= seq_num
    BY DEF NumbersApart
  <2>2. /\ Apart(Sent, server.taken)' /\ Apart(Sent, Returned)' /\ Apart(Sent, AtDevice)'
        /\ Apart(server.taken, Returned)' /\ Apart(server.taken, AtDevice)'
        /\ Apart(Returned, AtDevice)'
    <3>1. /\ \A p \in Sent' : p \in Sent /\ p.num # a.num
          /\ \A p \in server'.taken : p \in server.taken /\ p.num # a.num
          /\ \A p \in AtDevice : p.num # a.num
      BY <1>7, <1>8, <2>1 DEF Apart
    <3> QED
      BY <1>5, <1>11, <2>1, <3>1 DEF Apart
  <2>3. \A p \in Flow' : p \in Flow \/ (p = a /\ q \in Flow /\ p.num = q.num)
    BY <1>5, <1>7, <1>8, <1>11 DEF Flow
  <2>4. Apart(Waiting, Flow)'
    BY <1>5, <2>1, <2>3 DEF Apart
  <2>5. \A p \in Flow' : p.num <= seq_num'
    BY <1>2, <2>1, <2>3
  <2>6. \A p, r \in server'.taken : p.num = r.num => p = r
    BY <1>8, <2>1
  <2>7. Numbered(to_server)' /\ Once(to_client)'
    BY <1>8, <1>10 DEF Numbered, Once, AnswerAfter
  <2> QED
    BY <2>2, <2>4, <2>5, <2>6, <2>7 DEF NumbersApart
<1>15. TableTells'
  <2>1. /\ \A p \in Flow' : p \in Flow \/ (q \in Flow /\ p.num = q.num /\ p.in = q.in)
        /\ \A p \in Flow : p \in Flow' \/ (a \in Flow' /\ p.num = a.num /\ p.in = a.in)
    BY <1>5, <1>7, <1>8, <1>11 DEF Flow
  <2>2. InTable' = InTable /\ server.open
    BY <1>2 DEF InTable
  <2>3. /\ \A p \in Flow' : ~p.in => p.num \in InTable'
        /\ \A p \in Flow' : p.in /\ p.num \in InTable' => p.num \in leftover'
        /\ \A p \in Waiting' : p.num \in InTable' => p.num \in leftover'
        /\ \A n \in InTable' : n <= seq_num' \/ n \in leftover'
    BY <1>2, <1>4, <1>5, <2>1, <2>2 DEF TableTells
  <2>4. \A n \in InTable' : n \in leftover' \/ \E p \in Flow' : ~p.in /\ p.num = n
    <3>1. \A n \in InTable : n \in leftover \/ \E p \in Flow : ~p.in /\ p.num = n
      BY <1>4, <2>2 DEF TableTells
    <3> QED
      BY <1>2, <2>1, <2>2, <3>1
  <2>5. \A i, j \in Slots :
          /\ out_q_seqnum_array'[i] = out_q_seqnum_array'[j]
          /\ out_q_seqnum_array'[i] \notin leftover' \cup {0}
          => i = j
    BY <1>2, <1>4, <2>2 DEF TableTells
  <2> QED
    BY <2>3, <2>4, <2>5 DEF TableTells
<1> QED
  BY <1>5, <1>12, <1>13, <1>14, <1>15 DEF Keeps

\* The server closes the connection.
LEMMA ServerLeavesKeeps ==
  ASSUME SessionInv, ServerLeaves
  PROVE  Keeps
<1> USE DEF SessionInv, Shapes
<1>1. /\ server.open /\ to_client' \in {to_client, <<>>}
      /\ UNCHANGED <<tool, seq_num, out_q_seqnum_array, to_server, leftover>>
  BY DEF ServerLeaves, driverVars, envVars
<1>2. ~At("idle") /\ InSession
  BY <1>1 DEF IdleShape, InSession, At
<1>3. /\ ToolShape' /\ IdleShape' /\ Waiting' = Waiting /\ AtDevice' = AtDevice
  BY <1>1, <1>2, ThreadKept
<1>4. /\ ~server'.open /\ server'.taken = {}
      /\ server' \in [open : BOOLEAN, taken : SUBSET Request, seqnum : Nat]
  BY ClosedServer DEF ServerLeaves, StreamShape
<1>5. /\ <<>> \in Seq(Item) /\ Once(<<>>) /\ Whole(<<>>) /\ HeadersOf(<<>>) = {}
  <2>1. Len(<<>>) = 0 /\ <<>> \in Seq(Item)
    BY EmptySeq
  <2>2. 1..0 = {}
    OBVIOUS
  <2> QED
    BY <2>1, <2>2 DEF Once, Whole, HeadersOf
<1>6. /\ to_client' \in Seq(Item) /\ Once(to_client') /\ Whole(to_client')
      /\ HeadersOf(to_client') \subseteq Returned
  BY <1>1, <1>5 DEF StreamShape, ConnShape, NumbersApart, InOrder, Returned
<1>7. Sent' = Sent /\ Returned' \subseteq Returned
  BY <1>1, <1>6 DEF Sent, Returned, HeadersOf
<1>8. Flow' \subseteq Flow
  BY <1>3, <1>4, <1>7 DEF Flow
<1>9. StreamShape'
  BY <1>1, <1>4, <1>6 DEF StreamShape, ConnShape
<1>10. TableTells'
  BY <1>1, <1>2, <1>3, <1>4, <1>8, TableKept
<1>11. NumbersApart'
  <2>1. Numbered(to_server')
    BY <1>1 DEF NumbersApart
  <2> QED
    BY <1>1, <1>3, <1>4, <1>6, <1>7, <2>1, NumbersKept
<1>12. InOrder'
  <2>1. Whole(to_client)'
    BY <1>6 DEF Whole, Follow, GoesOn
  <2>2. (At("to_dev")' <=> At("to_dev")) /\ (At("data")' <=> At("data"))
    BY <1>1 DEF At
  <2>3. to_client' # <<>> => to_client' = to_client
    BY <1>1
  <2>4. ASSUME At("to_dev"), tool.answer.packets = 0, to_client' # <<>>
        PROVE  Follow(to_client, 1, tool.answer)'
    BY <1>1, <2>3, <2>4 DEF InOrder, Follow, GoesOn
  <2> QED
    BY <1>1, <1>4, <2>1, <2>2, <2>4 DEF InOrder
<1> QED
  BY <1>3, <1>9, <1>10, <1>11, <1>12 DEF Keeps

\* Nothing is on its way.
LEMMA NothingInFlow ==
  ASSUME to_server = <<>>, to_client = <<>>, server.taken = {}, ~At("to_dev"), ~HasRequest
  PROVE  /\ Flow = {} /\ Sent = {} /\ Returned = {} /\ AtDevice = {} /\ Waiting = {}
         /\ Numbered(to_server) /\ Once(to_client) /\ Whole(to_client)
<1>1. Len(<<>>) = 0 /\ 1..0 = {}
  BY EmptySeq
<1> QED
  BY <1>1 DEF Flow, Sent, Returned, AtDevice, Waiting, HeadersOf, ToSet, Numbered, Once, Whole

\* Between two sessions, and at the beginning of one.
Fresh ==
  /\ to_server = <<>> /\ to_client = <<>> /\ server.taken = {}
  /\ ~HasAnswer /\ ~HasRequest
  /\ InSession => /\ \A n \in InTable : n \in leftover
                  /\ \A i \in Slots : out_q_seqnum_array[i] \in leftover \cup {0}

\* With nothing under way no two numbers are alike.
LEMMA FreshKeeps == Fresh => NumbersApart /\ TableTells /\ InOrder
<1> SUFFICES ASSUME Fresh PROVE NumbersApart /\ TableTells /\ InOrder
  OBVIOUS
<1>1. /\ Flow = {} /\ Sent = {} /\ Returned = {} /\ AtDevice = {} /\ Waiting = {}
      /\ Numbered(to_server) /\ Once(to_client) /\ Whole(to_client)
  BY NothingInFlow DEF HasAnswer, Fresh
<1> QED
  BY <1>1 DEF NumbersApart, Apart, TableTells, InOrder, HasAnswer, Fresh

\* A session begins with nothing under way.
LEMMA BeginSessionKeeps ==
  ASSUME Base, BeginSession
  PROVE  Keeps
<1> USE DEF Base
<1>1. /\ At("idle") /\ to_server = <<>> /\ to_client = <<>>
      /\ seq_num' = 0 /\ server'.open /\ server'.taken = {}
      /\ server' \in [open : BOOLEAN, taken : SUBSET Request, seqnum : Nat]
      /\ tool' = [IdleTool EXCEPT !.at = "dev_read"]
      /\ leftover' = {out_q_seqnum_array[i] : i \in Slots} \ {0}
      /\ UNCHANGED <<out_q_seqnum_array, to_server, to_client>>
  BY DEF BeginSession, IdleShape, ConnShape
<1>2. /\ tool' \in ToolState /\ tool'.at = "dev_read" /\ tool'.dev_read = "none"
  BY <1>1 DEF IdleTool, ToolState
<1>3. ~HasRequest' /\ ~HasAnswer' /\ InSession'
  BY <1>2 DEF HasRequest, HasAnswer, InSession, At
<1>4. ToolShape' /\ IdleShape'
  BY <1>2, <1>3 DEF ToolShape, ThreadShape, IdleShape, At, InSession
<1>5. StreamShape'
  BY <1>1, EmptySeq DEF StreamShape, ConnShape
<1>6. /\ \A n \in InTable' : n \in leftover'
      /\ \A i \in Slots : out_q_seqnum_array'[i] \in leftover' \cup {0}
  BY <1>1 DEF InTable
<1>7. (NumbersApart /\ TableTells /\ InOrder)'
  <2>1. Fresh'
    BY <1>1, <1>3, <1>6 DEF Fresh
  <2> QED
    BY <2>1, FreshKeeps, PTL
<1> QED
  BY <1>4, <1>5, <1>7 DEF Keeps

\* It ends with nothing under way.
LEMMA EndSessionKeeps ==
  ASSUME Base, EndSession
  PROVE  Keeps
<1> USE DEF Base
<1>1. /\ tool' = IdleTool /\ ~Present' /\ ioctl_q' = <<>>
      /\ ~server'.open /\ server'.taken = {}
      /\ server' \in [open : BOOLEAN, taken : SUBSET Request, seqnum : Nat]
      /\ to_server' = <<>> /\ to_client' = <<>>
      /\ UNCHANGED out_q_seqnum_array
  BY ClosedServer DEF EndSession
<1>2. /\ tool' \in ToolState /\ tool'.at = "idle" /\ tool'.dev_read = "none"
  BY <1>1 DEF IdleTool, ToolState
<1>3. ~HasRequest' /\ ~HasAnswer' /\ ~InSession'
  BY <1>2 DEF HasRequest, HasAnswer, InSession, At
<1>4. ToolShape' /\ IdleShape'
  BY <1>1, <1>2, <1>3 DEF ToolShape, ThreadShape, IdleShape, At
<1>5. StreamShape'
  <2>1. <<>> \in Seq(Request) /\ <<>> \in Seq(Item)
    BY EmptySeq
  <2> QED
    BY <1>1, <2>1 DEF StreamShape, ConnShape
<1>6. (NumbersApart /\ TableTells /\ InOrder)'
  <2>1. Fresh'
    BY <1>1, <1>3 DEF Fresh
  <2> QED
    BY <2>1, FreshKeeps, PTL
<1> QED
  BY <1>4, <1>5, <1>6 DEF Keeps

(***************************************************************************)
(* What holds whatever the application sends.                              *)
(***************************************************************************)

\* What reading a header does: it fails, finds what is none, or has an answer.
LEMMA SockReadCases ==
  ASSUME Base, SockRead \/ SockEvent
  PROVE  /\ ~HasAnswer
         /\ tool' \in ToolState
         /\ tool'.dev_read = tool.dev_read /\ tool'.request = tool.request
         /\ tool'.at \in {"to_dev", "sock_read", "wait", "over"}
         /\ \/ ~HasAnswer' /\ to_client' = to_client /\ blame \subseteq blame'
            \/ /\ to_client # <<>> /\ Head(to_client).kind # "header"
               /\ to_client' = Tail(to_client) /\ ~HasAnswer' /\ blame' = blame
            \/ /\ to_client # <<>> /\ Head(to_client).kind = "header"
               /\ to_client' = Tail(to_client) /\ blame' = blame
               /\ tool'.at = "to_dev" /\ tool'.answer = Head(to_client).answer
<1> DEFINE none == [tool EXCEPT !.sock_read = "none"]
           pending == [tool EXCEPT !.sock_read = "pending"]
<1>1. tool.at \in {"sock_read", "wait"}
  BY DEF SockRead, SockEvent, At
<1>2. /\ none \in ToolState /\ none.dev_read = tool.dev_read /\ none.request = tool.request
      /\ pending \in ToolState /\ pending.dev_read = tool.dev_read
      /\ pending.request = tool.request
  BY DEF Base, ThreadShape, ToolState
<1>3. ASSUME tool' \in {After(none, FALSE), After(pending, TRUE)}
      PROVE  /\ tool' \in ToolState /\ tool'.at \in {"sock_read", "wait", "over"}
             /\ tool'.dev_read = tool.dev_read /\ tool'.request = tool.request
             /\ ~HasAnswer'
  <2>1. CASE tool' = After(none, FALSE)
    <3> HIDE DEF none, pending
    <3>1. /\ tool' \in ToolState /\ tool'.at \in {"sock_read", "wait", "over"}
          /\ tool'.dev_read = tool.dev_read /\ tool'.request = tool.request
      BY <1>2, <2>1, AfterFacts
    <3> QED
      BY <3>1 DEF HasAnswer, At
  <2>2. CASE tool' = After(pending, TRUE)
    <3> HIDE DEF none, pending
    <3>1. /\ tool' \in ToolState /\ tool'.at \in {"sock_read", "wait", "over"}
          /\ tool'.dev_read = tool.dev_read /\ tool'.request = tool.request
      BY <1>2, <2>2, AfterFacts
    <3> QED
      BY <3>1 DEF HasAnswer, At
  <2> QED
    BY <1>3, <2>1, <2>2
<1>4. \/ ReadsSock(none)
      \/ tool' = After(pending, TRUE) /\ to_client' = to_client /\ blame' = blame
  BY DEF SockRead, SockEvent
<1>5. ASSUME tool' = [none EXCEPT !.at = "to_dev", !.answer = Head(to_client).answer],
             Head(to_client).answer \in Replied
      PROVE  /\ tool' \in ToolState /\ tool'.at = "to_dev"
             /\ tool'.answer = Head(to_client).answer
             /\ tool'.dev_read = tool.dev_read /\ tool'.request = tool.request
  <2> HIDE DEF none
  <2> QED
    BY ZenonT(30), <1>2, <1>5 DEF ToolState
<1>6. to_client # <<>> /\ Head(to_client).kind = "header" => Head(to_client).answer \in Replied
  <2>1. to_client # <<>> => Head(to_client) \in AnyItem
    BY HeadTailProperties DEF Base
  <2> QED
    BY <2>1 DEF AnyItem
<1>7. ~HasAnswer
  BY <1>1 DEF HasAnswer, At
<1> HIDE DEF none, pending
<1>8. CASE ReadsSock(none)
  <2>1. CASE to_client # <<>> /\ to_client' = Tail(to_client) /\ blame' = blame
             /\ tool' = IF Head(to_client).kind = "header"
                        THEN [none EXCEPT !.at = "to_dev", !.answer = Head(to_client).answer]
                        ELSE After(none, FALSE)
    <3>1. CASE Head(to_client).kind = "header"
      BY <1>5, <1>6, <1>7, <2>1, <3>1
    <3>2. CASE Head(to_client).kind # "header"
      BY <1>3, <1>7, <2>1, <3>2
    <3> QED
      BY <3>1, <3>2
  <2>2. CASE tool' = After(none, FALSE) /\ to_client' = to_client /\ blame \subseteq blame'
    BY <1>3, <1>7, <2>2
  <2> QED
    BY <1>8, <2>1, <2>2 DEF ReadsSock, Blame
<1> QED
  BY <1>3, <1>4, <1>7, <1>8

\* A quiet step keeps the shapes.
LEMMA QuietKeepsBase ==
  ASSUME Base, Quiet, DriverShape'
  PROVE  Base'
<1> USE DEF Base
<1>1. /\ UNCHANGED <<out_q_seqnum_array, to_server, to_client, server>> /\ InSession'
  BY DEF Quiet, streamVars
<1>2. HasRequest' => tool'.request \in Request
  BY DEF Quiet, ThreadShape
<1>3. HasAnswer' => tool'.answer \in Replied
  BY DEF Quiet, HasAnswer, At
<1> QED
  BY <1>1, <1>2, <1>3 DEF Quiet, ThreadShape, ConnShape, IdleShape, InSession, At

\* So does a return from a call, with whatever is left on the stream.
LEMMA ReturnKeepsBase ==
  ASSUME Base, DriverShape', ConnShape', to_client' \in Seq(AnyItem), tool' \in ToolState,
         tool'.at \in {"dev_read", "sock_read", "wait", "over", "to_dev", "data"},
         tool'.at = "dev_read" => tool'.dev_read = "none",
         tool'.dev_read = "done" => tool'.request \in Request,
         tool'.at \in {"to_dev", "data"} => tool'.answer \in Replied
  PROVE  Base'
<1>1. /\ HasRequest' => tool'.request \in Request
      /\ HasAnswer' => tool'.answer \in Replied
      /\ ~At("idle")'
  BY DEF HasRequest, HasAnswer, At
<1>2. ThreadShape' /\ IdleShape'
  BY <1>1 DEF ThreadShape, IdleShape
<1> QED
  BY <1>1, <1>2 DEF Base

\* Passing a request on does.
LEMMA WriteToSockKeepsBase ==
  ASSUME Base, WriteToSock, DriverShape'
  PROVE  Base'
<1> USE DEF Base
<1> DEFINE q == tool.request
           t == [tool EXCEPT !.request = NULL]
<1>1. /\ tool.at = "to_sock" /\ tool.dev_read = "none" /\ q \in Request /\ q.num \in Nat
      /\ UNCHANGED <<to_client, server>>
  BY RequestIsPassed DEF WriteToSock, ThreadShape, HasRequest, At
<1>2. tool' = After(t, FALSE) \/ tool' = [tool EXCEPT !.at = "dev_read", !.request = NULL]
  BY DEF WriteToSock
<1>3. /\ tool' \in ToolState /\ tool'.dev_read = "none"
      /\ tool'.at \in {"dev_read", "sock_read", "wait", "over"}
  <2>1. t \in ToolState /\ t.dev_read = "none"
    BY <1>1 DEF ThreadShape, ToolState
  <2>2. CASE tool' = After(t, FALSE)
    <3> HIDE DEF t
    <3> QED
      BY <2>1, <2>2, AfterFacts
  <2>3. CASE tool' = [tool EXCEPT !.at = "dev_read", !.request = NULL]
    BY <1>1, <2>3 DEF ThreadShape, ToolState
  <2> QED
    BY <1>2, <2>2, <2>3
<1>4. out_q_seqnum_array' \in {out_q_seqnum_array, record_out(q.num)}
  BY DEF WriteToSock
<1>5. to_server' \in {to_server, Append(to_server, q)}
  BY DEF WriteToSock
<1> HIDE DEF q
<1>6. out_q_seqnum_array' \in [Slots -> Nat]
  BY <1>1, <1>4 DEF record_out, ConnShape
<1>7. to_server' \in Seq(Request)
  <2>1. to_server \in Seq(Request)
    BY DEF ConnShape
  <2> QED
    BY <1>1, <1>5, <2>1, AppendProperties
<1>8. ConnShape'
  BY <1>1, <1>6, <1>7 DEF ConnShape
<1>9. to_client' \in Seq(AnyItem)
  BY <1>1
<1> QED
  BY <1>3, <1>8, <1>9, ReturnKeepsBase

\* Reading a header does.
LEMMA SockReadKeepsBase ==
  ASSUME Base, SockRead \/ SockEvent, DriverShape'
  PROVE  Base'
<1> USE DEF Base
<1>1. UNCHANGED <<out_q_seqnum_array, to_server, server>>
  BY DEF SockRead, SockEvent
<1>2. /\ tool' \in ToolState
      /\ tool'.dev_read = tool.dev_read /\ tool'.request = tool.request
      /\ tool'.at \in {"to_dev", "sock_read", "wait", "over"}
      /\ HasAnswer' => tool'.answer \in Replied
      /\ to_client' = to_client \/ (to_client # <<>> /\ to_client' = Tail(to_client))
  <2>1. to_client # <<>> /\ Head(to_client).kind = "header" => Head(to_client).answer \in Replied
    <3>1. to_client # <<>> => Head(to_client) \in AnyItem
      BY HeadTailProperties
    <3> QED
      BY <3>1 DEF AnyItem
  <2> QED
    BY <2>1, SockReadCases
<1>3. to_client' \in Seq(AnyItem)
  BY <1>2, HeadTailProperties
<1>4. ConnShape'
  BY <1>1 DEF ConnShape
<1>5. tool'.dev_read = "done" => tool'.request \in Request
  BY <1>2 DEF ThreadShape, HasRequest
<1>6. tool'.at \in {"to_dev", "data"} => tool'.answer \in Replied
  BY <1>2 DEF HasAnswer, At
<1> QED
  BY <1>2, <1>3, <1>4, <1>5, <1>6, ReturnKeepsBase

\* Giving the driver an answer does, with its data or before.
LEMMA WriteToDevKeepsBase ==
  ASSUME Base, WriteToDev, DriverShape'
  PROVE  Base'
<1> USE DEF Base
<1> DEFINE a == tool.answer
           f == Follows(a, Recorded(a.num) # {})
           t == [tool EXCEPT !.answer = NULL]
<1>1. /\ tool.at = "to_dev" /\ UNCHANGED <<to_server, to_client, server>>
      /\ out_q_seqnum_array' = check_out(a.num) /\ tool \in ToolState
  BY DEF WriteToDev, At, streamVars, ThreadShape
<1>2. a \in Replied
  BY <1>1 DEF HasAnswer, At
<1>3. f \in Nat
  <2> DEFINE out == Recorded(a.num) # {}
  <2>1. out \in BOOLEAN
    OBVIOUS
  <2> HIDE DEF out, a
  <2>2. Follows(a, out) \in Nat
    BY <1>2, <2>1, RepliedFacts
  <2> QED
    BY <2>2 DEF out
<1>4. \/ GivesDevice(a, HEADER)
      \/ tool' = After(t, FALSE)
      \/ tool' = [tool EXCEPT !.at = "data", !.need = f, !.left = f]
  BY DEF WriteToDev
<1> HIDE DEF f
<1>5. /\ tool' \in ToolState /\ tool'.at \in {"data", "sock_read", "wait", "over"}
      /\ tool'.dev_read = tool.dev_read /\ tool'.request = tool.request
      /\ tool'.at = "data" => tool'.answer = a
  <2>1. CASE GivesDevice(a, HEADER)
    <3> HIDE DEF a
    <3>1. /\ tool' \in ToolState /\ tool'.at \in {"sock_read", "wait", "over"}
          /\ tool'.dev_read = tool.dev_read /\ tool'.request = tool.request
      BY <1>1, <2>1, GivesDeviceReturns
    <3> QED
      BY <3>1
  <2>2. CASE tool' = After(t, FALSE)
    <3>1. t \in ToolState /\ t.dev_read = tool.dev_read /\ t.request = tool.request
      BY <1>1 DEF ToolState
    <3> HIDE DEF t
    <3>2. /\ tool' \in ToolState /\ tool'.at \in {"sock_read", "wait", "over"}
          /\ tool'.dev_read = tool.dev_read /\ tool'.request = tool.request
      BY <2>2, <3>1, AfterFacts
    <3> QED
      BY <3>2
  <2>3. CASE tool' = [tool EXCEPT !.at = "data", !.need = f, !.left = f]
    BY <1>1, <1>3, <2>3 DEF ToolState
  <2> QED
    BY <1>4, <2>1, <2>2, <2>3
<1>6. tool'.dev_read = "done" => tool'.request \in Request
  BY <1>5 DEF ThreadShape, HasRequest
<1>7. ConnShape'
  BY <1>1 DEF ConnShape, check_out
<1>8. to_client' \in Seq(AnyItem)
  BY <1>1
<1> QED
  BY <1>2, <1>5, <1>6, <1>7, <1>8, ReturnKeepsBase

\* Reading its data does, whatever they are.
LEMMA WriteToDevDataKeepsBase ==
  ASSUME Base, WriteToDevData, DriverShape'
  PROVE  Base'
<1> USE DEF Base
<1> DEFINE e == Head(to_client)
           size == SizeOf(e)
           rest == [kind |-> "data", bytes |-> size - tool.left]
           t == [tool EXCEPT !.answer = NULL, !.need = 0, !.left = 0]
<1>1. /\ tool.at = "data" /\ UNCHANGED <<out_q_seqnum_array, to_server, server>>
      /\ tool \in ToolState /\ tool.left \in Nat
  BY DEF WriteToDevData, At, ThreadShape, ToolState
<1>2. tool.answer \in Replied
  BY <1>1 DEF HasAnswer, At
<1>3. \/ to_client' = to_client /\ tool' = After(t, FALSE)
      \/ /\ to_client # <<>> /\ size < tool.left /\ to_client' = Tail(to_client)
         /\ tool' = [tool EXCEPT !.left = tool.left - size]
      \/ /\ to_client # <<>> /\ size >= tool.left
         /\ to_client' = (IF size = tool.left THEN <<>> ELSE <<rest>>) \o Tail(to_client)
         /\ GivesDevice(tool.answer, HEADER + tool.need)
  BY DEF WriteToDevData
<1>4. to_client # <<>> => size \in Nat /\ Tail(to_client) \in Seq(AnyItem)
  <2>1. to_client # <<>> => e \in AnyItem /\ Tail(to_client) \in Seq(AnyItem)
    BY HeadTailProperties
  <2> QED
    BY <2>1, PduAssumption DEF SizeOf, AnyItem
<1> HIDE DEF size
<1>5. to_client' \in Seq(AnyItem)
  <2>1. CASE to_client' = to_client
    BY <2>1
  <2>2. CASE to_client # <<>> /\ to_client' = Tail(to_client)
    BY <1>4, <2>2
  <2>3. CASE /\ to_client # <<>> /\ size >= tool.left
             /\ to_client' = (IF size = tool.left THEN <<>> ELSE <<rest>>) \o Tail(to_client)
    <3>1. rest \in AnyItem
      BY <1>1, <1>4, <2>3 DEF AnyItem
    <3> DEFINE first == IF size = tool.left THEN <<>> ELSE <<rest>>
    <3> HIDE DEF rest
    <3>2. first \in Seq(AnyItem)
      BY <3>1, EmptySeq
    <3>3. to_client' = first \o Tail(to_client)
      BY <2>3
    <3> HIDE DEF first
    <3> QED
      BY <1>4, <2>3, <3>2, <3>3, ConcatProperties
  <2> QED
    BY <1>3, <2>1, <2>2, <2>3
<1>6. /\ tool' \in ToolState /\ tool'.at \in {"data", "sock_read", "wait", "over"}
      /\ tool'.dev_read = tool.dev_read /\ tool'.request = tool.request
      /\ tool'.at = "data" => tool'.answer = tool.answer
  <2>1. CASE GivesDevice(tool.answer, HEADER + tool.need)
    <3>1. /\ tool' \in ToolState /\ tool'.at \in {"sock_read", "wait", "over"}
          /\ tool'.dev_read = tool.dev_read /\ tool'.request = tool.request
      BY <1>1, <2>1, GivesDeviceReturns
    <3> QED
      BY <3>1
  <2>2. CASE tool' = After(t, FALSE)
    <3>1. t \in ToolState /\ t.dev_read = tool.dev_read /\ t.request = tool.request
      BY <1>1 DEF ToolState
    <3> HIDE DEF t
    <3>2. /\ tool' \in ToolState /\ tool'.at \in {"sock_read", "wait", "over"}
          /\ tool'.dev_read = tool.dev_read /\ tool'.request = tool.request
      BY <2>2, <3>1, AfterFacts
    <3> QED
      BY <3>2
  <2>3. CASE /\ to_client # <<>> /\ size < tool.left
             /\ tool' = [tool EXCEPT !.left = tool.left - size]
    <3> DEFINE m == tool.left - size
    <3>1. m \in Nat
      BY <1>1, <1>4, <2>3
    <3>2. tool' = [tool EXCEPT !.left = m]
      BY <2>3
    <3> HIDE DEF m
    <3> QED
      BY <1>1, <3>1, <3>2 DEF ToolState
  <2> QED
    BY <1>3, <2>1, <2>2, <2>3
<1>7. tool'.dev_read = "done" => tool'.request \in Request
  BY <1>6 DEF ThreadShape, HasRequest
<1>8. ConnShape'
  BY <1>1 DEF ConnShape
<1> QED
  BY <1>2, <1>5, <1>6, <1>7, <1>8, ReturnKeepsBase

\* An answer of whatever kind is items.
LEMMA AnsweredIsItems ==
  ASSUME NEW a \in Replied, NEW s \in Seq(AnyItem)
  PROVE  s \o Answered(a) \in Seq(AnyItem)
<1> DEFINE h == [kind |-> "header", answer |-> a]
<1>1. h \in AnyItem
  BY DEF AnyItem
<1>2. \A n \in Nat : Data(n) \in Seq(AnyItem)
  <2> SUFFICES ASSUME NEW n \in Nat PROVE Data(n) \in Seq(AnyItem)
    OBVIOUS
  <2>1. [kind |-> "data", bytes |-> n] \in AnyItem
    BY DEF AnyItem
  <2> QED
    BY <2>1, EmptySeq DEF Data
<1>3. a.data \in Nat /\ a.descs \in Nat
  BY RepliedFacts
<1> DEFINE d1 == Data(a.data)
           d2 == Data(a.descs)
<1>4. d1 \in Seq(AnyItem) /\ d2 \in Seq(AnyItem)
  BY <1>2, <1>3
<1>5. Answered(a) = (<<h>> \o d1) \o d2
  BY DEF Answered
<1> HIDE DEF h, d1, d2
<1>6. <<h>> \in Seq(AnyItem)
  BY <1>1
<1>7. <<h>> \o d1 \in Seq(AnyItem)
  BY <1>4, <1>6, ConcatProperties
<1>8. (<<h>> \o d1) \o d2 \in Seq(AnyItem)
  BY <1>4, <1>7, ConcatProperties
<1> QED
  BY <1>5, <1>8, ConcatProperties

\* What the server does keeps the shapes.
LEMMA ServerKeepsBase ==
  ASSUME Base, ServerReceives \/ ServerAnswers \/ ServerLeaves, DriverShape'
  PROVE  Base'
<1> USE DEF Base
<1> DEFINE T == [open : BOOLEAN, taken : SUBSET Request, seqnum : Nat]
<1>1. /\ server.open /\ UNCHANGED <<tool, out_q_seqnum_array>> /\ ~At("idle") /\ server \in T
  BY DEF ServerReceives, ServerAnswers, ServerLeaves, IdleShape, ConnShape
<1>2. /\ server' \in T /\ (~server'.open => server'.taken = {})
      /\ to_server' \in Seq(Request) /\ to_client' \in Seq(AnyItem)
  <2>1. CASE ServerReceives
    <3> DEFINE q == Head(to_server)
    <3>1. to_server' \in Seq(Request) /\ q \in Request
      BY <2>1, HeadTailProperties DEF ServerReceives, ConnShape
    <3>2. \/ server' = [server EXCEPT !.taken = @ \cup {q}] /\ to_client' = to_client
          \/ /\ Special(q) /\ server' = server
             /\ to_client' = to_client \o Answered(SpecialReply(q))
          \/ server' = Closed /\ to_client' = to_client
      BY <2>1 DEF ServerReceives
    <3> HIDE DEF q
    <3>3. server' \in T /\ (~server'.open => server'.taken = {})
      BY <1>1, <3>1, <3>2, ClosedServer
    <3>4. Special(q) => SpecialReply(q) \in Replied
      BY <3>1 DEF Replied
    <3>5. to_client' \in Seq(AnyItem)
      BY <3>2, <3>4, AnsweredIsItems
    <3> QED
      BY <3>1, <3>3, <3>5
  <2>2. CASE ServerAnswers
    <3> DEFINE n == server.seqnum + 1
               due == {q \in server.taken : q.num = n}
    <3>1. PICK d \in DeviceUrbs :
            /\ to_client' = to_client \o Answered(Reply(n, d))
            /\ server' = [server EXCEPT !.seqnum = n, !.taken = @ \ due]
      BY <2>2 DEF ServerAnswers
    <3>2. n \in Nat /\ d \in DeviceUrb
      BY <1>1, ForwardAssumption
    <3>3. to_server' \in Seq(Request)
      BY <2>2 DEF ServerAnswers, ConnShape
    <3>4. Reply(n, d) \in Replied
      BY <3>2 DEF Replied
    <3> DEFINE r == Reply(n, d)
    <3> HIDE DEF n, due
    <3>5. server' \in T /\ server'.open
      BY <1>1, <3>1, <3>2
    <3>6. r \in Replied /\ to_client' = to_client \o Answered(r)
      BY <3>1, <3>4
    <3> HIDE DEF r
    <3>7. to_client' \in Seq(AnyItem)
      BY <3>6, AnsweredIsItems
    <3> QED
      BY <3>3, <3>5, <3>7
  <2>3. CASE ServerLeaves
    BY <2>3, ClosedServer, EmptySeq DEF ServerLeaves, ConnShape
  <2> QED
    BY <2>1, <2>2, <2>3
<1>3. ConnShape'
  BY <1>1, <1>2 DEF ConnShape
<1> QED
  BY <1>1, <1>2, <1>3 DEF ThreadShape, IdleShape, HasRequest, HasAnswer, At

\* So does each step.
LEMMA BaseStep ==
  ASSUME Base, ForwardNext
  PROVE  Base'
<1>1. DriverShape'
  BY DriverKept DEF Base
<1>2. CASE DevRead \/ SubmitUrb \/ CancelUrb \/ Unplug \/ CtrlC \/ Timeout \/ DevEvent
  BY <1>1, <1>2, QuietKeepsBase, DevReadIsQuiet, SubmitUrbIsQuiet, OthersAreQuiet
<1>3. CASE BeginSession \/ EndSession
  <2>1. Keeps /\ tool'.at \in {"dev_read", "idle"} /\ to_client' = <<>>
    <3>1. CASE BeginSession
      <4>1. to_client' = to_client /\ tool' = [IdleTool EXCEPT !.at = "dev_read"] /\ At("idle")
        BY <3>1 DEF BeginSession
      <4>2. to_client = <<>>
        BY <4>1 DEF Base, IdleShape
      <4> QED
        BY <3>1, <4>1, <4>2, BeginSessionKeeps DEF IdleTool
    <3>2. CASE EndSession
      BY <3>2, EndSessionKeeps DEF EndSession, IdleTool
    <3> QED
      BY <1>3, <3>1, <3>2
  <2>2. ~HasAnswer'
    BY <2>1 DEF HasAnswer, At
  <2> QED
    BY <1>1, <2>1, <2>2, EmptySeq DEF Base, Keeps, ToolShape, StreamShape
<1> QED
  BY <1>1, <1>2, <1>3, WriteToSockKeepsBase, SockReadKeepsBase, WriteToDevKeepsBase,
     WriteToDevDataKeepsBase, ServerKeepsBase
     DEF ForwardNext, usbip_vbus_forward, Surroundings

\* Within a session, blame is only added to, and only reading data swallows any.
LEMMA BlameGrows ==
  ASSUME Base, ForwardNext, ~BeginSession, ~EndSession
  PROVE  /\ blame \subseteq blame'
         /\ "swallowed" \in blame' => "swallowed" \in blame \/ WriteToDevData
<1>1. CASE SubmitUrb \/ DevRead
  <2>1. blame' = blame \/ Blame("disturbed")
    BY <1>1 DEF SubmitUrb, DevRead
  <2> QED
    BY <2>1 DEF Blame
<1>2. CASE CancelUrb \/ Unplug \/ CtrlC \/ Timeout \/ DevEvent
  BY <1>2 DEF CancelUrb, Unplug, CtrlC, Timeout, DevEvent, Blame
<1>3. CASE WriteToSock
  <2>1. blame' = blame \/ blame' = blame \cup {"disturbed"}
    BY <1>3 DEF WriteToSock
  <2> QED
    BY <2>1
<1>4. CASE SockRead \/ SockEvent
  BY <1>4 DEF SockRead, SockEvent, ReadsSock, Blame
<1>5. CASE WriteToDev
  BY <1>5 DEF WriteToDev, Blame
<1>6. CASE WriteToDevData
  BY <1>6 DEF WriteToDevData, Blame
<1>7. CASE ServerReceives \/ ServerAnswers \/ ServerLeaves
  BY <1>7 DEF ServerReceives, ServerAnswers, ServerLeaves, Blame
<1> QED
  BY <1>1, <1>2, <1>3, <1>4, <1>5, <1>6, <1>7
     DEF ForwardNext, usbip_vbus_forward, Surroundings

(***************************************************************************)
(* The invariant, and the properties that follow from it.                  *)
(***************************************************************************)

\* What is proved by induction: while no answer was astray or swallowed, the two ends and
\* the tool keep the requests of a session apart, and the table tells which of them bring
\* no data back.
ForwardInv == Base /\ (Trusting => SessionInv)

\* A step within a session, or at its ends, keeps what is told of it.
LEMMA SessionStep ==
  ASSUME ForwardInv, ForwardNext, Trusting'
  PROVE  SessionInv'
<1> USE DEF ForwardInv
<1>1. DriverShape'
  BY DriverKept DEF Base
<1>2. Keeps
  <2>1. CASE BeginSession \/ EndSession
    BY <2>1, BeginSessionKeeps, EndSessionKeeps
  <2>2. CASE ~BeginSession /\ ~EndSession
    <3>1. SessionInv
      BY <2>2, BlameGrows DEF Trusting, Undisturbed
    <3>2. CASE DevRead \/ SubmitUrb \/ CancelUrb \/ Unplug \/ CtrlC \/ Timeout \/ DevEvent
      BY <3>1, <3>2, QuietIsKept, DevReadIsQuiet, SubmitUrbIsQuiet, OthersAreQuiet
    <3>3. CASE ServerReceives
      BY <3>1, <3>3, ServerReceivesCases, ServerReceivesKeeps, ComesKeeps
    <3>4. CASE ServerAnswers
      BY <3>1, <3>4, AnswerComes, ComesKeeps
    <3> QED
      BY <2>2, <3>1, <3>2, <3>3, <3>4, WriteToSockKeeps, SockReadKeeps, WriteToDevKeeps,
         WriteToDevDataKeeps, ServerLeavesKeeps
         DEF ForwardNext, usbip_vbus_forward, Surroundings
  <2> QED
    BY <2>1, <2>2
<1> QED
  BY <1>1, <1>2 DEF Keeps, SessionInv, Shapes

\* Whatever the application sends, the shapes stay; and as long as each of its answers is
\* that to the request of its number, each request is in one place, and the table tells
\* which of them bring no data back.
THEOREM ForwardIsInvariant == ForwardSpec => []ForwardInv
<1>1. ForwardInit => ForwardInv
  <2> SUFFICES ASSUME ForwardInit PROVE ForwardInv
    OBVIOUS
  <2>1. /\ Present = FALSE /\ ioctl_q = <<>> /\ seq_num = 0
        /\ tool = IdleTool
        /\ out_q_seqnum_array = [i \in Slots |-> 0]
        /\ to_server = <<>> /\ to_client = <<>>
        /\ server = [open |-> FALSE, taken |-> {}, seqnum |-> 0]
    BY DEF ForwardInit
  <2>2. /\ tool \in ToolState /\ tool.at = "idle" /\ tool.dev_read = "none"
    BY <2>1 DEF IdleTool, ToolState
  <2>3. ~HasRequest /\ ~HasAnswer /\ ~InSession
    BY <2>2 DEF HasRequest, HasAnswer, InSession, At
  <2>4. ToolShape /\ IdleShape
    BY <2>1, <2>2, <2>3 DEF ToolShape, ThreadShape, IdleShape, At
  <2>5. /\ <<>> \in Seq(Request) /\ <<>> \in Seq(Item) /\ <<>> \in Seq(AnyItem)
        /\ <<>> \in Seq([urb : Urbs, num : Nat])
    BY EmptySeq
  <2>6. StreamShape /\ DriverShape
    BY <2>1, <2>5 DEF StreamShape, ConnShape, DriverShape
  <2>7. Fresh
    BY <2>1, <2>3 DEF Fresh
  <2>8. Base
    BY <2>1, <2>3, <2>4, <2>5, <2>6 DEF Base, ToolShape, StreamShape
  <2>9. SessionInv
    BY <2>4, <2>6, <2>7, FreshKeeps DEF SessionInv, Shapes
  <2> QED
    BY <2>8, <2>9 DEF ForwardInv
<1>2. ForwardInv /\ [ForwardNext]_forwardVars => ForwardInv'
  <2> SUFFICES ASSUME ForwardInv, [ForwardNext]_forwardVars PROVE ForwardInv'
    OBVIOUS
  <2>1. CASE UNCHANGED forwardVars
    <3>1. UNCHANGED <<Present, ioctl_q, seq_num, tool, out_q_seqnum_array, to_server,
                      to_client, server, leftover, blame>>
      BY <2>1 DEF forwardVars, driverVars, streamVars, envVars
    <3>2. (Shapes <=> Shapes') /\ (InOrder <=> InOrder')
      BY <3>1 DEF Shapes, ToolShape, ThreadShape, DriverShape, StreamShape, ConnShape,
                  IdleShape, At, HasRequest, HasAnswer, InOrder, Whole, Follow, GoesOn
    <3>3. (NumbersApart <=> NumbersApart') /\ (TableTells <=> TableTells')
      BY <3>1 DEF NumbersApart, TableTells, Waiting, Sent, Returned, AtDevice, Flow,
                  Numbered, Once, Apart, HeadersOf, HasRequest, At, InTable, InSession
    <3>4. (Base <=> Base') /\ (Trusting <=> Trusting')
      BY <3>1 DEF Base, ThreadShape, DriverShape, ConnShape, IdleShape, At, HasRequest,
                  HasAnswer, Trusting, Undisturbed
    <3> QED
      BY <3>2, <3>3, <3>4 DEF ForwardInv, SessionInv
  <2>2. CASE ForwardNext
    BY <2>2, BaseStep, SessionStep DEF ForwardInv
  <2> QED
    BY <2>1, <2>2
<1> QED
  BY <1>1, <1>2, PTL DEF ForwardSpec

\* Driver, tool and server measure every request alike: write_to_sock lets nothing pass
\* that leaves the server amid a request.
THEOREM AllMeasureAlike == ForwardSpec => []FramesAgree
<1>1. ForwardInv => FramesAgree
  <2> SUFFICES ASSUME ForwardInv, NEW i \in 1..Len(to_server)
               PROVE  /\ ToolPasses(to_server[i])
                      /\ to_server[i].size = ServerReads(to_server[i])
    BY DEF FramesAgree
  <2>1. to_server[i] \in Request
    BY DEF ForwardInv, Base, ConnShape
  <2> QED
    BY <2>1, RequestIsPassed
<1> QED
  BY <1>1, ForwardIsInvariant, PTL

\* The slots of a table without duplicates are as many as its numbers.
LEMMA SlotsInUse ==
  ASSUME out_q_seqnum_array \in [Slots -> Nat],
         \A i, j \in Slots : /\ out_q_seqnum_array[i] = out_q_seqnum_array[j]
                             /\ out_q_seqnum_array[i] # 0
                             => i = j
  PROVE  Cardinality(InTable) = Cardinality(Slots \ Recorded(0))
<1> DEFINE used == Slots \ Recorded(0)
           f == [i \in used |-> out_q_seqnum_array[i]]
<1>1. used = {i \in Slots : out_q_seqnum_array[i] # 0}
  BY DEF Recorded
<1>2. f \in Bijection(used, InTable)
  <2>1. \A i \in used : f[i] = out_q_seqnum_array[i] /\ f[i] # 0 /\ f[i] \in InTable
    BY <1>1 DEF InTable
  <2>2. f \in [used -> InTable]
    BY <2>1
  <2>3. \A i, j \in used : f[i] = f[j] => i = j
    BY <1>1, <2>1
  <2>4. \A n \in InTable : \E i \in used : f[i] = n
    BY <1>1, <2>1 DEF InTable
  <2> HIDE DEF f, used
  <2>5. f \in Injection(used, InTable)
    BY <2>2, <2>3 DEF Injection, IsInjective
  <2>6. f \in Surjection(used, InTable)
    BY <2>2, <2>4 DEF Surjection
  <2> QED
    BY <2>5, <2>6 DEF Bijection
<1>3. IsFiniteSet(used)
  <2>1. IsFiniteSet(Slots)
    BY ForwardAssumption, FS_Interval DEF Slots
  <2> QED
    BY <2>1, FS_Subset
<1> HIDE DEF f, used
<1>4. ExistsBijection(used, InTable)
  BY <1>2 DEF ExistsBijection
<1>5. Cardinality(InTable) = Cardinality(used)
  BY <1>3, <1>4, FS_Bijection
<1> QED
  BY <1>5 DEF used

\* While the server is there, out_q_seqnum_array tells for each answer on its way whether
\* data follow it, but for the numbers that an earlier session left there; no slot is lost;
\* as long as no answer was astray or swallowed.
THEOREM TableIsExact == ForwardSpec => []OutTableIsExact
<1>1. ForwardInv => OutTableIsExact
  <2> SUFFICES ASSUME ForwardInv, Trusting, InSession, server.open
               PROVE  /\ OutOutstanding \subseteq InTable
                      /\ InTable \subseteq OutOutstanding \cup leftover
                      /\ leftover = {} => Cardinality(InTable) = Cardinality(Slots \ Recorded(0))
    BY DEF OutTableIsExact, Trusting
  <2> USE DEF ForwardInv, SessionInv, Shapes
  <2>1. OutOutstanding = {q.num : q \in {r \in Flow : ~r.in}}
    <3>1. Headers = Returned
      BY DEF Headers, Returned, HeadersOf
    <3> QED
      BY <3>1, Zenon DEF OutOutstanding, Flow, Sent, AtDevice
  <2>2. OutOutstanding \subseteq InTable
    BY <2>1 DEF TableTells
  <2>3. InTable \subseteq OutOutstanding \cup leftover
    BY <2>1 DEF TableTells
  <2>4. ASSUME leftover = {}
        PROVE  Cardinality(InTable) = Cardinality(Slots \ Recorded(0))
    <3>1. \A i, j \in Slots : /\ out_q_seqnum_array[i] = out_q_seqnum_array[j]
                              /\ out_q_seqnum_array[i] # 0
                              => i = j
      BY <2>4 DEF TableTells
    <3> QED
      BY <3>1, SlotsInUse DEF StreamShape, ConnShape
  <2> QED
    BY <2>2, <2>3, <2>4
<1> QED
  BY <1>1, ForwardIsInvariant, PTL

(***************************************************************************)
(* The frames of the stream, for URBs that are Manageable.                 *)
(***************************************************************************)

\* The tool's buffer holds a manageable answer.
LEMMA AnswerFits ==
  ASSUME Manageable, NEW a \in Answers, a.data # 0
  PROVE  HEADER + a.data <= BIG_SIZE
<1>1. PICK q \in Request : a \in AnswerTo(q)
  BY DEF Answers
<1>2. PICK u \in Encodables, n \in Nat \ {0} : q = Encode(u, n)
  BY DEF Request
<1>3. q.in = DirIn(u) /\ q.length = Asks(u)
  BY <1>2, RequestFacts
<1>4. /\ a.in = q.in /\ a.actual \in Nat /\ a.actual <= q.length
      /\ a.data = (IF a.in THEN a.actual ELSE 0) /\ q.length \in Nat
  BY <1>1, AnswerFacts, RequestIsPassed
<1>5. DirIn(u) /\ a.data \in Nat /\ Asks(u) \in Nat /\ a.data <= Asks(u)
  BY <1>3, <1>4
<1>6. HEADER + Asks(u) <= BIG_SIZE
  BY <1>5 DEF Manageable
<1> QED
  BY <1>5, <1>6, PduAssumption

\* The driver takes an answer that was read with as many bytes as belong to it.
LEMMA AnswerDecodes ==
  ASSUME Manageable, NEW u \in Encodables, NEW n \in Nat \ {0},
         NEW a \in AnswerTo(Encode(u, n)), a.packets = 0
  PROVE  Decodable(u, a, HEADER + a.data)
<1> DEFINE q == Encode(u, n)
<1>1. /\ q.in = DirIn(u) /\ q.length = Asks(u) /\ q.length \in Nat
      /\ q.packets = u.packets /\ q.packets \in Nat
      /\ q.type = "iso" <=> u.fn = "iso"
      /\ q.packets > 0 <=> u.fn = "iso"
  BY RequestFacts
<1>2. q \in Request
  BY DEF Request
<1> HIDE DEF q
<1>3. /\ a.in = q.in /\ a.actual \in Nat /\ a.actual <= q.length /\ a.packets = IsoPackets(q)
      /\ a.data = (IF a.in THEN a.actual ELSE 0)
  BY <1>2, AnswerFacts DEF q
<1>4. u.fn # "iso" /\ u.packets = 0
  BY <1>1, <1>3 DEF IsoPackets
<1>5. a.actual <= Asks(u) /\ a.actual \in Nat
  BY <1>1, <1>3
<1>6. HEADER + a.data = HEADER + (IF DirIn(u) THEN a.actual ELSE 0) + u.packets * ISO_DESC
  <2>1. u.packets * ISO_DESC = 0
    BY <1>4, PduAssumption, Product
  <2>2. a.data = (IF DirIn(u) THEN a.actual ELSE 0) /\ a.data \in Nat
    BY <1>1, <1>3, <1>5
  <2> QED
    BY <2>1, <2>2, PduAssumption
<1>7. u.fn = "select_interface" => u.known
  BY DEF Manageable
<1>8. DirIn(u) => u.mapped
  BY DEF Manageable
<1> QED
  BY <1>4, <1>5, <1>6, <1>7, <1>8 DEF Decodable

\* Of an answer that is neither isochronous nor taken for one of an earlier session,
\* write_to_dev reads just what belongs to it.
LEMMA ReadsWhatFollows ==
  ASSUME SessionInv, tool.at = "to_dev",
         tool.answer.num \notin leftover, tool.answer.packets = 0
  PROVE  Follows(tool.answer, Recorded(tool.answer.num) # {}) = tool.answer.data
<1> USE DEF SessionInv, Shapes
<1> DEFINE a == tool.answer
           out == Recorded(a.num) # {}
<1>1. /\ a \in Answers /\ a \in Flow /\ a.num \in Nat \ {0} /\ (~a.in => out)
  BY AnswerAtDevice
<1>2. /\ a.in \in BOOLEAN /\ a.actual \in Nat /\ a.actual < Word /\ IsoLen(a) = 0
      /\ a.data = (IF a.in THEN a.actual ELSE 0)
  BY <1>1, AnswerIsTyped
<1>3. out => ~a.in
  <2>1. out => a.num \in InTable
    BY <1>1 DEF InTable, Recorded
  <2>2. a.num \in InTable => ~a.in
    BY <1>1 DEF TableTells, InSession, At
  <2> QED
    BY <2>1, <2>2
<1>4. Follows(a, out) = Wrapped((IF out THEN 0 ELSE a.actual) + IsoLen(a))
  BY DEF Follows
<1> HIDE DEF a, out
<1>5. Follows(a, out) = a.data
  <2>1. a.data = (IF out THEN 0 ELSE a.actual)
    BY <1>1, <1>2, <1>3
  <2>2. a.data \in Nat /\ a.data < Word
    BY <1>2, WordFacts
  <2>3. a.data + IsoLen(a) = a.data
    BY <1>2, <2>2
  <2>4. Wrapped(a.data) = a.data
    BY <2>2, WordFacts
  <2> QED
    BY <1>4, <2>1, <2>3, <2>4
<1> QED
  BY <1>5 DEF a, out

\* Such an answer is not too big.
LEMMA NotTooBig ==
  ASSUME Manageable, NEW a \in Answers, a.data # 0, NEW out, Follows(a, out) = a.data
  PROVE  ~TooBig(a, out)
<1> DEFINE size == HEADER + a.data
<1>1. size <= BIG_SIZE
  BY AnswerFits
<1>2. size \in Nat /\ BIG_SIZE \in Nat
  BY AnswerIsTyped, PduAssumption
<1> HIDE DEF size
<1>3. /\ Wrapped(size) \in Nat /\ Wrapped(size) <= size
      /\ Signed(Wrapped(size)) <= Wrapped(size)
  BY <1>2, WordFacts
<1>4. Signed(Wrapped(size)) \in Int
  BY <1>3, WordFacts DEF Signed
<1>5. ~(Signed(Wrapped(size)) > BIG_SIZE)
  BY <1>1, <1>2, <1>3, <1>4
<1> QED
  BY <1>5 DEF TooBig, size

\* The thread stands at a header when it holds no answer, and before the data of the answer
\* whose data it is to read.
InFrame ==
  /\ ~HasAnswer => GoesOn(to_client, 1)
  /\ At("data") =>
       /\ tool.answer.packets = 0 /\ tool.need = tool.answer.data
       /\ to_client # <<>> => Follow(to_client, 1, tool.answer)

\* It does unless it was disturbed in one of three ways; and then it swallows nothing.
Straight == Undisturbed({"misread", "cut", "astray"})

Frame == Straight => "swallowed" \notin blame /\ InFrame

\* A step that leaves the stream and the tool's answer alone keeps the frame.
LEMMA FrameKept ==
  ASSUME InFrame, to_client' = to_client,
         \/ tool'.at = tool.at /\ tool'.answer = tool.answer /\ tool'.need = tool.need
         \/ ~HasAnswer /\ ~HasAnswer'
  PROVE  InFrame'
BY DEF InFrame, GoesOn, Follow, HasAnswer, At

\* An answer that comes does not disturb it.
LEMMA ComesInFrame ==
  ASSUME SessionInv, InFrame, NEW q \in Request, NEW a \in Answers, Comes(q, a)
  PROVE  InFrame'
<1> USE DEF SessionInv, Shapes
<1>1. UNCHANGED tool /\ server.open
  BY DEF Comes
<1>2. AnswerAfter(to_client, to_client', a)
  BY ComesAfter
<1>3. \A b : Follow(to_client, 1, b) => Follow(to_client', 1, b)
  <2>1. 1 \in 1..(Len(to_client) + 1)
    BY DEF StreamShape, ConnShape
  <2> QED
    BY <1>2, <2>1 DEF AnswerAfter
<1>4. GoesOn(to_client, 1) => GoesOn(to_client', 1)
  <2> DEFINE b == [data |-> 0]
  <2>1. b.data = 0
    OBVIOUS
  <2> HIDE DEF b
  <2> QED
    BY <1>3, <2>1 DEF Follow
<1>5. At("data") => to_client # <<>>
  BY <1>1 DEF InOrder
<1> QED
  BY <1>1, <1>3, <1>4, <1>5 DEF InFrame, HasAnswer, At, GoesOn, Follow

\* Within a session every step keeps the frame.
LEMMA InFrameStep ==
  ASSUME Manageable, Base, SessionInv, InFrame, Straight', Trusting', ForwardNext,
         ~BeginSession, ~EndSession
  PROVE  InFrame'
<1> USE DEF SessionInv, Shapes
<1>1. CASE DevRead \/ SubmitUrb \/ CancelUrb \/ Unplug \/ CtrlC \/ Timeout \/ DevEvent
  <2>1. Quiet
    BY <1>1, DevReadIsQuiet, SubmitUrbIsQuiet, OthersAreQuiet
  <2>2. /\ to_client' = to_client
        /\ \/ tool'.at = tool.at /\ tool'.answer = tool.answer /\ tool'.need = tool.need
           \/ ~HasAnswer /\ ~HasAnswer'
    BY <2>1 DEF Quiet, streamVars
  <2> QED
    BY <2>2, FrameKept
<1>2. CASE WriteToSock
  <2> DEFINE t == [tool EXCEPT !.request = NULL]
  <2>1. tool.at = "to_sock" /\ to_client' = to_client
    BY <1>2 DEF WriteToSock, At
  <2>2. tool' = After(t, FALSE) \/ tool' = [tool EXCEPT !.at = "dev_read", !.request = NULL]
    BY <1>2 DEF WriteToSock
  <2>3. tool'.at \in {"dev_read", "sock_read", "wait", "over"}
    <3>1. t \in ToolState
      BY DEF ToolShape, ThreadShape, ToolState
    <3>2. CASE tool' = After(t, FALSE)
      <4> HIDE DEF t
      <4> QED
        BY <3>1, <3>2, AfterFacts
    <3>3. CASE tool' = [tool EXCEPT !.at = "dev_read", !.request = NULL]
      BY <3>3 DEF ToolShape, ThreadShape, ToolState
    <3> QED
      BY <2>2, <3>2, <3>3
  <2> QED
    BY <2>1, <2>3, FrameKept DEF HasAnswer, At
<1>3. CASE SockRead \/ SockEvent
  <2>1. CASE ~HasAnswer' /\ to_client' = to_client
    BY <1>3, <2>1, SockReadCases, FrameKept
  <2>2. CASE /\ to_client # <<>> /\ Head(to_client).kind # "header"
             /\ to_client' = Tail(to_client) /\ ~HasAnswer' /\ blame' = blame
    <3>1. 1 <= Len(to_client) /\ Head(to_client) = to_client[1]
      BY <2>2, HeadTailProperties, EmptySeq DEF StreamShape, ConnShape
    <3>2. ~GoesOn(to_client, 1)
      BY <2>2, <3>1 DEF GoesOn
    <3> QED
      BY <1>3, <3>2, SockReadCases DEF InFrame
  <2>3. CASE /\ to_client # <<>> /\ Head(to_client).kind = "header"
             /\ to_client' = Tail(to_client) /\ blame' = blame
             /\ tool'.at = "to_dev" /\ tool'.answer = Head(to_client).answer
    BY <2>3 DEF InFrame, HasAnswer, At
  <2> QED
    BY <1>3, <2>1, <2>2, <2>3, SockReadCases
<1>4. CASE WriteToDev
  <2> DEFINE a == tool.answer
             out == Recorded(a.num) # {}
             t == [tool EXCEPT !.answer = NULL]
  <2>1. /\ tool.at = "to_dev" /\ to_client' = to_client
        /\ blame' = IF a.num \in leftover \/ a.packets > 0
                    THEN blame \cup {"misread"} ELSE blame
        /\ IF Follows(a, out) = 0
           THEN GivesDevice(a, HEADER)
           ELSE tool' = IF TooBig(a, out) THEN After(t, FALSE)
                        ELSE [tool EXCEPT !.at = "data", !.need = Follows(a, out),
                                          !.left = Follows(a, out)]
    BY <1>4 DEF WriteToDev, At, streamVars
  <2>2. a.num \notin leftover /\ ~(a.packets > 0)
    BY <2>1 DEF Straight, Undisturbed
  <2>3. a \in Answers
    BY <2>1, AnswerAtDevice
  <2>4. a.packets = 0 /\ a.data \in Nat
    BY <2>2, <2>3, AnswerIsTyped
  <2>5. Follows(a, out) = a.data
    BY <2>1, <2>2, <2>4, ReadsWhatFollows
  <2>6. to_client # <<>> => Follow(to_client, 1, a)
    BY <2>1, <2>4 DEF InOrder, At
  <2>7. CASE a.data = 0
    <3>1. GivesDevice(a, HEADER)
      BY <2>1, <2>5, <2>7
    <3>2. tool'.at \in {"sock_read", "wait", "over"}
      <4> HIDE DEF a
      <4> QED
        BY <3>1, GivesDeviceReturns DEF ToolShape, ThreadShape
    <3>3. GoesOn(to_client', 1)
      <4>1. to_client = <<>> => ~(1 <= Len(to_client))
        BY EmptySeq
      <4> QED
        BY <2>1, <2>6, <2>7, <4>1 DEF Follow, GoesOn
    <3> QED
      BY <3>2, <3>3 DEF InFrame, At, GoesOn
  <2>8. CASE a.data # 0
    <3>2. ~TooBig(a, out)
      <4> HIDE DEF a, out
      <4> QED
        BY <2>3, <2>5, <2>8, NotTooBig
    <3>3. tool' = [tool EXCEPT !.at = "data", !.need = a.data, !.left = a.data]
      BY <2>1, <2>5, <2>8, <3>2
    <3>4. tool'.at = "data" /\ tool'.need = a.data /\ tool'.answer = a
      BY <3>3 DEF ToolShape, ThreadShape, ToolState
    <3>5. to_client' # <<>> => Follow(to_client', 1, tool'.answer)
      BY <2>1, <2>6, <3>4
    <3>6. tool'.answer.packets = 0 /\ tool'.need = tool'.answer.data
      BY <2>4, <3>4
    <3> QED
      BY <3>4, <3>5, <3>6 DEF InFrame, At, HasAnswer, Follow, GoesOn
  <2> QED
    BY <2>7, <2>8
<1>5. CASE WriteToDevData
  <2> DEFINE t == [tool EXCEPT !.answer = NULL, !.need = 0, !.left = 0]
             a == tool.answer
  <2>1. \/ to_client = <<>> /\ to_client' = to_client /\ tool' = After(t, FALSE)
        \/ /\ to_client # <<>> /\ to_client' = Tail(to_client)
           /\ GivesDevice(a, HEADER + tool.need)
    BY <1>5, DataRead
  <2>2. /\ tool.need = a.data /\ tool.need > 0 /\ tool.need \in Nat
        /\ to_client # <<>> => Follow(to_client, 1, a)
    BY <1>5 DEF WriteToDevData, InFrame, InOrder, At, ToolShape, ThreadShape, ToolState
  <2>3. tool'.at \in {"sock_read", "wait", "over"}
    <3>1. t \in ToolState
      BY DEF ToolShape, ThreadShape, ToolState
    <3>2. CASE tool' = After(t, FALSE)
      <4> HIDE DEF t
      <4> QED
        BY <3>1, <3>2, AfterFacts
    <3>3. CASE GivesDevice(a, HEADER + tool.need)
      <4> HIDE DEF a
      <4> QED
        BY <3>3, GivesDeviceReturns DEF ToolShape, ThreadShape
    <3> QED
      BY <2>1, <3>2, <3>3
  <2>4. GoesOn(to_client', 1)
    <3>1. CASE to_client = <<>>
      <4>1. ~(1 <= Len(to_client'))
        BY <2>1, <3>1, EmptySeq
      <4> QED
        BY <4>1 DEF GoesOn
    <3>2. CASE to_client # <<>>
      <4>1. GoesOn(to_client, 2)
        BY <2>2, <3>2 DEF Follow
      <4>2. /\ Len(to_client) \in Nat
            /\ Len(Tail(to_client)) = Len(to_client) - 1
            /\ \A i \in 1..Len(Tail(to_client)) : Tail(to_client)[i] = to_client[i + 1]
        BY <3>2, HeadTailProperties, EmptySeq DEF StreamShape, ConnShape
      <4>3. to_client' = Tail(to_client)
        BY <2>1, <3>2
      <4>4. 1 <= Len(to_client') => 2 <= Len(to_client) /\ to_client'[1] = to_client[2]
        BY <4>2, <4>3
      <4> QED
        BY <4>1, <4>4 DEF GoesOn
    <3> QED
      BY <3>1, <3>2
  <2> QED
    BY <2>3, <2>4 DEF InFrame, At, GoesOn
<1>6. CASE ServerReceives
  <2>1. CASE \E q \in Request : \E a \in Answers : Comes(q, a)
    BY <2>1, ComesInFrame
  <2>2. CASE UNCHANGED to_client
    <3>1. UNCHANGED tool
      BY <1>6 DEF ServerReceives
    <3> QED
      BY <2>2, <3>1, FrameKept
  <2> QED
    BY <1>6, <2>1, <2>2, ServerReceivesCases
<1>7. CASE ServerAnswers
  BY <1>7, AnswerComes, ComesInFrame
<1>8. CASE ServerLeaves
  <2>1. UNCHANGED tool /\ to_client' \in {to_client, <<>>}
    BY <1>8 DEF ServerLeaves
  <2>2. CASE to_client' = <<>>
    <3>1. ~(1 <= Len(to_client'))
      BY <2>2, EmptySeq
    <3> QED
      BY <2>1, <2>2, <3>1 DEF InFrame, HasAnswer, At, GoesOn
  <2> QED
    BY <2>1, <2>2, FrameKept
<1> QED
  BY <1>1, <1>2, <1>3, <1>4, <1>5, <1>6, <1>7, <1>8
     DEF ForwardNext, usbip_vbus_forward, Surroundings

\* A thread that stands at the data of its answer reads no more and no less.
LEMMA NothingSwallowed ==
  ASSUME SessionInv, InFrame, WriteToDevData
  PROVE  blame' = blame
<1> USE DEF SessionInv, Shapes
<1> DEFINE e == Head(to_client)
           d == [kind |-> "data", bytes |-> tool.need]
<1>1. CASE to_client = <<>>
  BY <1>1 DEF WriteToDevData
<1>2. CASE to_client # <<>>
  <2>1. /\ tool.left = tool.need /\ tool.need > 0 /\ tool.need = tool.answer.data
        /\ Follow(to_client, 1, tool.answer)
    BY <1>2 DEF WriteToDevData, InFrame, InOrder
  <2>2. tool.need \in Nat
    BY DEF ToolShape, ThreadShape, ToolState
  <2>3. to_client[1] = d
    BY <2>1, <2>2 DEF Follow
  <2>4. e = d /\ SizeOf(e) = tool.need
    BY <1>2, <2>3, HeadTailProperties DEF SizeOf, StreamShape, ConnShape
  <2>5. ~(SizeOf(e) < tool.left)
    BY <2>1, <2>2, <2>4
  <2> QED
    BY <1>2, <2>4, <2>5 DEF WriteToDevData
<1> QED
  BY <1>1, <1>2

\* A step within a session that stays undisturbed.
LEMMA StaysStraight ==
  ASSUME ForwardInv, Frame, ForwardNext, ~BeginSession, ~EndSession, Straight'
  PROVE  Straight /\ Trusting /\ Trusting' /\ SessionInv /\ InFrame /\ Base
<1>1. /\ blame \subseteq blame'
      /\ "swallowed" \in blame' => "swallowed" \in blame \/ WriteToDevData
  BY BlameGrows DEF ForwardInv
<1>2. Straight /\ "swallowed" \notin blame /\ InFrame
  BY <1>1 DEF Frame, Straight, Undisturbed
<1>3. Trusting /\ SessionInv
  BY <1>2 DEF ForwardInv, Trusting, Straight, Undisturbed
<1>4. "swallowed" \notin blame'
  BY <1>1, <1>2, <1>3, NothingSwallowed
<1> QED
  BY <1>2, <1>3, <1>4 DEF ForwardInv, Trusting, Straight, Undisturbed

\* Every step keeps the frame.
LEMMA FrameStep ==
  ASSUME Manageable, ForwardInv, Frame, ForwardNext
  PROVE  Frame'
<1>1. CASE BeginSession \/ EndSession
  <2>1. to_client' = <<>> /\ tool'.at \in {"dev_read", "idle"} /\ blame' = {}
    BY <1>1 DEF BeginSession, EndSession, ForwardInv, Base, IdleShape, IdleTool, At
  <2>2. ~(1 <= Len(to_client'))
    BY <2>1, EmptySeq
  <2> QED
    BY <2>1, <2>2 DEF Frame, InFrame, At, GoesOn
<1>2. CASE ~BeginSession /\ ~EndSession
  <2> SUFFICES ASSUME Straight' PROVE "swallowed" \notin blame' /\ InFrame'
    BY DEF Frame
  <2>1. Straight /\ Trusting /\ Trusting' /\ SessionInv /\ InFrame /\ Base
    BY <1>2, StaysStraight
  <2>2. "swallowed" \notin blame'
    BY <2>1 DEF Trusting, Undisturbed
  <2> QED
    BY <1>2, <2>1, <2>2, InFrameStep
<1> QED
  BY <1>1, <1>2

(***************************************************************************)
(* The URBs of the device, and the answers it gets.                        *)
(***************************************************************************)

Requests == Sent \cup server.taken \cup Waiting
Replies == Returned \cup (IF HasAnswer THEN {tool.answer} ELSE {})

\* The URB of the device with a request's or an answer's number is the one it belongs to.
KnowsUrbs ==
  \A e \in ToSet(ioctl_q) :
    /\ e.num <= seq_num
    /\ \A q \in Requests : q.num = e.num =>
         Encodable(e.urb, BIG_SIZE) /\ q = Encode(e.urb, e.num)
    /\ \A a \in Replies : a.num = e.num =>
         Encodable(e.urb, BIG_SIZE) /\ a \in AnswerTo(Encode(e.urb, e.num))

\* What is removed from the queue of URBs leaves the others.
LEMMA QueueIsTyped ==
  ASSUME DriverShape
  PROVE  /\ \A e \in ToSet(ioctl_q) : e \in [urb : Urbs, num : Nat]
         /\ \A i \in 1..Len(ioctl_q) : ToSet(RemoveAt(ioctl_q, i)) \subseteq ToSet(ioctl_q)
<1> DEFINE E == [urb : Urbs, num : Nat]
           n == Len(ioctl_q)
<1>1. ioctl_q \in Seq(E) /\ n \in Nat
  BY DEF DriverShape
<1>2. ASSUME NEW e \in ToSet(ioctl_q) PROVE e \in E
  <2>1. PICK i \in 1..Len(ioctl_q) : e = ioctl_q[i]
    BY DEF ToSet
  <2> HIDE DEF E
  <2> QED
    BY <1>1, <2>1, ElementOfSeq
<1>3. ASSUME NEW i \in 1..n, NEW e \in ToSet(RemoveAt(ioctl_q, i))
      PROVE  e \in ToSet(ioctl_q)
  <2> DEFINE p == RemoveAt(ioctl_q, i)
  <2>1. /\ Len(p) = n - 1
        /\ \A j \in 1..(n - 1) : p[j] = IF j < i THEN ioctl_q[j] ELSE ioctl_q[j + 1]
    BY <1>1, RemoveAtElements
  <2>2. PICK j \in 1..Len(p) : e = p[j]
    BY <1>3 DEF ToSet
  <2> HIDE DEF p, E
  <2>3. j \in 1..n /\ j + 1 \in 1..n /\ e \in {ioctl_q[j], ioctl_q[j + 1]}
    BY <1>1, <2>1, <2>2
  <2> QED
    BY <2>3 DEF ToSet
<1> QED
  BY <1>2, <1>3

\* Whatever is under way carries a number that was given.
LEMMA NumbersGiven ==
  ASSUME Shapes, NumbersApart
  PROVE  \A r \in Requests \cup Replies : r.num \in Nat \ {0} /\ r.num <= seq_num
<1> USE DEF Shapes
<1>1. \A q \in Request : q.num \in Nat \ {0}
  BY RequestIsPassed
<1>2. \A a \in Answers : a.num \in Nat \ {0}
  BY AnswerIsTyped
<1>3. \A r \in Sent \cup server.taken \cup Returned : r.num \in Nat \ {0} /\ r.num <= seq_num
  BY FlowIsTyped DEF Flow, NumbersApart
<1>4. \A q \in Waiting : q.num \in Nat \ {0} /\ q.num <= seq_num
  BY <1>1 DEF Waiting, ToolShape, ThreadShape
<1>5. HasAnswer => tool.answer.num \in Nat \ {0} /\ tool.answer.num <= seq_num
  BY <1>2 DEF ToolShape, ThreadShape
<1> QED
  BY <1>3, <1>4, <1>5 DEF Requests, Replies

\* A step that brings no request and no reply keeps what the numbers tell.
LEMMA KnowsKept ==
  ASSUME Shapes, KnowsUrbs, seq_num' \in {seq_num, seq_num + 1},
         ToSet(ioctl_q') \subseteq ToSet(ioctl_q),
         Requests' \subseteq Requests, Replies' \subseteq Replies
  PROVE  KnowsUrbs'
<1>1. ToSet(ioctl_q') = ToSet(ioctl_q)'
  BY DEF ToSet
<1>2. \A e \in ToSet(ioctl_q) : e.num \in Nat
  BY QueueIsTyped DEF Shapes
<1>3. \A e \in ToSet(ioctl_q) : e.num <= seq_num'
  BY <1>2 DEF Shapes, DriverShape, KnowsUrbs
<1> QED
  BY <1>1, <1>3 DEF KnowsUrbs

\* A URB that gets a number becomes the request of that number.
LEMMA KnowsNew ==
  ASSUME Shapes, NumbersApart, KnowsUrbs, NEW u \in Urbs, Encodable(u, BIG_SIZE),
         seq_num' = seq_num + 1, NEW e,
         e = [urb |-> u, num |-> seq_num + 1],
         ToSet(ioctl_q') \subseteq ToSet(ioctl_q) \cup {e},
         Requests' \subseteq Requests \cup {Encode(u, seq_num + 1)}, Replies' \subseteq Replies
  PROVE  KnowsUrbs'
<1>1. ToSet(ioctl_q') = ToSet(ioctl_q)'
  BY DEF ToSet
<1> DEFINE n == seq_num + 1
           q == Encode(u, n)
<1>2. e.urb = u /\ e.num = n
  OBVIOUS
<1>3. q.num = n
  BY NewRequest DEF Shapes
<1> HIDE DEF q
<1>4. \A r \in Requests \cup Replies : r.num \in Nat /\ r.num <= seq_num
  BY NumbersGiven
<1>5. n \in Nat /\ seq_num \in Nat /\ seq_num < n
  BY DEF Shapes, DriverShape
<1>6. \A d \in ToSet(ioctl_q) : d.num \in Nat /\ d.num <= seq_num
  BY QueueIsTyped DEF Shapes, KnowsUrbs
<1>7. /\ \A r \in Requests \cup Replies : r.num # n
      /\ \A d \in ToSet(ioctl_q) : d.num # n /\ d.num <= n
  BY <1>4, <1>5, <1>6
<1>8. ASSUME NEW d \in ToSet(ioctl_q)'
      PROVE  /\ d.num <= seq_num'
             /\ \A r \in Requests' : r.num = d.num =>
                  Encodable(d.urb, BIG_SIZE) /\ r = Encode(d.urb, d.num)
             /\ \A a \in Replies' : a.num = d.num =>
                  Encodable(d.urb, BIG_SIZE) /\ a \in AnswerTo(Encode(d.urb, d.num))
  <2>0. d \in ToSet(ioctl_q) \/ d = e
    BY <1>1, <1>8
  <2>1. CASE d = e
    <3>1. \A r \in Requests' : r.num = d.num => r = q
      BY <1>2, <1>7, <2>1 DEF q
    <3>2. d.num <= seq_num'
      BY <1>2, <1>5, <2>1
    <3>3. \A a \in Replies' : a.num # d.num
      BY <1>2, <1>7, <2>1
    <3> QED
      BY <1>2, <2>1, <3>1, <3>2, <3>3 DEF q
  <2>2. CASE d \in ToSet(ioctl_q)
    <3>1. \A r \in Requests' : r.num = d.num => r \in Requests
      BY <1>3, <1>7, <2>2 DEF q
    <3>2. d.num <= seq_num'
      BY <1>7, <2>2
    <3> QED
      BY <2>2, <3>1, <3>2 DEF KnowsUrbs
  <2> QED
    BY <2>0, <2>1, <2>2
<1> QED
  BY <1>8 DEF KnowsUrbs

\* A quiet step that reads no request does.
LEMMA QuietKnows ==
  ASSUME Shapes, Quiet, KnowsUrbs, ToSet(ioctl_q') \subseteq ToSet(ioctl_q),
         seq_num' = seq_num \/ ~HasRequest'
  PROVE  KnowsUrbs'
<1>1. seq_num \in Nat
  BY DEF Shapes, DriverShape
<1>2. seq_num' \in {seq_num, seq_num + 1} /\ Waiting' \subseteq Waiting
  BY <1>1 DEF Quiet, Waiting
<1>3. Replies' = Replies
  BY DEF Quiet, streamVars, Replies, Returned, HasAnswer, At
<1>4. Requests' \subseteq Requests
  BY <1>2 DEF Quiet, streamVars, Requests, Sent
<1> QED
  BY <1>2, <1>3, <1>4, KnowsKept

\* An URB joins the queue with no number, or leaves it.
LEMMA SubmitUrbKnows ==
  ASSUME Base, SessionInv, KnowsUrbs, SubmitUrb
  PROVE  KnowsUrbs'
<1> USE DEF SessionInv, Shapes
<1>1. Quiet
  BY SubmitUrbIsQuiet
<1>2. Replies' = Replies /\ Sent' = Sent /\ server'.taken = server.taken
  BY <1>1 DEF Quiet, streamVars, Replies, Returned, HasAnswer, At, Sent
<1>3. PICK u \in Urbs :
        \/ /\ tool' = tool /\ seq_num' = seq_num
           /\ ioctl_q' = Append(ioctl_q, [urb |-> u, num |-> 0])
        \/ /\ seq_num' = seq_num + 1 /\ Encodable(u, BIG_SIZE)
           /\ ioctl_q' = Append(ioctl_q, [urb |-> u, num |-> seq_num + 1])
           /\ tool' = [tool EXCEPT !.dev_read = "done", !.request = Encode(u, seq_num + 1)]
        \/ /\ seq_num' = seq_num + 1 /\ ioctl_q' = ioctl_q /\ tool.dev_read = "pending"
           /\ tool' = [tool EXCEPT !.dev_read = "failed"]
  BY DEF SubmitUrb
<1> DEFINE E == [urb : Urbs, num : Nat]
<1>4. ASSUME NEW e \in E, ioctl_q' = Append(ioctl_q, e)
      PROVE  ToSet(ioctl_q') \subseteq ToSet(ioctl_q) \cup {e}
  <2>1. ioctl_q \in Seq(E)
    BY DEF DriverShape
  <2> HIDE DEF E
  <2>2. /\ Len(ioctl_q) \in Nat /\ Len(ioctl_q') = Len(ioctl_q) + 1
        /\ ioctl_q'[Len(ioctl_q) + 1] = e
        /\ \A i \in 1..Len(ioctl_q) : ioctl_q'[i] = ioctl_q[i]
    BY <1>4, <2>1, AppendProperties
  <2>3. \A i \in 1..Len(ioctl_q') : i \in 1..Len(ioctl_q) \/ i = Len(ioctl_q) + 1
    BY <2>2
  <2> QED
    BY <2>2, <2>3 DEF ToSet
<1>5. CASE /\ tool' = tool /\ seq_num' = seq_num
           /\ ioctl_q' = Append(ioctl_q, [urb |-> u, num |-> 0])
  <2> DEFINE e == [urb |-> u, num |-> 0]
  <2>1. e \in E /\ e.num = 0
    OBVIOUS
  <2>2. ioctl_q' = Append(ioctl_q, e)
    BY <1>5
  <2> HIDE DEF e, E
  <2>3. ToSet(ioctl_q') \subseteq ToSet(ioctl_q) \cup {e}
    BY <1>4, <2>1, <2>2
  <2>4. ToSet(ioctl_q)' = ToSet(ioctl_q')
    BY DEF ToSet
  <2>5. Requests' = Requests
    BY <1>2, <1>5 DEF Requests, Waiting, HasRequest, At
  <2>6. \A r \in Requests \cup Replies : r.num # e.num
    BY <2>1, NumbersGiven
  <2>7. e.num <= seq_num
    BY <2>1 DEF DriverShape
  <2> QED
    BY <1>2, <1>5, <2>3, <2>4, <2>5, <2>6, <2>7 DEF KnowsUrbs
<1>6. CASE /\ seq_num' = seq_num + 1 /\ Encodable(u, BIG_SIZE)
           /\ ioctl_q' = Append(ioctl_q, [urb |-> u, num |-> seq_num + 1])
           /\ tool' = [tool EXCEPT !.dev_read = "done", !.request = Encode(u, seq_num + 1)]
  <2> DEFINE e == [urb |-> u, num |-> seq_num + 1]
             q == Encode(u, seq_num + 1)
  <2>1. e \in E
    BY DEF DriverShape
  <2>2. ioctl_q' = Append(ioctl_q, e) /\ e = [urb |-> u, num |-> seq_num + 1]
    BY <1>6
  <2>3. tool'.request = q
    <3>1. tool' = [tool EXCEPT !.dev_read = "done", !.request = q]
      BY <1>6
    <3> HIDE DEF q
    <3> QED
      BY <3>1 DEF ToolShape, ThreadShape, ToolState
  <2> HIDE DEF e, E
  <2>4. ToSet(ioctl_q') \subseteq ToSet(ioctl_q) \cup {e}
    BY <1>4, <2>1, <2>2
  <2>5. Waiting' \subseteq {q}
    BY <2>3 DEF Waiting
  <2>6. Requests' \subseteq Requests \cup {Encode(u, seq_num + 1)}
    BY <1>2, <2>5 DEF Requests
  <2> QED
    BY <1>2, <1>6, <2>2, <2>4, <2>6, KnowsNew
<1>7. CASE /\ seq_num' = seq_num + 1 /\ ioctl_q' = ioctl_q /\ tool.dev_read = "pending"
           /\ tool' = [tool EXCEPT !.dev_read = "failed"]
  <2>1. tool'.dev_read = "failed" /\ tool'.at = tool.at /\ tool.at # "to_sock"
    BY <1>7 DEF ToolShape, ThreadShape, ToolState
  <2> QED
    BY <1>1, <1>7, <2>1, QuietKnows DEF HasRequest, At
<1> QED
  BY <1>3, <1>5, <1>6, <1>7

\* An URB is read and gets the next number.
LEMMA DevReadKnows ==
  ASSUME Base, SessionInv, KnowsUrbs, DevRead
  PROVE  KnowsUrbs'
<1> USE DEF SessionInv, Shapes
<1> DEFINE i == FirstOf(Unsent)
           u == ioctl_q[i].urb
           none == [tool EXCEPT !.dev_read = "none"]
           pending == [tool EXCEPT !.dev_read = "pending"]
           E == [urb : Urbs, num : Nat]
<1>1. Quiet
  BY DevReadIsQuiet
<1>2. /\ tool.at = "dev_read" /\ tool.dev_read = "none"
  BY DEF DevRead, At, ToolShape, ThreadShape
<1>3. \/ tool' \in {After(none, FALSE), After(pending, TRUE)} /\ ioctl_q' = ioctl_q
         /\ seq_num' = seq_num
      \/ Unsent # {} /\ tool' = After(none, FALSE) /\ ioctl_q' = RemoveAt(ioctl_q, i)
      \/ /\ Unsent # {} /\ Encodable(u, BIG_SIZE) /\ seq_num' = seq_num + 1
         /\ tool' = [tool EXCEPT !.at = "to_sock", !.dev_read = "none",
                                 !.request = Encode(u, seq_num + 1)]
         /\ ioctl_q' = [ioctl_q EXCEPT ![i].num = seq_num + 1]
  <2>1. CASE ~Present
    BY <2>1 DEF DevRead
  <2>2. CASE Present /\ Unsent = {}
    BY <2>2 DEF DevRead
  <2>3. CASE Present /\ Unsent # {}
    <3>1. seq_num' = seq_num + 1
      BY <2>3 DEF DevRead
    <3>2. CASE Encodable(u, BIG_SIZE)
      BY <2>3, <3>1, <3>2 DEF DevRead
    <3>3. CASE ~Encodable(u, BIG_SIZE)
      BY <2>3, <3>1, <3>3 DEF DevRead
    <3> QED
      BY <3>2, <3>3
  <2> QED
    BY <2>1, <2>2, <2>3
<1>4. Unsent # {} => i \in 1..Len(ioctl_q)
  <2>1. Unsent \in SUBSET Nat
    BY DEF Unsent
  <2> QED
    BY <2>1, FirstIsOne DEF Unsent
<1>5. /\ none \in ToolState /\ none.dev_read = "none"
      /\ pending \in ToolState /\ pending.dev_read = "pending"
  BY DEF ToolState, ToolShape, ThreadShape
<1> HIDE DEF i, none, pending
<1>6. ASSUME tool' \in {After(none, FALSE), After(pending, TRUE)} PROVE ~HasRequest'
  <2>1. CASE tool' = After(none, FALSE)
    <3>1. tool'.at \in {"sock_read", "wait", "over"} /\ tool'.dev_read = "none"
      BY <1>5, <2>1, AfterFacts
    <3> QED
      BY <3>1 DEF HasRequest, At
  <2>2. CASE tool' = After(pending, TRUE)
    <3>1. tool'.at \in {"sock_read", "wait", "over"} /\ tool'.dev_read = "pending"
      BY <1>5, <2>2, AfterFacts
    <3> QED
      BY <3>1 DEF HasRequest, At
  <2> QED
    BY <1>6, <2>1, <2>2
<1>7. CASE tool' \in {After(none, FALSE), After(pending, TRUE)} /\ ioctl_q' = ioctl_q
  BY <1>1, <1>6, <1>7, QuietKnows
<1>8. CASE Unsent # {} /\ tool' = After(none, FALSE) /\ ioctl_q' = RemoveAt(ioctl_q, i)
  <2>1. ToSet(ioctl_q') \subseteq ToSet(ioctl_q)
    BY <1>4, <1>8, QueueIsTyped
  <2> QED
    BY <1>1, <1>6, <1>8, <2>1, QuietKnows
<1>9. CASE /\ Unsent # {} /\ Encodable(u, BIG_SIZE) /\ seq_num' = seq_num + 1
           /\ tool' = [tool EXCEPT !.at = "to_sock", !.dev_read = "none",
                                   !.request = Encode(u, seq_num + 1)]
           /\ ioctl_q' = [ioctl_q EXCEPT ![i].num = seq_num + 1]
  <2> DEFINE q == Encode(u, seq_num + 1)
             e == [urb |-> u, num |-> seq_num + 1]
  <2>1. ioctl_q \in Seq(E) /\ i \in 1..Len(ioctl_q)
    BY <1>4, <1>9 DEF DriverShape
  <2>2. ioctl_q[i] \in E
    <3> HIDE DEF E
    <3> QED
      BY <2>1, ElementOfSeq
  <2>3. u \in Urbs /\ [ioctl_q[i] EXCEPT !.num = seq_num + 1] = e
    BY <2>2
  <2>4. ioctl_q' = [ioctl_q EXCEPT ![i] = e]
    BY <1>9, <2>3
  <2>5. e = [urb |-> u, num |-> seq_num + 1]
    OBVIOUS
  <2>6. tool'.request = q
    <3>1. tool' = [tool EXCEPT !.at = "to_sock", !.dev_read = "none", !.request = q]
      BY <1>9
    <3> HIDE DEF q
    <3> QED
      BY <3>1 DEF ToolShape, ThreadShape, ToolState
  <2> HIDE DEF e, E
  <2>7. ToSet(ioctl_q') \subseteq ToSet(ioctl_q) \cup {e}
    <3>1. /\ Len(ioctl_q') = Len(ioctl_q)
          /\ \A j \in 1..Len(ioctl_q) : ioctl_q'[j] = IF j = i THEN e ELSE ioctl_q[j]
      BY <2>1, <2>4
    <3> QED
      BY <3>1 DEF ToSet
  <2>8. Waiting' \subseteq {q}
    BY <2>6 DEF Waiting
  <2>9. Replies' = Replies /\ Sent' = Sent /\ server'.taken = server.taken
    BY <1>1 DEF Quiet, streamVars, Replies, Returned, HasAnswer, At, Sent
  <2>10. Requests' \subseteq Requests \cup {Encode(u, seq_num + 1)}
    BY <2>8, <2>9 DEF Requests
  <2> HIDE DEF u
  <2> QED
    BY <1>9, <2>3, <2>5, <2>7, <2>9, <2>10, KnowsNew
<1> QED
  BY <1>3, <1>7, <1>8, <1>9

\* An answer takes its URB from the queue, and is refused only for what it says.
LEMMA GivesDeviceTakes ==
  ASSUME DriverShape, NEW a, NEW n, GivesDevice(a, n)
  PROVE  /\ ToSet(ioctl_q') \subseteq ToSet(ioctl_q)
         /\ \/ refused' = refused
            \/ \E e \in ToSet(ioctl_q) :
                 e.num = a.num /\ refused' = (refused \/ ~Decodable(e.urb, a, n))
<1> DEFINE found == {i \in 1..Len(ioctl_q) : ioctl_q[i].num = a.num}
           k == FirstOf(found)
<1>1. \/ ioctl_q' = ioctl_q /\ refused' = refused
      \/ /\ found # {} /\ ioctl_q' = RemoveAt(ioctl_q, k)
         /\ refused' = (refused \/ ~Decodable(ioctl_q[k].urb, a, n))
  BY DEF GivesDevice
<1>2. found # {} => k \in found
  <2>1. found \in SUBSET Nat
    OBVIOUS
  <2> HIDE DEF found
  <2> QED
    BY <2>1, FirstIsOne
<1> HIDE DEF k
<1>3. CASE ioctl_q' = ioctl_q /\ refused' = refused
  BY <1>3
<1>4. CASE /\ found # {} /\ ioctl_q' = RemoveAt(ioctl_q, k)
           /\ refused' = (refused \/ ~Decodable(ioctl_q[k].urb, a, n))
  <2>1. k \in 1..Len(ioctl_q) /\ ioctl_q[k].num = a.num
    BY <1>2, <1>4
  <2>2. ioctl_q[k] \in ToSet(ioctl_q)
    BY <2>1 DEF ToSet
  <2> QED
    BY <1>4, <2>1, <2>2, QueueIsTyped
<1> QED
  BY <1>1, <1>3, <1>4

\* An answer that comes belongs to the URB that its request did.
LEMMA ComesKnows ==
  ASSUME SessionInv, KnowsUrbs, NEW q \in Request, NEW a \in Answers, Comes(q, a)
  PROVE  KnowsUrbs'
<1> USE DEF SessionInv, Shapes
<1>1. /\ UNCHANGED <<tool, ioctl_q, seq_num>> /\ a \in AnswerTo(q) /\ q \in Requests
      /\ Sent' \cup server'.taken \subseteq Sent \cup server.taken
  BY DEF Comes, driverVars, Requests
<1>2. a.num = q.num /\ Returned' = Returned \cup {a}
  BY ComesAfter
<1>3. Requests' \subseteq Requests
  BY <1>1 DEF Requests, Waiting, HasRequest, At
<1>4. Replies' \subseteq Replies \cup {a}
  BY <1>1, <1>2 DEF Replies, HasAnswer, At
<1>5. ASSUME NEW e \in ToSet(ioctl_q)'
      PROVE  /\ e.num <= seq_num'
             /\ \A r \in Requests' : r.num = e.num =>
                  Encodable(e.urb, BIG_SIZE) /\ r = Encode(e.urb, e.num)
             /\ \A b \in Replies' : b.num = e.num =>
                  Encodable(e.urb, BIG_SIZE) /\ b \in AnswerTo(Encode(e.urb, e.num))
  <2>1. e \in ToSet(ioctl_q)
    BY <1>1, <1>5
  <2>2. a.num = e.num =>
          Encodable(e.urb, BIG_SIZE) /\ a \in AnswerTo(Encode(e.urb, e.num))
    BY <1>1, <1>2, <2>1 DEF KnowsUrbs
  <2> QED
    BY <1>1, <1>3, <1>4, <2>1, <2>2 DEF KnowsUrbs
<1> QED
  BY <1>5 DEF KnowsUrbs

\* A session's ends leave no URB.
LEMMA EndsKnow ==
  ASSUME Base, BeginSession \/ EndSession
  PROVE  KnowsUrbs'
<1>1. ioctl_q' = <<>>
  BY DEF BeginSession, EndSession, Base, IdleShape
<1>2. Len(<<>>) = 0 /\ 1..0 = {}
  BY EmptySeq
<1>3. ToSet(ioctl_q)' = {}
  BY <1>1, <1>2 DEF ToSet
<1> QED
  BY <1>3 DEF KnowsUrbs

\* Every step within a session keeps what the numbers tell of URBs.
LEMMA KnowsStep ==
  ASSUME Base, SessionInv, KnowsUrbs, Trusting', ForwardNext, ~BeginSession, ~EndSession
  PROVE  KnowsUrbs'
<1> USE DEF SessionInv, Shapes
<1>1. CASE CancelUrb \/ Unplug \/ CtrlC \/ Timeout \/ DevEvent
  <2>1. Quiet
    BY <1>1, OthersAreQuiet
  <2>2. seq_num' = seq_num
    BY <1>1 DEF CancelUrb, Unplug, CtrlC, Timeout, DevEvent, driverVars
  <2>3. ToSet(ioctl_q') \subseteq ToSet(ioctl_q)
    <3>1. ToSet(<<>>) = {}
      <4>1. Len(<<>>) = 0 /\ 1..0 = {}
        BY EmptySeq
      <4> QED
        BY <4>1 DEF ToSet
    <3>2. ioctl_q' \in {ioctl_q, <<>>} \/ \E i \in 1..Len(ioctl_q) : ioctl_q' = RemoveAt(ioctl_q, i)
      BY <1>1 DEF CancelUrb, Unplug, CtrlC, Timeout, DevEvent, driverVars
    <3> QED
      BY <3>1, <3>2, QueueIsTyped
  <2> QED
    BY <2>1, <2>2, <2>3, QuietKnows
<1>2. CASE WriteToSock
  <2> DEFINE q == tool.request
             t == [tool EXCEPT !.request = NULL]
  <2>1. /\ tool.at = "to_sock" /\ tool.dev_read = "none"
        /\ UNCHANGED <<ioctl_q, seq_num, to_client, server>>
    BY <1>2 DEF WriteToSock, At, ToolShape, ThreadShape, driverVars
  <2>2. tool' = After(t, FALSE) \/ tool' = [tool EXCEPT !.at = "dev_read", !.request = NULL]
    BY <1>2 DEF WriteToSock
  <2>3. tool'.at \in {"dev_read", "sock_read", "wait", "over"} /\ tool'.dev_read = "none"
    <3>1. t \in ToolState /\ t.dev_read = "none"
      BY <2>1 DEF ToolShape, ThreadShape, ToolState
    <3>2. CASE tool' = After(t, FALSE)
      <4> HIDE DEF t
      <4> QED
        BY <3>1, <3>2, AfterFacts
    <3>3. CASE tool' = [tool EXCEPT !.at = "dev_read", !.request = NULL]
      BY <2>1, <3>3 DEF ToolShape, ThreadShape, ToolState
    <3> QED
      BY <2>2, <3>2, <3>3
  <2>4. Waiting = {q} /\ Waiting' = {} /\ ~HasAnswer /\ ~HasAnswer'
    BY <2>1, <2>3 DEF Waiting, HasRequest, HasAnswer, At
  <2>5. Sent' \subseteq Sent \cup {q}
    <3>1. to_server' = to_server \/ to_server' = Append(to_server, q)
      BY <1>2 DEF WriteToSock
    <3>2. q \in Request /\ Apart({q}, Sent)
      BY <2>1, <2>4 DEF ToolShape, ThreadShape, HasRequest, At, NumbersApart, Apart, Flow
    <3> HIDE DEF q
    <3>3. Numbered(to_server) /\ to_server \in Seq(Request)
      BY DEF NumbersApart, StreamShape, ConnShape
    <3>4. ToSet(Append(to_server, q)) = ToSet(to_server) \cup {q}
      BY <3>2, <3>3, AppendRequest DEF Sent
    <3> QED
      BY <3>1, <3>4 DEF Sent
  <2>6. Requests' \subseteq Requests /\ Replies' = Replies
    BY <2>1, <2>4, <2>5 DEF Requests, Replies, Returned
  <2> QED
    BY <2>1, <2>6, KnowsKept
<1>3. CASE SockRead \/ SockEvent
  <2>1. UNCHANGED <<ioctl_q, seq_num, to_server, server>>
    BY <1>3 DEF SockRead, SockEvent, driverVars
  <2>2. /\ ~HasAnswer
        /\ tool'.dev_read = tool.dev_read /\ tool'.request = tool.request
        /\ tool'.at \in {"to_dev", "sock_read", "wait", "over"}
        /\ \/ ~HasAnswer' /\ to_client' = to_client
           \/ /\ to_client # <<>> /\ to_client' = Tail(to_client)
              /\ HasAnswer' => /\ Head(to_client).kind = "header"
                               /\ tool'.answer = Head(to_client).answer
    BY <1>3, SockReadCases
  <2>3. Waiting' \subseteq Waiting
    BY <2>2 DEF Waiting, HasRequest, At
  <2>4. Replies' \subseteq Returned
    <3>1. CASE ~HasAnswer' /\ to_client' = to_client
      BY <3>1 DEF Replies, Returned
    <3>2. CASE /\ to_client # <<>> /\ to_client' = Tail(to_client)
               /\ HasAnswer' => /\ Head(to_client).kind = "header"
                                /\ tool'.answer = Head(to_client).answer
      <4>1. to_client \in Seq(Item) /\ Once(to_client) /\ Whole(to_client)
        BY DEF StreamShape, ConnShape, NumbersApart, InOrder
      <4>2. /\ HeadersOf(Tail(to_client)) \subseteq HeadersOf(to_client)
            /\ Head(to_client).kind = "header" =>
                 Head(to_client).answer \in HeadersOf(to_client)
        BY <3>2, <4>1, TailOfStream
      <4>3. Returned' = HeadersOf(to_client')
        BY DEF Returned, HeadersOf
      <4> QED
        BY <3>2, <4>2, <4>3 DEF Replies, Returned
    <3> QED
      BY <2>2, <3>1, <3>2
  <2>5. Requests' \subseteq Requests /\ Replies' \subseteq Replies
    BY <2>1, <2>3, <2>4 DEF Requests, Replies, Sent
  <2> QED
    BY <2>1, <2>5, KnowsKept
<1>4. CASE WriteToDev
  <2> DEFINE t == [tool EXCEPT !.answer = NULL]
             f == Follows(tool.answer, Recorded(tool.answer.num) # {})
  <2>1. /\ tool.at = "to_dev"
        /\ UNCHANGED <<seq_num, to_server, to_client, server>>
        /\ \/ GivesDevice(tool.answer, HEADER)
           \/ ioctl_q' = ioctl_q /\ tool' = After(t, FALSE)
           \/ ioctl_q' = ioctl_q /\ tool' = [tool EXCEPT !.at = "data", !.need = f, !.left = f]
    BY <1>4 DEF WriteToDev, At, streamVars
  <2>2. /\ tool'.at \in {"data", "sock_read", "wait", "over"}
        /\ tool'.dev_read = tool.dev_read /\ tool'.request = tool.request
        /\ tool'.at = "data" => tool'.answer = tool.answer
    <3>1. CASE GivesDevice(tool.answer, HEADER)
      BY <3>1, GivesDeviceReturns DEF ToolShape, ThreadShape
    <3>2. CASE tool' = After(t, FALSE)
      <4>1. t \in ToolState /\ t.dev_read = tool.dev_read /\ t.request = tool.request
        BY DEF ToolShape, ThreadShape, ToolState
      <4> HIDE DEF t
      <4>2. /\ tool'.at \in {"sock_read", "wait", "over"}
            /\ tool'.dev_read = tool.dev_read /\ tool'.request = tool.request
        BY <3>2, <4>1, AfterFacts
      <4> QED
        BY <4>2
    <3>3. CASE tool' = [tool EXCEPT !.at = "data", !.need = f, !.left = f]
      <4> HIDE DEF f
      <4> QED
        BY <3>3 DEF ToolShape, ThreadShape, ToolState
    <3> QED
      BY <2>1, <3>1, <3>2, <3>3
  <2>3. ToSet(ioctl_q') \subseteq ToSet(ioctl_q)
    BY <2>1, GivesDeviceTakes
  <2>4. /\ Waiting' \subseteq Waiting /\ HasAnswer
        /\ HasAnswer' => tool'.answer = tool.answer
    BY <2>1, <2>2 DEF Waiting, HasRequest, HasAnswer, At
  <2>5. Requests' \subseteq Requests /\ Replies' \subseteq Replies
    BY <2>1, <2>4 DEF Requests, Replies, Sent, Returned
  <2> QED
    BY <2>1, <2>3, <2>5, KnowsKept
<1>5. CASE WriteToDevData
  <2> DEFINE t == [tool EXCEPT !.answer = NULL, !.need = 0, !.left = 0]
  <2>1. /\ tool.at = "data"
        /\ UNCHANGED <<seq_num, to_server, server>>
    BY <1>5 DEF WriteToDevData, At
  <2>2. \/ ioctl_q' = ioctl_q /\ tool' = After(t, FALSE) /\ to_client' = to_client
        \/ /\ to_client # <<>> /\ to_client' = Tail(to_client)
           /\ GivesDevice(tool.answer, HEADER + tool.need)
    BY <1>5, DataRead
  <2>3. /\ tool'.at \in {"sock_read", "wait", "over"}
        /\ tool'.dev_read = tool.dev_read /\ tool'.request = tool.request
    <3>1. CASE GivesDevice(tool.answer, HEADER + tool.need)
      BY <3>1, GivesDeviceReturns DEF ToolShape, ThreadShape
    <3>2. CASE tool' = After(t, FALSE)
      <4>1. t \in ToolState /\ t.dev_read = tool.dev_read /\ t.request = tool.request
        BY DEF ToolShape, ThreadShape, ToolState
      <4> HIDE DEF t
      <4> QED
        BY <3>2, <4>1, AfterFacts
    <3> QED
      BY <2>2, <3>1, <3>2
  <2>4. ToSet(ioctl_q') \subseteq ToSet(ioctl_q)
    BY <2>2, GivesDeviceTakes
  <2>5. Waiting' \subseteq Waiting /\ ~HasAnswer'
    BY <2>1, <2>3 DEF Waiting, HasRequest, HasAnswer, At
  <2>6. Returned' \subseteq Returned
    <3>1. to_client \in Seq(Item) /\ Once(to_client) /\ Whole(to_client)
      BY DEF StreamShape, ConnShape, NumbersApart, InOrder
    <3>2. to_client # <<>> => HeadersOf(Tail(to_client)) \subseteq HeadersOf(to_client)
      BY <3>1, TailOfStream
    <3>3. Returned' = HeadersOf(to_client')
      BY DEF Returned, HeadersOf
    <3> QED
      BY <2>2, <3>2, <3>3 DEF Returned
  <2>7. Requests' \subseteq Requests /\ Replies' \subseteq Replies
    BY <2>1, <2>5, <2>6 DEF Requests, Replies, Sent
  <2> QED
    BY <2>1, <2>4, <2>7, KnowsKept
<1>6. CASE ServerReceives
  <2>1. CASE \E q \in Request : \E a \in Answers : Comes(q, a)
    BY <2>1, ComesKnows
  <2>2. CASE /\ UNCHANGED to_client
             /\ server' \in {[server EXCEPT !.taken = @ \cup {Head(to_server)}], Closed}
    <3> DEFINE q == Head(to_server)
    <3>1. /\ to_server # <<>> /\ to_server' = Tail(to_server)
          /\ UNCHANGED <<tool, ioctl_q, seq_num>>
      BY <1>6 DEF ServerReceives, driverVars
    <3>2. Sent = ToSet(to_server') \cup {q}
      BY <3>1, TailOfRequests DEF StreamShape, ConnShape, NumbersApart, Sent
    <3>3. server'.taken \subseteq server.taken \cup {q}
      <4>1. server \in [open : BOOLEAN, taken : SUBSET Request, seqnum : Nat]
        BY DEF StreamShape, ConnShape
      <4>2. Closed.taken = {}
        BY ClosedServer DEF StreamShape
      <4> HIDE DEF q
      <4> QED
        BY <2>2, <4>1, <4>2 DEF q
    <3>4. Sent' = ToSet(to_server')
      BY DEF Sent, ToSet
    <3>5. Waiting' = Waiting /\ Replies' = Replies
      BY <2>2, <3>1 DEF Waiting, HasRequest, HasAnswer, At, Replies, Returned
    <3>6. Requests' \subseteq Requests
      BY <3>2, <3>3, <3>4, <3>5 DEF Requests
    <3> QED
      BY <3>1, <3>5, <3>6, KnowsKept
  <2> QED
    BY <1>6, <2>1, <2>2, ServerReceivesCases
<1>7. CASE ServerAnswers
  BY <1>7, AnswerComes, ComesKnows
<1>8. CASE ServerLeaves
  <2>1. /\ UNCHANGED <<tool, ioctl_q, seq_num, to_server>>
        /\ server' = Closed /\ to_client' \in {to_client, <<>>}
    BY <1>8 DEF ServerLeaves, driverVars
  <2>2. Returned' \subseteq Returned
    <3>1. Len(<<>>) = 0 /\ 1..0 = {}
      BY EmptySeq
    <3> QED
      BY <2>1, <3>1 DEF Returned, HeadersOf
  <2>3. server'.taken = {}
    BY <2>1, ClosedServer DEF StreamShape
  <2>4. Requests' \subseteq Requests /\ Replies' \subseteq Replies
    BY <2>1, <2>2, <2>3 DEF Requests, Sent, Waiting, HasRequest, At, Replies, HasAnswer
  <2> QED
    BY <2>1, <2>4, KnowsKept
<1> QED
  BY <1>1, <1>2, <1>3, <1>4, <1>5, <1>6, <1>7, <1>8, DevReadKnows, SubmitUrbKnows
     DEF ForwardNext, usbip_vbus_forward, Surroundings

\* The driver has refused nothing, unless what it got was misread.
NotRefused == Straight => ~refused

\* Within a session no answer is refused.
LEMMA NotRefusedStep ==
  ASSUME Manageable, Base, SessionInv, InFrame, KnowsUrbs, ~refused, Straight', Trusting',
         ForwardNext, ~BeginSession, ~EndSession
  PROVE  ~refused'
<1> USE DEF SessionInv, Shapes
<1> DEFINE a == tool.answer
           out == Recorded(a.num) # {}
<1>1. CASE refused' = refused
  BY <1>1
<1>2. ASSUME GivesDevice(a, HEADER + a.data), a.packets = 0, HasAnswer, ~refused
      PROVE  ~refused'
  <2>1. CASE refused' = refused
    BY <1>2, <2>1
  <2>2. CASE \E e \in ToSet(ioctl_q) : /\ e.num = a.num
                                       /\ refused' = (refused \/ ~Decodable(e.urb, a, HEADER + a.data))
    <3>1. PICK e \in ToSet(ioctl_q) : /\ e.num = a.num
                                      /\ refused' = (refused \/ ~Decodable(e.urb, a, HEADER + a.data))
      BY <2>2
    <3>2. Encodable(e.urb, BIG_SIZE) /\ a \in AnswerTo(Encode(e.urb, e.num))
      BY <1>2, <3>1 DEF KnowsUrbs, Replies
    <3>3. e.urb \in Encodables
      BY <3>2, QueueIsTyped DEF Encodables
    <3>4. e.num \in Nat \ {0}
      <4>1. a \in Answers
        BY <1>2 DEF ToolShape, ThreadShape
      <4> HIDE DEF a
      <4> QED
        BY <3>1, <4>1, AnswerIsTyped
    <3> HIDE DEF a
    <3> DEFINE u == e.urb
               n == e.num
    <3>5. u \in Encodables /\ n \in Nat \ {0} /\ a \in AnswerTo(Encode(u, n))
      BY <3>2, <3>3, <3>4
    <3> HIDE DEF u, n
    <3>6. Decodable(u, a, HEADER + a.data)
      BY <1>2, <3>5, AnswerDecodes
    <3> QED
      BY <1>2, <3>1, <3>6 DEF u
  <2> HIDE DEF a
  <2> QED
    BY <1>2, <2>1, <2>2, GivesDeviceTakes
<1>3. CASE WriteToDev
  <2>1. /\ tool.at = "to_dev"
        /\ blame' = IF a.num \in leftover \/ a.packets > 0
                    THEN blame \cup {"misread"} ELSE blame
        /\ IF Follows(a, out) = 0 THEN GivesDevice(a, HEADER) ELSE refused' = refused
    BY <1>3 DEF WriteToDev, At
  <2>2. a.num \notin leftover /\ ~(a.packets > 0)
    BY <2>1 DEF Straight, Undisturbed
  <2>3. a \in Answers
    BY <2>1, AnswerAtDevice
  <2>4. a.packets = 0 /\ a.data \in Nat
    BY <2>2, <2>3, AnswerIsTyped
  <2>5. Follows(a, out) = a.data
    BY <2>1, <2>2, <2>4, ReadsWhatFollows
  <2>6. CASE a.data = 0
    <3>1. HEADER + a.data = HEADER
      BY <2>6, PduAssumption
    <3>2. GivesDevice(a, HEADER + a.data)
      BY <2>1, <2>5, <2>6, <3>1
    <3>3. HasAnswer
      BY <2>1 DEF HasAnswer, At
    <3> HIDE DEF a
    <3> QED
      BY <1>2, <2>4, <3>2, <3>3
  <2>7. CASE a.data # 0
    BY <1>1, <2>1, <2>2, <2>5, <2>7
  <2> QED
    BY <2>6, <2>7
<1>4. CASE WriteToDevData
  <2>1. tool.at = "data"
    BY <1>4 DEF WriteToDevData, At
  <2>2. refused' = refused \/ GivesDevice(a, HEADER + tool.need)
    BY <1>4, DataRead
  <2>3. a.packets = 0 /\ tool.need = a.data /\ HasAnswer
    BY <2>1 DEF InFrame, HasAnswer, At
  <2>4. CASE GivesDevice(a, HEADER + tool.need)
    <3>1. GivesDevice(a, HEADER + a.data)
      BY <2>3, <2>4
    <3> HIDE DEF a
    <3> QED
      BY <1>2, <2>3, <3>1
  <2> QED
    BY <1>1, <2>2, <2>4
<1> QED
  <2>1. CASE DevRead \/ SubmitUrb \/ CancelUrb \/ Unplug \/ CtrlC \/ Timeout \/ DevEvent
    <3>1. Quiet
      BY <2>1, DevReadIsQuiet, SubmitUrbIsQuiet, OthersAreQuiet
    <3> QED
      BY <1>1, <3>1 DEF Quiet
  <2>2. CASE WriteToSock \/ SockRead \/ SockEvent \/ ServerReceives \/ ServerAnswers
             \/ ServerLeaves
    <3>1. refused' = refused
      BY <2>2 DEF WriteToSock, SockRead, SockEvent, ServerReceives, ServerAnswers, ServerLeaves
    <3> QED
      BY <1>1, <3>1
  <2> QED
    BY <1>3, <1>4, <2>1, <2>2 DEF ForwardNext, usbip_vbus_forward, Surroundings

(***************************************************************************)
(* A session that nothing disturbs.                                        *)
(***************************************************************************)

\* A read is outstanding, or about to be made, on either side, and none has failed.
Running ==
  /\ Present /\ server.open
  /\ tool.dev_read # "failed" /\ tool.at # "over"
  /\ tool.stage = "first_dev" => tool.at \in {"dev_read", "to_sock"}
  /\ tool.stage = "first_sock" =>
       tool.at \in {"sock_read", "to_dev", "data"} /\ tool.dev_read # "none"
  /\ tool.stage = "loop" =>
       /\ tool.at \in {"dev_read", "to_sock", "wait"} => tool.sock_read = "pending"
       /\ tool.at \in {"sock_read", "to_dev", "data", "wait"} => tool.dev_read # "none"

Runs == InSession /\ blame = {} /\ ~signalflag => Running

\* The step of an action that blames nothing on the way.
Smooth == InSession /\ blame = {} /\ blame' = {} /\ ~signalflag /\ ~signalflag' /\ Running

\* A call that succeeded, while the user has not asked for the end, goes on.
LEMMA AfterSuccess ==
  ASSUME NEW t \in ToolState, NEW r, r = After(t, TRUE), ~signalflag
  PROVE  /\ r.dev_read = t.dev_read /\ r.sock_read = t.sock_read
         /\ t.stage = "first_dev" => r.at = "sock_read" /\ r.stage = "first_sock"
         /\ t.stage = "first_sock" => r.at = "wait" /\ r.stage = "loop"
         /\ t.stage = "loop" => r.at = "wait" /\ r.stage = "loop"
<1>1. CASE t.stage = "first_dev"
  <2>1. r = [t EXCEPT !.at = "sock_read", !.stage = "first_sock"]
    BY <1>1 DEF After
  <2> QED
    BY <1>1, <2>1 DEF ToolState
<1>2. CASE t.stage = "first_sock"
  <2>1. r = [t EXCEPT !.at = "wait", !.stage = "loop"]
    BY <1>2 DEF After
  <2> QED
    BY <1>2, <2>1 DEF ToolState
<1>3. CASE t.stage = "loop"
  <2>1. r = [t EXCEPT !.at = "wait"]
    BY <1>3 DEF After
  <2> QED
    BY <1>3, <2>1 DEF ToolState
<1>4. t.stage \in {"first_dev", "first_sock", "loop"}
  BY DEF ToolState
<1> QED
  BY <1>1, <1>2, <1>3, <1>4

\* Reading the device does not end the session.
LEMMA DevRuns ==
  ASSUME Shapes, Smooth, DevRead \/ DevEvent
  PROVE  Running'
<1> USE DEF Shapes
<1>1. Present' = Present /\ server' = server /\ Present /\ server.open /\ tool \in ToolState
  BY DEF DevRead, DevEvent, driverVars, streamVars, Smooth, Running, ToolShape, ThreadShape
<1>2. CASE DevRead
  <2> DEFINE pending == [tool EXCEPT !.dev_read = "pending"]
             q == Encode(ioctl_q[FirstOf(Unsent)].urb, seq_num + 1)
  <2>1. tool.at = "dev_read" /\ tool.stage \in {"first_dev", "loop"}
        /\ (tool.stage = "loop" => tool.sock_read = "pending")
    BY <1>2 DEF DevRead, At, Smooth, Running, ToolShape, ThreadShape, ToolState
  <2>2. CASE Unsent = {}
    <3>1. tool' = After(pending, TRUE)
      BY <1>1, <1>2, <2>2 DEF DevRead
    <3>2. /\ pending \in ToolState /\ pending.dev_read = "pending"
          /\ pending.stage = tool.stage /\ pending.sock_read = tool.sock_read
      BY <1>1 DEF ToolState
    <3> HIDE DEF pending
    <3>3. /\ tool'.dev_read = "pending" /\ tool'.sock_read = tool.sock_read
          /\ tool.stage = "first_dev" => tool'.at = "sock_read" /\ tool'.stage = "first_sock"
          /\ tool.stage = "loop" => tool'.stage = "loop" /\ tool'.at = "wait"
      <4>1. ~signalflag
        BY DEF Smooth
      <4> QED
        BY ZenonT(30), <3>1, <3>2, <4>1, AfterSuccess
    <3> QED
      BY <1>1, <2>1, <3>3 DEF Running
  <2>3. CASE Unsent # {}
    <3>1. tool' = [tool EXCEPT !.at = "to_sock", !.dev_read = "none", !.request = q]
      BY <1>1, <1>2, <2>3 DEF DevRead, Smooth, Blame
    <3> HIDE DEF q
    <3>2. /\ tool'.at = "to_sock" /\ tool'.dev_read = "none" /\ tool'.stage = tool.stage
          /\ tool'.sock_read = tool.sock_read
      BY <1>1, <3>1 DEF ToolState
    <3> QED
      BY <1>1, <2>1, <3>2 DEF Running
  <2> QED
    BY <2>2, <2>3
<1>3. CASE DevEvent
  <2>1. /\ tool.at = "wait" /\ tool.stage = "loop" /\ tool.sock_read = "pending"
        /\ tool.dev_read = "done"
    BY <1>1, <1>3 DEF DevEvent, DevReady, At, Smooth, Running, ToolState
  <2>2. tool' = [tool EXCEPT !.at = "to_sock", !.dev_read = "none"]
    BY <1>3, <2>1 DEF DevEvent
  <2>3. /\ tool'.at = "to_sock" /\ tool'.dev_read = "none" /\ tool'.stage = "loop"
        /\ tool'.sock_read = "pending"
    BY <1>1, <2>1, <2>2 DEF ToolState
  <2> QED
    BY <1>1, <2>3 DEF Running
<1> QED
  BY <1>2, <1>3

\* Passing a request on does not.
LEMMA WriteToSockRuns ==
  ASSUME Shapes, Smooth, WriteToSock
  PROVE  Running'
<1> USE DEF Shapes
<1>1. Present' = Present /\ server' = server /\ Present /\ server.open /\ tool \in ToolState
  BY DEF WriteToSock, driverVars, Smooth, Running, ToolShape, ThreadShape
<1>2. tool.at = "to_sock" /\ tool.request \in Request
  BY DEF WriteToSock, At, ToolShape, ThreadShape, HasRequest
<1>3. ToolPasses(tool.request)
  BY <1>2, RequestIsPassed
<1>4. ~(~tool.request.in /\ Recorded(0) = {})
  BY DEF WriteToSock, Smooth
<1>5. tool' = [tool EXCEPT !.at = "dev_read", !.request = NULL]
  BY <1>1, <1>3, <1>4 DEF WriteToSock
<1>6. /\ tool'.at = "dev_read" /\ tool'.dev_read = tool.dev_read /\ tool'.stage = tool.stage
      /\ tool'.sock_read = tool.sock_read
  BY <1>1, <1>5 DEF ToolState
<1> QED
  BY <1>1, <1>2, <1>6 DEF Running, Smooth, ToolState

\* Reading a header does not.
LEMMA SockReadRuns ==
  ASSUME Shapes, InFrame, Smooth, SockRead \/ SockEvent
  PROVE  Running'
<1> USE DEF Shapes
<1> DEFINE none == [tool EXCEPT !.sock_read = "none"]
           pending == [tool EXCEPT !.sock_read = "pending"]
<1>1. /\ Present' = Present /\ server' = server /\ Present /\ server.open
      /\ tool \in ToolState
  BY DEF SockRead, SockEvent, driverVars, Smooth, Running, ToolShape, ThreadShape
<1>2. /\ tool.at \in {"sock_read", "wait"} /\ tool.stage \in {"first_sock", "loop"}
      /\ tool.dev_read \notin {"none", "failed"}
      /\ tool.at = "wait" => tool.stage = "loop"
  BY DEF SockRead, SockEvent, At, Smooth, Running, ToolShape, ThreadShape, ToolState
<1>3. to_client # <<>> => Head(to_client).kind = "header"
  <2>1. GoesOn(to_client, 1)
    BY <1>2 DEF InFrame, HasAnswer, At
  <2>2. to_client # <<>> => 1 <= Len(to_client) /\ Head(to_client) = to_client[1]
    BY HeadTailProperties, EmptySeq DEF StreamShape, ConnShape
  <2> QED
    BY <2>1, <2>2 DEF GoesOn
<1>4. \/ tool.at = "sock_read" /\ tool' = After(pending, TRUE)
      \/ /\ to_client # <<>>
         /\ tool' = [none EXCEPT !.at = "to_dev", !.answer = Head(to_client).answer]
  <2>1. CASE ReadsSock(none) /\ SockReady
    <3>1. to_client # <<>>
      BY <1>1, <2>1 DEF SockReady
    <3>2. "cut" \notin blame'
      BY DEF Smooth
    <3> HIDE DEF none
    <3> QED
      BY <1>3, <2>1, <3>1, <3>2 DEF ReadsSock, Blame
  <2>2. CASE SockRead /\ ~SockReady
    BY <2>2 DEF SockRead, At
  <2> QED
    BY <2>1, <2>2 DEF SockRead, SockEvent
<1>5. CASE tool.at = "sock_read" /\ tool' = After(pending, TRUE)
  <2>1. /\ pending \in ToolState /\ pending.sock_read = "pending"
        /\ pending.stage = tool.stage /\ pending.dev_read = tool.dev_read
    BY <1>1 DEF ToolState
  <2> HIDE DEF pending
  <2>2. /\ tool'.dev_read = tool.dev_read /\ tool'.sock_read = "pending"
        /\ tool'.at = "wait" /\ tool'.stage = "loop"
    <3>1. ~signalflag
      BY DEF Smooth
    <3> QED
      BY <1>2, <1>5, <2>1, <3>1, AfterSuccess
  <2> QED
    BY <1>1, <1>2, <2>2 DEF Running
<1>6. CASE tool' = [none EXCEPT !.at = "to_dev", !.answer = Head(to_client).answer]
  <2>1. /\ none \in ToolState
        /\ none.stage = tool.stage /\ none.dev_read = tool.dev_read
    BY <1>1 DEF ToolState
  <2> HIDE DEF none
  <2>2. /\ tool'.at = "to_dev" /\ tool'.dev_read = tool.dev_read /\ tool'.stage = tool.stage
    BY <1>6, <2>1 DEF ToolState
  <2> QED
    BY <1>1, <1>2, <2>2 DEF Running
<1> QED
  BY <1>4, <1>5, <1>6

\* Giving the driver an answer does not.
LEMMA WriteToDevRuns ==
  ASSUME Manageable, SessionInv, Smooth, WriteToDev \/ WriteToDevData
  PROVE  Running'
<1> USE DEF SessionInv, Shapes
<1> DEFINE a == tool.answer
           out == Recorded(a.num) # {}
<1>1. /\ Present' = Present /\ server' = server /\ Present /\ server.open
      /\ tool \in ToolState
  BY DEF WriteToDev, WriteToDevData, streamVars, Smooth, Running, ToolShape, ThreadShape
<1>2. /\ tool.at \in {"to_dev", "data"} /\ tool.stage \in {"first_sock", "loop"}
      /\ tool.dev_read \notin {"none", "failed"}
  BY DEF WriteToDev, WriteToDevData, At, Smooth, Running, ToolShape, ThreadShape, ToolState
<1>3. ASSUME NEW n, GivesDevice(a, n) PROVE Running'
  <2>1. tool' = [tool EXCEPT !.at = "sock_read", !.answer = NULL, !.need = 0, !.left = 0]
    BY <1>1, <1>3 DEF GivesDevice
  <2>2. tool'.at = "sock_read" /\ tool'.dev_read = tool.dev_read /\ tool'.stage = tool.stage
    BY <1>1, <2>1 DEF ToolState
  <2> QED
    BY <1>1, <1>2, <2>2 DEF Running
<1>4. CASE WriteToDev
  <2>1. /\ tool.at = "to_dev"
        /\ blame' = IF a.num \in leftover \/ a.packets > 0
                    THEN blame \cup {"misread"} ELSE blame
        /\ \/ GivesDevice(a, HEADER)
           \/ Follows(a, out) # 0 /\ TooBig(a, out)
           \/ tool' = [tool EXCEPT !.at = "data", !.need = Follows(a, out),
                                   !.left = Follows(a, out)]
    BY <1>4 DEF WriteToDev, At
  <2>2. a.num \notin leftover /\ ~(a.packets > 0)
    BY <2>1 DEF Smooth
  <2>3. a \in Answers
    BY <2>1, AnswerAtDevice
  <2>4. a.packets = 0 /\ a.data \in Nat
    BY <2>2, <2>3, AnswerIsTyped
  <2>5. Follows(a, out) = a.data
    BY <2>1, <2>2, <2>4, ReadsWhatFollows
  <2>6. ~(Follows(a, out) # 0 /\ TooBig(a, out))
    <3> SUFFICES ASSUME a.data # 0 PROVE ~TooBig(a, out)
      BY <2>5
    <3> HIDE DEF a, out
    <3> QED
      BY <2>3, <2>5, NotTooBig
  <2>7. CASE tool' = [tool EXCEPT !.at = "data", !.need = Follows(a, out),
                                  !.left = Follows(a, out)]
    <3> DEFINE f == Follows(a, out)
    <3>1. tool' = [tool EXCEPT !.at = "data", !.need = f, !.left = f]
      BY <2>7
    <3> HIDE DEF f
    <3>2. tool'.at = "data" /\ tool'.dev_read = tool.dev_read /\ tool'.stage = tool.stage
      BY <1>1, <3>1 DEF ToolState
    <3> QED
      BY <1>1, <1>2, <3>2 DEF Running
  <2> QED
    BY <1>3, <2>1, <2>6, <2>7
<1>5. CASE WriteToDevData
  <2>1. to_client # <<>>
    BY <1>1, <1>5 DEF WriteToDevData, SockReady
  <2>2. Trusting'
    BY DEF Smooth, Trusting, Undisturbed
  <2>3. GivesDevice(a, HEADER + tool.need)
    BY <1>5, <2>1, <2>2, DataRead
  <2> QED
    BY <1>3, <2>3
<1> QED
  BY <1>4, <1>5

\* Every step keeps an orderly session going.
LEMMA RunsStep ==
  ASSUME Manageable, ForwardInv, Frame, Runs, ForwardNext
  PROVE  Runs'
<1> SUFFICES ASSUME InSession', blame' = {}, ~signalflag' PROVE Running'
  BY DEF Runs
<1>1. CASE BeginSession
  <2>1. /\ tool'.at = "dev_read" /\ tool'.stage = "first_dev" /\ tool'.dev_read = "none"
        /\ Present' /\ server'.open
    BY <1>1 DEF BeginSession, IdleTool
  <2> QED
    BY <2>1 DEF Running
<1>2. CASE EndSession
  BY <1>2 DEF EndSession, IdleTool, InSession, At
<1>3. CASE ~BeginSession /\ ~EndSession
  <2>0. Base /\ SessionInv /\ InFrame
    <3>1. Straight'
      BY DEF Straight, Undisturbed
    <3> QED
      BY <1>3, <3>1, StaysStraight
  <2> USE DEF SessionInv, Shapes
  <2>1. InSession /\ ~signalflag
    <3>1. InSession
      <4>1. CASE DevRead \/ SubmitUrb \/ CancelUrb \/ Unplug \/ CtrlC \/ Timeout \/ DevEvent
        BY <2>0, <4>1, DevReadIsQuiet, SubmitUrbIsQuiet, OthersAreQuiet DEF Quiet
      <4>2. CASE WriteToSock \/ SockRead \/ SockEvent \/ WriteToDev \/ WriteToDevData
        BY <4>2 DEF WriteToSock, SockRead, SockEvent, WriteToDev, WriteToDevData, At, InSession
      <4>3. CASE ServerReceives \/ ServerAnswers \/ ServerLeaves
        BY <2>0, <4>3
           DEF ServerReceives, ServerAnswers, ServerLeaves, IdleShape, At, InSession
      <4> QED
        BY <1>3, <4>1, <4>2, <4>3 DEF ForwardNext, usbip_vbus_forward, Surroundings
    <3>2. signalflag' = signalflag \/ CtrlC
      BY <1>3 DEF ForwardNext, usbip_vbus_forward, Surroundings, DevRead, WriteToSock, SockRead,
         SockEvent, WriteToDev, WriteToDevData, DevEvent, Timeout, SubmitUrb, CancelUrb, Unplug,
         ServerReceives, ServerAnswers, ServerLeaves
    <3> QED
      BY <3>1, <3>2 DEF CtrlC
  <2>2. blame = {}
    BY <1>3, <2>0, BlameGrows
  <2>3. Running /\ Smooth
    BY <2>1, <2>2 DEF Runs, Smooth
  <2>4. ~Unplug /\ ~ServerLeaves /\ ~CtrlC /\ ~Timeout
    BY <2>1 DEF Unplug, ServerLeaves, CtrlC, Timeout, Blame
  <2>5. CASE CancelUrb \/ ServerAnswers \/ ServerReceives
    <3>1. UNCHANGED <<Present, tool>>
      BY <2>5 DEF CancelUrb, ServerAnswers, ServerReceives, driverVars
    <3>2. server'.open = server.open
      <4>1. CASE CancelUrb
        BY <4>1 DEF CancelUrb, streamVars
      <4>2. CASE ServerAnswers
        BY <4>2, <2>0 DEF ServerAnswers, StreamShape, ConnShape
      <4>3. CASE ServerReceives
        <5>1. server' \in {server, [server EXCEPT !.taken = @ \cup {Head(to_server)}]}
          BY <4>3 DEF ServerReceives, Blame
        <5> QED
          BY <2>0, <5>1 DEF StreamShape, ConnShape
      <4> QED
        BY <2>5, <4>1, <4>2, <4>3
    <3> QED
      BY <2>3, <3>1, <3>2 DEF Running
  <2>6. CASE SubmitUrb
    <3>1. Present' = Present /\ server' = server
      BY <2>6 DEF SubmitUrb, streamVars
    <3>2. PICK u \in Urbs :
            \/ tool' = tool
            \/ /\ tool.dev_read = "pending"
               /\ tool' = [tool EXCEPT !.dev_read = "done", !.request = Encode(u, seq_num + 1)]
      BY <2>6 DEF SubmitUrb, Blame
    <3>3. CASE tool' = tool
      BY <2>3, <3>1, <3>3 DEF Running
    <3>4. CASE /\ tool.dev_read = "pending"
               /\ tool' = [tool EXCEPT !.dev_read = "done", !.request = Encode(u, seq_num + 1)]
      <4>1. /\ tool'.dev_read = "done" /\ tool'.at = tool.at /\ tool'.stage = tool.stage
            /\ tool'.sock_read = tool.sock_read
        <5> DEFINE q == Encode(u, seq_num + 1)
        <5>1. tool' = [tool EXCEPT !.dev_read = "done", !.request = q]
          BY <3>4
        <5> HIDE DEF q
        <5> QED
          BY <2>0, <5>1 DEF ToolShape, ThreadShape, ToolState
      <4> QED
        BY <2>3, <3>1, <4>1 DEF Running
    <3> QED
      BY <3>2, <3>3, <3>4
  <2> QED
    BY <1>3, <2>0, <2>3, <2>4, <2>5, <2>6, DevRuns, WriteToSockRuns, SockReadRuns,
       WriteToDevRuns
       DEF ForwardNext, usbip_vbus_forward, Surroundings
<1> QED
  BY <1>1, <1>2, <1>3

\* All of it, for URBs that can be handled to the end.
WholeInv == ForwardInv /\ Frame /\ (Trusting => KnowsUrbs) /\ NotRefused /\ Runs

\* Every step keeps what is told of URBs, and of their answers.
LEMMA UrbsStep ==
  ASSUME Manageable, WholeInv, ForwardNext
  PROVE  (Trusting => KnowsUrbs)' /\ NotRefused'
<1> USE DEF WholeInv
<1>1. CASE BeginSession \/ EndSession
  <2>1. KnowsUrbs'
    BY <1>1, EndsKnow DEF ForwardInv
  <2>2. ~refused'
    BY <1>1 DEF BeginSession, EndSession
  <2> QED
    BY <2>1, <2>2 DEF NotRefused
<1>2. CASE ~BeginSession /\ ~EndSession
  <2>1. ASSUME Trusting' PROVE KnowsUrbs'
    <3>1. Trusting
      BY <1>2, <2>1, BlameGrows DEF ForwardInv, Trusting, Undisturbed
    <3> QED
      BY <1>2, <2>1, <3>1, KnowsStep DEF ForwardInv
  <2>2. ASSUME Straight' PROVE ~refused'
    <3>1. Straight /\ Trusting /\ Trusting' /\ SessionInv /\ InFrame /\ Base
      BY <1>2, <2>2, StaysStraight
    <3> QED
      BY <1>2, <2>2, <3>1, NotRefusedStep DEF NotRefused
  <2> QED
    BY <2>1, <2>2 DEF NotRefused
<1> QED
  BY <1>1, <1>2

\* The inductive invariant of sessions whose answers the tool's buffer holds.
THEOREM WholeIsInvariant ==
  ASSUME Manageable
  PROVE  ForwardSpec => []WholeInv
<1>1. ForwardInit => Frame /\ (Trusting => KnowsUrbs) /\ NotRefused /\ Runs
  <2> SUFFICES ASSUME ForwardInit
               PROVE  Frame /\ (Trusting => KnowsUrbs) /\ NotRefused /\ Runs
    OBVIOUS
  <2>1. /\ tool.at = "idle" /\ to_client = <<>> /\ ioctl_q = <<>> /\ refused = FALSE
        /\ blame = {}
    BY DEF ForwardInit, IdleTool
  <2>2. Len(<<>>) = 0 /\ 1..0 = {} /\ ~(1 <= 0)
    BY EmptySeq
  <2> QED
    BY <2>1, <2>2 DEF Frame, InFrame, GoesOn, At, KnowsUrbs, ToSet, NotRefused, Runs, InSession
<1>2. ASSUME Manageable, ForwardInv, Frame, Trusting => KnowsUrbs, NotRefused, Runs,
             [ForwardNext]_forwardVars
      PROVE  Frame' /\ (Trusting => KnowsUrbs)' /\ NotRefused' /\ Runs'
  <2>1. CASE ForwardNext
    BY <1>2, <2>1, FrameStep, UrbsStep, RunsStep DEF WholeInv
  <2>2. CASE UNCHANGED forwardVars
    <3>1. UNCHANGED <<Present, ioctl_q, seq_num, tool, to_server, to_client, server, refused,
                      blame, signalflag>>
      BY <2>2 DEF forwardVars, driverVars, streamVars
    <3>2. Frame' /\ NotRefused' /\ Runs'
      BY <1>2, <3>1 DEF Frame, InFrame, NotRefused, Straight, Undisturbed, HasAnswer, At,
                        GoesOn, Follow, Runs, Running, InSession
    <3>3. (Trusting => KnowsUrbs)'
      BY <1>2, <3>1 DEF KnowsUrbs, Requests, Replies, Sent, Returned, HeadersOf, Waiting,
                        HasRequest, HasAnswer, At, Trusting, Undisturbed
    <3> QED
      BY <3>2, <3>3
  <2> QED
    BY <1>2, <2>1, <2>2
<1> QED
  BY <1>1, <1>2, ForwardIsInvariant, PTL DEF ForwardSpec, WholeInv

\* write_to_dev reads what follows each header and stands at a header again, and the
\* driver refuses no answer, unless it met a number an earlier session has left in the
\* table, an isochronous answer, a header that came in parts, or an answer that was not
\* what the request of its number had asked for.
THEOREM StreamStaysInFrame ==
  ASSUME Manageable
  PROVE  ForwardSpec => []StreamInFrame
<1>1. WholeInv => StreamInFrame
  <2> SUFFICES ASSUME WholeInv, Straight PROVE
               /\ At("to_dev") /\ tool.answer.num \notin leftover /\ tool.answer.packets = 0 =>
                    Follows(tool.answer, Recorded(tool.answer.num) # {}) = tool.answer.data
               /\ ~At("to_dev") /\ ~At("data") /\ to_client # <<>> =>
                    Head(to_client).kind = "header"
               /\ ~refused
    BY DEF StreamInFrame, Straight
  <2>0. SessionInv /\ InFrame
    BY DEF WholeInv, ForwardInv, Frame, Trusting, Straight, Undisturbed
  <2>1. ASSUME At("to_dev"), tool.answer.num \notin leftover, tool.answer.packets = 0
        PROVE  Follows(tool.answer, Recorded(tool.answer.num) # {}) = tool.answer.data
    BY <2>0, <2>1, ReadsWhatFollows DEF At
  <2>2. ASSUME ~At("to_dev"), ~At("data"), to_client # <<>>
        PROVE  Head(to_client).kind = "header"
    <3>1. GoesOn(to_client, 1)
      BY <2>0, <2>2 DEF InFrame, HasAnswer
    <3>2. 1 <= Len(to_client) /\ Head(to_client) = to_client[1]
      BY <2>0, <2>2, HeadTailProperties, EmptySeq DEF SessionInv, Shapes, StreamShape
    <3> QED
      BY <3>1, <3>2 DEF GoesOn
  <2>3. ~refused
    BY DEF WholeInv, NotRefused
  <2> QED
    BY <2>1, <2>2, <2>3
<1> QED
  BY <1>1, WholeIsInvariant, PTL

\* Neither side of usbip_vbus_forward is left without a read, and the thread does not leave
\* its loop, while nothing disturbs the session.
THEOREM SessionGoesOn ==
  ASSUME Manageable
  PROVE  ForwardSpec => []GoesOnInOrder
<1>1. WholeInv => GoesOnInOrder
  <2> SUFFICES ASSUME WholeInv, blame = {}, ~signalflag
               PROVE  /\ ~At("over")
                      /\ At("wait") => tool.dev_read # "none" /\ tool.sock_read = "pending"
    BY DEF GoesOnInOrder
  <2>1. InSession => Running
    BY DEF WholeInv, Runs
  <2>2. tool.stage \in {"first_dev", "first_sock", "loop"}
    BY DEF WholeInv, ForwardInv, Base, ThreadShape, ToolState
  <2> QED
    BY <2>1, <2>2 DEF Running, InSession, At
<1> QED
  BY <1>1, WholeIsInvariant, PTL

=============================================================================
