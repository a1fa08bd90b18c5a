---------------------------- MODULE SnnUartProofs ----------------------------
(***************************************************************************)
(* What the SNN head acknowledges and answers, for every build, payload    *)
(* length, FIFO depth and mix of requests, however the client interrupts   *)
(* itself and whatever is lost or comes too late; and that a request that  *)
(* begins while the board scans gets the replies that are due.             *)
(***************************************************************************)
EXTENDS SnnUartProperties, SequenceTheorems, FiniteSetTheorems,
  WellFoundedInduction, TLAPS

Tokens == [is : Letters \union {"header"}, of : Nat]
Frames == [type : {"text", "cut", "ERROR", "ACK", "RESULT"}, seq : Nat]
Places ==
  {"scan", "header", "payload", "reply", "ack", "infer", "result", "halted"}

TypesOK ==
  /\ build \in Builds
  /\ pc \in Places
  /\ late \in BOOLEAN
  /\ matched \in 0..4
  /\ pc = "scan" => matched < 4
  /\ header \in [valid : BOOLEAN, seq : Nat, length : Nat]
  /\ input \in Seq(Tokens)
  /\ fifo \in Seq(Tokens) /\ rest \in Seq(Tokens)
  /\ out \in Seq(Frames)
  /\ sent \in Seq(Requests)

\* What the board has not read yet, and what of it is about a request.
Line == fifo \o rest
IsHeader(token) == token.is = "header"
Gone(n) == \A i \in 1..Len(Line) : Line[i].of # n

\* The requests come one after the other.  Of each, at most the magic is before
\* the header, and at most the body behind it.
Whole(i, j) ==
  /\ IsHeader(Line[i]) =>
       ~IsHeader(Line[j]) /\ j - i <= Len(sent[Line[i].of].body)
  /\ IsHeader(Line[j]) => j - i <= 4
LineOrdered ==
  /\ \A i \in 1..Len(Line) : Line[i].of \in 1..Len(sent)
  /\ \A i, j \in 1..Len(Line) : i < j =>
       Line[i].of <= Line[j].of /\ (Line[i].of = Line[j].of => Whole(i, j))

\* The frames on the line to the client.
Ack(n) == [type |-> "ACK", seq |-> n]
Seen(n) == \E i \in 1..Len(out) : out[i].seq = n
Acked(n) == \E i \in 1..Len(out) : out[i] = Ack(n)
OnlyAcked(n) ==
  \E i \in 1..Len(out) :
    out[i] = Ack(n) /\ \A k \in 1..Len(out) : k # i => out[k].seq # n

\* A request whose beginning was mistaken for a header lacks a letter of its
\* magic: the scan cannot find it any more.
Spoilt ==
  \A i \in 1..Len(Line) : IsHeader(Line[i]) =>
    /\ Seen(Line[i].of) => pc \in {"scan", "halted"} /\ matched + i <= 4
    /\ ~header.valid /\ header.seq = Line[i].of => i <= 4

\* As long as only bytes of the request itself were read for its payload, there
\* are no more of them to come than the payload lacks.
Arriving ==
  /\ pc = "payload" /\ header.valid
  /\ \A k \in 1..Len(input) : input[k].of = header.seq
  => \A i, j \in 1..Len(Line) :
       i <= j /\ Line[i].of = header.seq /\ Line[j].of = header.seq =>
         j - i + 1 + Len(input) <= header.length

\* The transaction in hand.
Computed == pc \in {"infer", "result"} \/ reply = "INFERENCE_FAILED"
Idle == header = NoHeader /\ reply = "none" /\ input = <<>>
HeaderRead ==
  /\ header.seq \in 1..Len(sent)
  /\ header.length = Len(sent[header.seq].body)
  /\ sent[header.seq].kind # "bad header"
  /\ \A i \in 1..Len(Line) : IsHeader(Line[i]) => Line[i].of # header.seq
Current ==
  /\ pc \in {"scan", "header", "halted"} => Idle
  /\ header.seq \in 0..Len(sent)
  /\ header.valid => HeaderRead
  /\ pc \in {"ack", "infer", "result"} =>
       header.valid /\ Computable(sent[header.seq]) /\ Gone(header.seq)
  /\ reply = "INFERENCE_FAILED" => pc = "reply" /\ header.valid
  /\ Computed => OnlyAcked(header.seq)
  /\ header.seq # 0 /\ ~Computed => ~Acked(header.seq)
  /\ header.valid /\ ~Computed => ~Seen(header.seq)

\* An acknowledged request is computable, and wholly read.
Served ==
  \A n : Acked(n) => n \in 1..Len(sent) /\ Computable(sent[n]) /\ Gone(n)
Numbered == \A i \in 1..Len(out) : out[i].seq \in 0..Len(sent)

Earned ==
  /\ TypesOK /\ LineOrdered /\ Spoilt /\ Arriving /\ Current
  /\ Served /\ Numbered /\ ResultIsEarned

(***************************************************************************)
(* The scan.                                                               *)
(***************************************************************************)

\* The fallbacks are an equation for what a letter makes of the letters seen,
\* and it has a solution.
LEMMA ScanEquation ==
  ASSUME NEW m \in 0..3, NEW letter
  PROVE  Scanned(m, letter) =
           IF letter = Magic[m + 1] THEN m + 1
           ELSE IF m = 0 THEN 0 ELSE Scanned(Fallback[m], letter)
<1> DEFINE Step(f, k) == IF letter = Magic[k + 1] THEN k + 1
                         ELSE IF k = 0 THEN 0 ELSE f[Fallback[k]]
           Match == CHOOSE f : f = [k \in 0..3 |-> Step(f, k)]
           zero == IF letter = Magic[1] THEN 1 ELSE 0
           one == IF letter = Magic[2] THEN 2 ELSE zero
           two == IF letter = Magic[3] THEN 3 ELSE zero
           three == IF letter = Magic[4] THEN 4 ELSE one
           found == [k \in 0..3 |-> IF k = 0 THEN zero ELSE IF k = 1 THEN one
                                    ELSE IF k = 2 THEN two ELSE three]
<1>1. Fallback[1] = 0 /\ Fallback[2] = 0 /\ Fallback[3] = 1
  BY DEF Fallback
<1>2. found = [k \in 0..3 |-> Step(found, k)]
  <2>1. found[0] = zero /\ found[1] = one
    OBVIOUS
  <2>2. ASSUME NEW k \in 0..3 PROVE found[k] = Step(found, k)
    <3>1. CASE k = 0
      BY <3>1
    <3>2. CASE k = 1
      BY <1>1, <2>1, <3>2
    <3>3. CASE k = 2
      BY <1>1, <2>1, <3>3
    <3>4. CASE k = 3
      BY <1>1, <2>1, <3>4
    <3> QED
      BY <3>1, <3>2, <3>3, <3>4
  <2> HIDE DEF Step, zero, one, two, three
  <2>3. found = [k \in 0..3 |-> found[k]]
    OBVIOUS
  <2> QED
    BY <2>2, <2>3
<1>3. Match = [k \in 0..3 |-> Step(Match, k)]
  <2> HIDE DEF Step, found
  <2> QED
    BY <1>2
<1>4. \A k : Scanned(k, letter) = Match[k]
  BY DEF Scanned
<1>5. Match[m] = Step(Match, m)
  <2> HIDE DEF Match, Step
  <2> QED
    BY <1>3
<1> HIDE DEF Match
<1> QED
  BY <1>4, <1>5

\* So the scan advances by a letter at most.
LEMMA ScanAdvances ==
  ASSUME NEW m \in 0..3, NEW letter
  PROVE  Scanned(m, letter) \in 0..m + 1
<1>1. Fallback[1] = 0 /\ Fallback[2] = 0 /\ Fallback[3] = 1
  BY DEF Fallback
<1>2. Scanned(0, letter) \in 0..1
  BY ScanEquation
<1>3. Scanned(1, letter) \in 0..2
  BY <1>1, <1>2, ScanEquation
<1>4. Scanned(2, letter) \in 0..3
  BY <1>1, <1>2, ScanEquation
<1>5. Scanned(3, letter) \in 0..4
  BY <1>1, <1>3, ScanEquation
<1> QED
  BY <1>2, <1>3, <1>4, <1>5

(***************************************************************************)
(* What the board has not read yet.                                        *)
(***************************************************************************)

\* Where a token of the line is.
LEMMA LinePoints ==
  ASSUME fifo \in Seq(Tokens), rest \in Seq(Tokens)
  PROVE  /\ Line \in Seq(Tokens)
         /\ Len(fifo) \in Nat /\ Len(rest) \in Nat
         /\ Len(Line) = Len(fifo) + Len(rest)
         /\ \A i \in 1..Len(fifo) : i \in 1..Len(Line) /\ Line[i] = fifo[i]
         /\ \A i \in 1..Len(rest) :
              Len(fifo) + i \in 1..Len(Line) /\ Line[Len(fifo) + i] = rest[i]
<1>1. /\ Line \in Seq(Tokens) /\ Len(Line) = Len(fifo) + Len(rest)
      /\ \A i \in 1..Len(fifo) + Len(rest) :
           Line[i] = IF i <= Len(fifo) THEN fifo[i] ELSE rest[i - Len(fifo)]
  BY ConcatProperties DEF Line
<1>2. Len(fifo) \in Nat /\ Len(rest) \in Nat
  BY LenProperties
<1>3. ASSUME NEW i \in 1..Len(fifo) PROVE i \in 1..Len(Line) /\ Line[i] = fifo[i]
  <2>1. i \in 1..Len(fifo) + Len(rest) /\ i <= Len(fifo)
    BY <1>2
  <2> QED
    BY <1>1, <2>1
<1>4. ASSUME NEW i \in 1..Len(rest)
      PROVE  Len(fifo) + i \in 1..Len(Line) /\ Line[Len(fifo) + i] = rest[i]
  <2>1. /\ Len(fifo) + i \in 1..Len(fifo) + Len(rest)
        /\ ~(Len(fifo) + i <= Len(fifo)) /\ (Len(fifo) + i) - Len(fifo) = i
    BY <1>2
  <2> QED
    BY <1>1, <2>1
<1> QED
  BY <1>1, <1>2, <1>3, <1>4

\* The same of the line after a step.
LEMMA LinePointsNext ==
  ASSUME fifo' \in Seq(Tokens), rest' \in Seq(Tokens)
  PROVE  /\ Line' \in Seq(Tokens)
         /\ Len(fifo') \in Nat /\ Len(rest') \in Nat
         /\ Len(Line') = Len(fifo') + Len(rest')
         /\ \A i \in 1..Len(fifo') : i \in 1..Len(Line') /\ Line'[i] = fifo'[i]
         /\ \A i \in 1..Len(rest') :
              Len(fifo') + i \in 1..Len(Line') /\ Line'[Len(fifo') + i] = rest'[i]
<1>1. /\ Line' \in Seq(Tokens) /\ Len(Line') = Len(fifo') + Len(rest')
      /\ \A i \in 1..Len(fifo') + Len(rest') :
           Line'[i] = IF i <= Len(fifo') THEN fifo'[i] ELSE rest'[i - Len(fifo')]
  BY ConcatProperties DEF Line
<1>2. Len(fifo') \in Nat /\ Len(rest') \in Nat
  BY LenProperties
<1>3. ASSUME NEW i \in 1..Len(fifo') PROVE i \in 1..Len(Line') /\ Line'[i] = fifo'[i]
  <2>1. i \in 1..Len(fifo') + Len(rest') /\ i <= Len(fifo')
    BY <1>2
  <2> QED
    BY <1>1, <2>1
<1>4. ASSUME NEW i \in 1..Len(rest')
      PROVE  Len(fifo') + i \in 1..Len(Line') /\ Line'[Len(fifo') + i] = rest'[i]
  <2>1. /\ Len(fifo') + i \in 1..Len(fifo') + Len(rest')
        /\ ~(Len(fifo') + i <= Len(fifo')) /\ (Len(fifo') + i) - Len(fifo') = i
    BY <1>2
  <2> QED
    BY <1>1, <2>1
<1> QED
  BY <1>1, <1>2, <1>3, <1>4

\* The board reads the first token.
FrontRead ==
  /\ Len(Line) \in Nat \ {0} /\ Len(Line') = Len(Line) - 1
  /\ \A i \in 1..Len(Line') : i + 1 \in 1..Len(Line) /\ Line'[i] = Line[i + 1]

LEMMA TokenRead ==
  ASSUME fifo \in Seq(Tokens), rest \in Seq(Tokens), fifo # <<>>,
         fifo' = Tail(fifo), rest' = rest
  PROVE  /\ fifo' \in Seq(Tokens) /\ FrontRead
         /\ 1 \in 1..Len(Line) /\ Head(fifo) = Line[1] /\ Head(fifo) \in Tokens
<1>1. /\ Head(fifo) \in Tokens /\ Head(fifo) = fifo[1] /\ Len(fifo) \in Nat \ {0}
      /\ fifo' \in Seq(Tokens) /\ Len(fifo') = Len(fifo) - 1
      /\ \A i \in 1..Len(fifo') : fifo'[i] = fifo[i + 1]
  OBVIOUS
<1>2. /\ Len(rest) \in Nat /\ Len(Line) = Len(fifo) + Len(rest)
      /\ \A i \in 1..Len(fifo) : i \in 1..Len(Line) /\ Line[i] = fifo[i]
      /\ \A i \in 1..Len(rest) :
           Len(fifo) + i \in 1..Len(Line) /\ Line[Len(fifo) + i] = rest[i]
  BY LinePoints
<1>3. /\ Len(Line') = Len(fifo') + Len(rest)
      /\ \A i \in 1..Len(fifo') : Line'[i] = fifo'[i]
      /\ \A i \in 1..Len(rest) : Line'[Len(fifo') + i] = rest[i]
  BY <1>1, LinePointsNext
<1>4. ASSUME NEW i \in 1..Len(Line')
      PROVE  i + 1 \in 1..Len(Line) /\ Line'[i] = Line[i + 1]
  <2>1. CASE i <= Len(fifo')
    <3>1. i \in 1..Len(fifo') /\ i + 1 \in 1..Len(fifo)
      BY <1>1, <1>3, <2>1
    <3> QED
      BY <1>1, <1>2, <1>3, <3>1
  <2>2. CASE ~(i <= Len(fifo'))
    <3>1. /\ i - Len(fifo') \in 1..Len(rest)
          /\ Len(fifo') + (i - Len(fifo')) = i
          /\ Len(fifo) + (i - Len(fifo')) = i + 1
      BY <1>1, <1>2, <1>3, <2>2
    <3> QED
      BY <1>2, <1>3, <3>1
  <2> QED
    BY <2>1, <2>2
<1>5. 1 \in 1..Len(fifo) /\ Len(Line) \in Nat \ {0} /\ Len(Line') = Len(Line) - 1
  BY <1>1, <1>2, <1>3
<1> QED
  BY <1>1, <1>2, <1>4, <1>5 DEF FrontRead

\* A token of the line moves on, or is lost where the FIFO is full.
Thinned ==
  \A i, j \in 1..Len(Line') : i <= j =>
    \E a, b \in 1..Len(Line) :
      /\ Line'[i] = Line[a] /\ Line'[j] = Line[b]
      /\ i <= a /\ j - i <= b - a /\ (i < j => a < b)

LEMMA ReadThins ==
  ASSUME FrontRead
  PROVE  Thinned
<1> SUFFICES ASSUME NEW i \in 1..Len(Line'), NEW j \in 1..Len(Line'), i <= j
             PROVE  \E a, b \in 1..Len(Line) :
                      /\ Line'[i] = Line[a] /\ Line'[j] = Line[b]
                      /\ i <= a /\ j - i <= b - a /\ (i < j => a < b)
  BY DEF Thinned
<1>1. /\ i + 1 \in 1..Len(Line) /\ Line'[i] = Line[i + 1]
      /\ j + 1 \in 1..Len(Line) /\ Line'[j] = Line[j + 1]
  BY DEF FrontRead
<1>2. i <= i + 1 /\ j - i <= (j + 1) - (i + 1) /\ (i < j => i + 1 < j + 1)
  BY DEF FrontRead
<1> QED
  BY <1>1, <1>2

LEMMA SameThins ==
  ASSUME Line \in Seq(Tokens), Line' = Line
  PROVE  Thinned
<1> SUFFICES ASSUME NEW i \in 1..Len(Line'), NEW j \in 1..Len(Line'), i <= j
             PROVE  \E a, b \in 1..Len(Line) :
                      /\ Line'[i] = Line[a] /\ Line'[j] = Line[b]
                      /\ i <= a /\ j - i <= b - a /\ (i < j => a < b)
  BY DEF Thinned
<1>1. i \in 1..Len(Line) /\ j \in 1..Len(Line) /\ Line' = Line
  OBVIOUS
<1>2. i <= i /\ j - i <= j - i /\ (i < j => i < j)
  OBVIOUS
<1> QED
  BY <1>1, <1>2

\* SendToken, whichever way the token goes.
LEMMA TokenMoves ==
  ASSUME fifo \in Seq(Tokens), rest \in Seq(Tokens), rest # <<>>,
         rest' = Tail(rest), fifo' = Append(fifo, Head(rest))
  PROVE  /\ fifo' \in Seq(Tokens) /\ rest' \in Seq(Tokens)
         /\ Thinned /\ Line' = Line
<1>1. /\ Head(rest) \in Tokens /\ Head(rest) = rest[1] /\ Len(rest) \in Nat \ {0}
      /\ rest' \in Seq(Tokens) /\ Len(rest') = Len(rest) - 1
      /\ \A i \in 1..Len(rest') : rest'[i] = rest[i + 1]
  OBVIOUS
<1>2. /\ fifo' \in Seq(Tokens) /\ Len(fifo) \in Nat /\ Len(fifo') = Len(fifo) + 1
      /\ fifo'[Len(fifo) + 1] = Head(rest)
      /\ \A i \in 1..Len(fifo) : fifo'[i] = fifo[i]
  BY <1>1
<1>3. /\ Line \in Seq(Tokens) /\ Len(Line) = Len(fifo) + Len(rest)
      /\ \A i \in 1..Len(fifo) : Line[i] = fifo[i]
      /\ \A i \in 1..Len(rest) : Line[Len(fifo) + i] = rest[i]
  BY LinePoints
<1>4. /\ Line' \in Seq(Tokens) /\ Len(Line') = Len(fifo') + Len(rest')
      /\ \A i \in 1..Len(fifo') : Line'[i] = fifo'[i]
      /\ \A i \in 1..Len(rest') : Line'[Len(fifo') + i] = rest'[i]
  BY <1>1, <1>2, LinePointsNext
<1>5. ASSUME NEW i \in 1..Len(Line') PROVE Line'[i] = Line[i]
  <2>1. CASE i <= Len(fifo)
    <3>1. i \in 1..Len(fifo) /\ i \in 1..Len(fifo')
      BY <1>2, <1>4, <2>1
    <3> QED
      BY <1>2, <1>3, <1>4, <3>1
  <2>2. CASE i = Len(fifo) + 1
    <3>1. 1 \in 1..Len(rest) /\ i \in 1..Len(fifo')
      BY <1>1, <1>2, <2>2
    <3>2. Line'[i] = Head(rest)
      BY <1>2, <1>4, <2>2, <3>1
    <3>3. Line[Len(fifo) + 1] = rest[1]
      BY <1>3, <3>1
    <3> QED
      BY <1>1, <2>2, <3>2, <3>3
  <2>3. CASE i > Len(fifo) + 1
    <3>1. /\ i - Len(fifo') \in 1..Len(rest')
          /\ (i - Len(fifo')) + 1 \in 1..Len(rest)
          /\ Len(fifo') + (i - Len(fifo')) = i
          /\ Len(fifo) + ((i - Len(fifo')) + 1) = i
      BY <1>1, <1>2, <1>4, <2>3
    <3>2. Line'[i] = rest'[i - Len(fifo')]
      BY <1>4, <3>1
    <3>3. Line[i] = rest[(i - Len(fifo')) + 1]
      BY <1>3, <3>1
    <3> QED
      BY <1>1, <3>1, <3>2, <3>3
  <2> QED
    BY <1>2, <1>4, <2>1, <2>2, <2>3
<1>6. Len(Line') = Len(Line)
  BY <1>1, <1>2, <1>3, <1>4
<1>7. Line' = Line
  BY <1>3, <1>4, <1>5, <1>6, SeqEqual
<1> QED
  BY <1>1, <1>2, <1>3, <1>7, SameThins

LEMMA TokenLost ==
  ASSUME fifo \in Seq(Tokens), rest \in Seq(Tokens), rest # <<>>,
         rest' = Tail(rest), fifo' = fifo
  PROVE  rest' \in Seq(Tokens) /\ Thinned
<1>1. /\ Len(rest) \in Nat \ {0}
      /\ rest' \in Seq(Tokens) /\ Len(rest') = Len(rest) - 1
      /\ \A i \in 1..Len(rest') : rest'[i] = rest[i + 1]
  OBVIOUS
<1>2. /\ Line \in Seq(Tokens) /\ Len(Line) = Len(fifo) + Len(rest) /\ Len(fifo) \in Nat
      /\ \A i \in 1..Len(fifo) : Line[i] = fifo[i]
      /\ \A i \in 1..Len(rest) : Line[Len(fifo) + i] = rest[i]
  BY LinePoints
<1>3. /\ Len(Line') = Len(fifo) + Len(rest')
      /\ \A i \in 1..Len(fifo) : Line'[i] = fifo[i]
      /\ \A i \in 1..Len(rest') : Line'[Len(fifo) + i] = rest'[i]
  BY <1>1, LinePointsNext
<1> DEFINE From(i) == IF i <= Len(fifo) THEN i ELSE i + 1
<1>4. ASSUME NEW i \in 1..Len(Line')
      PROVE  From(i) \in 1..Len(Line) /\ Line'[i] = Line[From(i)]
  <2>1. CASE i <= Len(fifo)
    <3>1. i \in 1..Len(fifo) /\ i \in 1..Len(Line)
      BY <1>1, <1>2, <1>3, <2>1
    <3> QED
      BY <1>2, <1>3, <2>1, <3>1
  <2>2. CASE ~(i <= Len(fifo))
    <3> DEFINE k == i - Len(fifo)
    <3>1. /\ k \in 1..Len(rest') /\ k + 1 \in 1..Len(rest)
          /\ Len(fifo) + k = i /\ Len(fifo) + (k + 1) = i + 1
          /\ i + 1 \in 1..Len(Line)
      BY <1>1, <1>2, <1>3, <2>2
    <3> HIDE DEF k
    <3>2. Line'[i] = rest'[k]
      BY <1>3, <3>1
    <3>3. Line[Len(fifo) + (k + 1)] = rest[k + 1]
      BY <1>2, <3>1
    <3> QED
      BY <1>1, <2>2, <3>1, <3>2, <3>3
  <2> QED
    BY <2>1, <2>2
<1>5. ASSUME NEW i \in 1..Len(Line'), NEW j \in 1..Len(Line'), i <= j
      PROVE  i <= From(i) /\ j - i <= From(j) - From(i) /\ (i < j => From(i) < From(j))
  BY <1>1, <1>2, <1>3, <1>5
<1> HIDE DEF From
<1>6. Thinned
  BY <1>4, <1>5 DEF Thinned
<1> QED
  BY <1>1, <1>6

\* A request on the line: the magic, the header, the body.
RequestTokens(n, body) ==
  [i \in 1..4 |-> Token(Magic[i], n)] \o <<Token("header", n)>>
    \o [i \in 1..Len(body) |-> Token(body[i], n)]

LEMMA NewRequest ==
  ASSUME NEW n \in Nat, NEW body \in Seq(Letters)
  PROVE  LET w == RequestTokens(n, body)
         IN  /\ w \in Seq(Tokens) /\ Len(w) = 5 + Len(body) /\ Len(body) \in Nat
             /\ \A i \in 1..Len(w) : w[i].of = n /\ (IsHeader(w[i]) <=> i = 5)
             /\ \A i \in 1..4 : w[i] = Token(Magic[i], n)
             /\ w[5] = Token("header", n)
             /\ \A i \in 1..Len(body) : w[5 + i] = Token(body[i], n)
<1> DEFINE w == RequestTokens(n, body)
           a == [i \in 1..4 |-> Token(Magic[i], n)]
           h == <<Token("header", n)>>
           b == [i \in 1..Len(body) |-> Token(body[i], n)]
<1>1. \A i \in 1..4 : Token(Magic[i], n) \in Tokens /\ Magic[i] # "header"
  <2>1. /\ Magic[1] = "N" /\ Magic[2] = "S" /\ Magic[3] = "N" /\ Magic[4] = "N"
    BY DEF Magic
  <2>2. ASSUME NEW i \in 1..4 PROVE Magic[i] \in Letters /\ Magic[i] # "header"
    <3>1. i = 1 \/ i = 2 \/ i = 3 \/ i = 4
      OBVIOUS
    <3> QED
      BY <2>1, <3>1 DEF Letters
  <2> QED
    BY <2>2 DEF Token, Tokens
<1>2. a \in Seq(Tokens) /\ Len(a) = 4 /\ \A i \in 1..4 : a[i] = Token(Magic[i], n)
  <2>1. a \in [1..4 -> Tokens]
    BY <1>1
  <2>2. a \in Seq(Tokens)
    BY <2>1, SeqDef
  <2>3. DOMAIN a = 1..4
    BY <2>1
  <2>4. Len(a) \in Nat /\ DOMAIN a = 1..Len(a)
    BY <2>2, LenProperties
  <2>5. Len(a) = 4
    BY <2>3, <2>4
  <2> QED
    BY <2>2, <2>5
<1>3. Token("header", n) \in Tokens
  BY DEF Token, Tokens
<1>4. h \in Seq(Tokens) /\ Len(h) = 1 /\ h[1] = Token("header", n)
  BY <1>3
<1>5. Len(body) \in Nat /\ \A i \in 1..Len(body) : body[i] \in Letters
  OBVIOUS
<1>6. \A i \in 1..Len(body) : Token(body[i], n) \in Tokens /\ body[i] # "header"
  BY <1>5 DEF Token, Tokens, Letters
<1>7. /\ b \in Seq(Tokens) /\ Len(b) = Len(body)
      /\ \A i \in 1..Len(body) : b[i] = Token(body[i], n)
  <2> DEFINE l == Len(body)
  <2>1. b \in [1..l -> Tokens] /\ l \in Nat
    BY <1>5, <1>6
  <2>2. b \in Seq(Tokens)
    BY <2>1, SeqDef
  <2>3. DOMAIN b = 1..l
    BY <2>1
  <2>4. Len(b) \in Nat /\ DOMAIN b = 1..Len(b)
    BY <2>2, LenProperties
  <2> HIDE DEF b, l
  <2>5. Len(b) = l
    BY <2>1, <2>3, <2>4
  <2> QED
    BY <2>2, <2>5 DEF b, l
<1> DEFINE m == a \o h
<1>8. w = m \o b
  BY DEF RequestTokens
<1> HIDE DEF a, h, b, w
<1>9. /\ m \in Seq(Tokens) /\ Len(m) = 5
      /\ \A i \in 1..4 : m[i] = a[i]
      /\ m[5] = h[1]
  <2>1. /\ m \in Seq(Tokens) /\ Len(m) = Len(a) + Len(h)
        /\ \A i \in 1..Len(a) + Len(h) :
             m[i] = IF i <= Len(a) THEN a[i] ELSE h[i - Len(a)]
    BY <1>2, <1>4, ConcatProperties
  <2> QED
    BY <1>2, <1>4, <2>1
<1> HIDE DEF m
<1>10. /\ w \in Seq(Tokens) /\ Len(w) = 5 + Len(body)
       /\ \A i \in 1..5 : w[i] = m[i]
       /\ \A i \in 6..Len(w) : i - 5 \in 1..Len(body) /\ w[i] = b[i - 5]
  <2>1. /\ w \in Seq(Tokens) /\ Len(w) = Len(m) + Len(b)
        /\ \A i \in 1..Len(m) + Len(b) :
             w[i] = IF i <= Len(m) THEN m[i] ELSE b[i - Len(m)]
    <3>1. m \in Seq(Tokens) /\ b \in Seq(Tokens)
      BY <1>7, <1>9
    <3> QED
      BY <1>8, <3>1, ConcatProperties
  <2>2. Len(w) = 5 + Len(body)
    BY <1>5, <1>7, <1>9, <2>1
  <2>3. ASSUME NEW i \in 1..5 PROVE w[i] = m[i]
    <3>1. i \in 1..Len(m) + Len(b) /\ i <= Len(m)
      BY <1>5, <1>7, <1>9
    <3> QED
      BY <2>1, <3>1
  <2>4. ASSUME NEW i \in 6..Len(w)
        PROVE  i - 5 \in 1..Len(body) /\ w[i] = b[i - 5]
    <3>1. i \in 1..Len(m) + Len(b) /\ ~(i <= Len(m)) /\ i - 5 \in 1..Len(body)
      BY <1>5, <1>7, <1>9, <2>2
    <3> QED
      BY <1>9, <2>1, <3>1
  <2> QED
    BY <2>1, <2>2, <2>3, <2>4
<1>11. ASSUME NEW i \in 1..Len(w)
       PROVE  w[i].of = n /\ (IsHeader(w[i]) <=> i = 5)
  <2>1. CASE i \in 1..4
    <3>1. w[i] = Token(Magic[i], n) /\ Magic[i] # "header"
      BY <1>1, <1>2, <1>9, <1>10, <2>1
    <3>2. i # 5
      BY <2>1
    <3> QED
      BY <3>1, <3>2 DEF Token, IsHeader
  <2>2. CASE i = 5
    <3>1. w[i] = Token("header", n)
      BY <1>4, <1>9, <1>10, <2>2
    <3> QED
      BY <2>2, <3>1 DEF Token, IsHeader
  <2>3. CASE i \in 6..Len(w)
    <3>1. w[i] = Token(body[i - 5], n) /\ body[i - 5] # "header"
      BY <1>6, <1>7, <1>10, <2>3
    <3>2. i # 5
      BY <2>3
    <3> QED
      BY <3>1, <3>2 DEF Token, IsHeader
  <2> QED
    BY <1>5, <1>10, <2>1, <2>2, <2>3
<1>12. /\ \A i \in 1..4 : w[i] = Token(Magic[i], n)
       /\ w[5] = Token("header", n)
  BY <1>2, <1>4, <1>9, <1>10
<1>13. ASSUME NEW i \in 1..Len(body) PROVE w[5 + i] = Token(body[i], n)
  <2>1. 5 + i \in 6..Len(w) /\ (5 + i) - 5 = i
    BY <1>5, <1>10
  <2> QED
    BY <1>7, <1>10, <2>1
<1> QED
  BY <1>5, <1>10, <1>11, <1>12, <1>13 DEF w

(***************************************************************************)
(* Types.                                                                  *)
(***************************************************************************)

LEMMA RequestsTyped ==
  ASSUME TypesOK
  PROVE  /\ Len(sent) \in Nat
         /\ \A n \in 1..Len(sent) :
              /\ sent[n] \in Requests /\ sent[n].kind \in AllKinds
              /\ sent[n].body \in Seq(Letters) /\ Len(sent[n].body) \in Nat
<1>1. sent \in Seq(Requests)
  BY DEF TypesOK
<1>2. Len(sent) \in Nat /\ \A n \in 1..Len(sent) : sent[n] \in Requests
  BY <1>1
<1>3. \A request \in Requests :
        request.kind \in AllKinds /\ request.body \in Seq(Letters)
  BY SnnUartAssumption
<1>4. \A body \in Seq(Letters) : Len(body) \in Nat
  OBVIOUS
<1> QED
  BY <1>2, <1>3, <1>4

LEMMA LineTyped ==
  ASSUME TypesOK
  PROVE  /\ Line \in Seq(Tokens) /\ Len(Line) \in Nat
         /\ \A i \in 1..Len(Line) : Line[i] \in Tokens /\ Line[i].of \in Nat
<1>1. Line \in Seq(Tokens)
  BY LinePoints DEF TypesOK
<1>2. Len(Line) \in Nat /\ \A i \in 1..Len(Line) : Line[i] \in Tokens
  BY <1>1
<1> QED
  BY <1>1, <1>2 DEF Tokens

\* The end of a transaction.
LEMMA ReturnTyped ==
  ASSUME TypesOK, NEW status, NEW written \in Seq(Frames), Return(status, written),
         fifo' \in Seq(Tokens), UNCHANGED clientVars
  PROVE  TypesOK'
<1>1. Text \in Frames
  BY DEF Text, Frames
<1>2. (IF AddsText(status) THEN <<Text>> ELSE <<>>) \in Seq(Frames)
  BY <1>1
<1>3. out \in Seq(Frames) /\ build \in Builds
  BY DEF TypesOK
<1>4. out' \in Seq(Frames)
  <2>1. out' = out \o written \o (IF AddsText(status) THEN <<Text>> ELSE <<>>)
    BY DEF Return
  <2>2. out \o written \in Seq(Frames)
    BY <1>3, ConcatProperties
  <2> DEFINE text == IF AddsText(status) THEN <<Text>> ELSE <<>>
  <2>3. text \in Seq(Frames) /\ out' = (out \o written) \o text
    BY <1>2, <2>1
  <2> HIDE DEF text
  <2> QED
    BY <2>2, <2>3, ConcatProperties
<1>5. header' \in [valid : BOOLEAN, seq : Nat, length : Nat]
  BY DEF Return, NoHeader
<1>6. pc' \in {"scan", "halted"} /\ matched' = 0 /\ input' = <<>> /\ late' \in BOOLEAN
  BY DEF Return
<1>7. build' \in Builds
  BY <1>3 DEF Return
<1>8. sent' \in Seq(Requests) /\ rest' \in Seq(Tokens)
  BY DEF TypesOK, clientVars
<1> QED
  BY <1>4, <1>5, <1>6, <1>7, <1>8 DEF TypesOK, Places

\* What may be taken for a header.
LEMMA HeadersTyped ==
  ASSUME TypesOK, LineOrdered, NEW i \in 1..Len(Line), NEW h \in HeadersFrom(Line[i])
  PROVE  /\ h \in [valid : BOOLEAN, seq : Nat, length : Nat]
         /\ h.seq \in {0, Line[i].of}
         /\ h.valid => /\ IsHeader(Line[i]) /\ h.seq = Line[i].of
                       /\ sent[h.seq].kind # "bad header"
                       /\ h.length = Len(sent[h.seq].body)
<1> DEFINE token == Line[i]
<1>1. token.of \in 1..Len(sent) /\ token.of \in Nat
  BY LineTyped DEF LineOrdered
<1>2. Len(sent[token.of].body) \in Nat
  BY <1>1, RequestsTyped
<1>3. h \in HeadersFrom(token)
  OBVIOUS
<1> HIDE DEF token
<1>4. CASE token.is = "header" /\ sent[token.of].kind # "bad header"
  <2>1. h = [valid |-> TRUE, seq |-> token.of, length |-> Len(sent[token.of].body)]
    BY <1>3, <1>4 DEF HeadersFrom
  <2> QED
    BY <1>1, <1>2, <1>4, <2>1 DEF IsHeader, token
<1>5. CASE ~(token.is = "header" /\ sent[token.of].kind # "bad header")
  <2>1. h \in [valid : {FALSE}, seq : {0, token.of}, length : 0..Payload + 1]
    BY <1>3, <1>5 DEF HeadersFrom
  <2>2. \A l \in 0..Payload + 1 : l \in Nat
    BY SnnUartAssumption
  <2>3. \A q \in {0, token.of} : q \in Nat
    BY <1>1
  <2>4. h \in [valid : BOOLEAN, seq : Nat, length : Nat] /\ h.seq \in {0, token.of} /\ ~h.valid
    <3> DEFINE L == 0..Payload + 1
               Q == {0, token.of}
    <3>1. h \in [valid : {FALSE}, seq : Q, length : L]
      BY <2>1
    <3>2. L \subseteq Nat /\ Q \subseteq Nat
      BY <2>2, <2>3
    <3> HIDE DEF L, Q
    <3>3. h \in [valid : BOOLEAN, seq : Nat, length : Nat] /\ h.seq \in Q /\ ~h.valid
      BY <3>1, <3>2
    <3> QED
      BY <3>3 DEF Q
  <2> QED
    BY <2>4 DEF token
<1> QED
  BY <1>4, <1>5

LEMMA TypesKept ==
  ASSUME TypesOK, LineOrdered, Current, [Next]_vars
  PROVE  TypesOK'
<1> USE DEF TypesOK, Places
<1>1. header.seq \in Nat /\ header.length \in Nat
  OBVIOUS
<1>2. CASE ReadTimesOut
  <2>1. fifo' \in Seq(Tokens)
    BY <1>2 DEF ReadTimesOut
  <2>2. /\ Return("TIMEOUT", <<>>) /\ <<>> \in Seq(Frames)
    BY <1>2 DEF ReadTimesOut
  <2> QED
    BY <1>2, <2>1, <2>2, ReturnTyped DEF ReadTimesOut
<1>3. CASE ScanByte
  <2>1. matched \in 0..3 /\ matched' = Scanned(matched, Head(fifo).is)
    BY <1>3 DEF ScanByte
  <2>2. matched' \in 0..matched + 1
    BY <2>1, ScanAdvances
  <2>3. fifo' \in Seq(Tokens)
    BY <1>3 DEF ScanByte
  <2>4. Len(Magic) = 4
    BY DEF Magic
  <2> QED
    BY <1>3, <2>1, <2>2, <2>3, <2>4 DEF ScanByte, clientVars
<1>4. CASE ReadHeader
  <2>1. fifo' \in Seq(Tokens) /\ 1 \in 1..Len(Line) /\ Head(fifo) = Line[1]
    BY <1>4, TokenRead DEF ReadHeader, clientVars
  <2>2. header' \in HeadersFrom(Line[1])
    BY <1>4, <2>1 DEF ReadHeader
  <2>3. header' \in [valid : BOOLEAN, seq : Nat, length : Nat]
    BY <2>1, <2>2, HeadersTyped
  <2> QED
    BY <1>4, <2>1, <2>3 DEF ReadHeader, clientVars
<1>5. CASE ReadByte
  BY <1>5 DEF ReadByte, clientVars
<1>6. CASE CheckPayload
  BY <1>6 DEF CheckPayload, clientVars
<1>7. ASSUME NEW type \in {"cut", "ERROR", "ACK", "RESULT"}
      PROVE  Answer(type) \in Frames /\ <<Answer(type)>> \in Seq(Frames)
  BY <1>1 DEF Answer, Frames
<1>17. ASSUME NEW status, NEW type \in {"cut", "ERROR", "ACK", "RESULT"},
              Return(status, <<Answer(type)>>), Untouched
       PROVE  TypesOK'
  <2>1. fifo' \in Seq(Tokens) /\ UNCHANGED clientVars
    BY <1>17 DEF Untouched
  <2> QED
    BY <1>7, <1>17, <2>1, ReturnTyped
<1>8. CASE WriteTimesOut
  BY <1>8, <1>17 DEF WriteTimesOut
<1>9. CASE ReplyError
  BY <1>9, <1>17 DEF ReplyError
<1>10. CASE SendAck
  <2>1. out' \in Seq(Frames)
    BY <1>7, <1>10 DEF SendAck
  <2> QED
    BY <1>10, <2>1 DEF SendAck, Untouched, clientVars
<1>11. CASE Infer
  BY <1>11 DEF Infer, Untouched, clientVars
<1>12. CASE SendResult
  BY <1>12, <1>17 DEF SendResult
<1>13. CASE DeadlinePasses
  BY <1>13 DEF DeadlinePasses, Untouched, clientVars
<1>14. CASE Halted \/ UNCHANGED vars
  BY <1>14 DEF Halted, vars, boardVars, clientVars
<1>15. ASSUME NEW request \in Requests, BeginRequest(request)
       PROVE  TypesOK'
  <2>1. Len(sent) + 1 \in Nat /\ request.body \in Seq(Letters)
    BY RequestsTyped, SnnUartAssumption
  <2>2. rest' \in Seq(Tokens)
    <3>1. RequestTokens(Len(sent) + 1, request.body) \in Seq(Tokens)
      BY <2>1, NewRequest, ZenonT(60)
    <3>2. rest' = RequestTokens(Len(sent) + 1, request.body)
      BY <1>15 DEF BeginRequest, RequestTokens
    <3> QED
      BY <3>1, <3>2
  <2>3. sent' \in Seq(Requests)
    BY <1>15 DEF BeginRequest
  <2> QED
    BY <1>15, <2>2, <2>3 DEF BeginRequest, boardVars
<1>16. CASE SendToken
  <2>1. Head(rest) \in Tokens /\ rest' \in Seq(Tokens)
    BY <1>16 DEF SendToken
  <2>2. fifo' = Append(fifo, Head(rest)) \/ fifo' = fifo
    BY <1>16 DEF SendToken
  <2>3. fifo' \in Seq(Tokens)
    <3>1. Append(fifo, Head(rest)) \in Seq(Tokens) /\ fifo \in Seq(Tokens)
      BY <2>1, AppendProperties
    <3> QED
      BY <2>2, <3>1
  <2> QED
    BY <1>16, <2>1, <2>3 DEF SendToken, boardVars
<1> QED
  BY <1>2, <1>3, <1>4, <1>5, <1>6, <1>8, <1>9, <1>10, <1>11, <1>12, <1>13, <1>14,
     <1>15, <1>16 DEF Next, Transaction

(***************************************************************************)
(* The line gets shorter.                                                  *)
(***************************************************************************)

LEMMA OrderKept ==
  ASSUME TypesOK, TypesOK', LineOrdered, Thinned, sent' = sent
  PROVE  /\ LineOrdered'
         /\ \A n : Gone(n) => Gone(n)'
         /\ \A i \in 1..Len(Line') : \E a \in 1..Len(Line) : Line'[i] = Line[a] /\ i <= a
<1>1. Len(Line) \in Nat /\ Len(Line') \in Nat
  BY LineTyped, LinePointsNext DEF TypesOK
<1>2. ASSUME NEW i \in 1..Len(Line')
      PROVE  \E a \in 1..Len(Line) : Line'[i] = Line[a] /\ i <= a
  <2>1. i <= i
    BY <1>1
  <2> QED
    BY <2>1 DEF Thinned
<1>3. \A i \in 1..Len(Line') : Line'[i].of \in 1..Len(sent')
  BY <1>2 DEF LineOrdered
<1>4. ASSUME NEW i \in 1..Len(Line'), NEW j \in 1..Len(Line'), i < j
      PROVE  Line'[i].of <= Line'[j].of /\ (Line'[i].of = Line'[j].of => Whole(i, j)')
  <2>1. PICK a \in 1..Len(Line), b \in 1..Len(Line) :
          /\ Line'[i] = Line[a] /\ Line'[j] = Line[b]
          /\ i <= a /\ j - i <= b - a /\ (i < j => a < b)
    <3>1. i <= j
      BY <1>1, <1>4
    <3> QED
      BY <3>1 DEF Thinned
  <2>2. a < b
    BY <1>4, <2>1
  <2>3. Line[a].of <= Line[b].of /\ (Line[a].of = Line[b].of => Whole(a, b))
    BY <2>2 DEF LineOrdered
  <2>4. ASSUME Line'[i].of = Line'[j].of PROVE Whole(i, j)'
    <3>1. Whole(a, b)
      BY <2>1, <2>3, <2>4
    <3>2. IsHeader(Line'[j]) => j - i <= 4
      BY <1>1, <2>1, <3>1 DEF Whole
    <3>3. Len(sent[Line[a].of].body) \in Nat
      BY RequestsTyped DEF LineOrdered
    <3>4. IsHeader(Line'[i]) => ~IsHeader(Line'[j]) /\ j - i <= Len(sent'[Line'[i].of].body)
      BY <1>1, <2>1, <3>1, <3>3 DEF Whole
    <3> QED
      BY <3>2, <3>4 DEF Whole, IsHeader
  <2> QED
    BY <2>1, <2>3, <2>4
<1>5. ASSUME NEW n, Gone(n) PROVE Gone(n)'
  BY <1>2, <1>5 DEF Gone
<1> QED
  BY <1>2, <1>3, <1>4, <1>5 DEF LineOrdered

\* Frames that stay as they are stay earned.
LEMMA FramesKept ==
  ASSUME out' = out
  PROVE  \A n : /\ Seen(n)' <=> Seen(n)
                /\ Acked(n)' <=> Acked(n)
                /\ OnlyAcked(n)' <=> OnlyAcked(n)
  BY DEF Seen, Acked, OnlyAcked, Ack

LEMMA RepliesKept ==
  ASSUME Earned, out' = out, sent' = sent,
         \A n : Gone(n) => Gone(n)'
  PROVE  Served' /\ Numbered' /\ ResultIsEarned'
<1>1. Served /\ Numbered /\ ResultIsEarned
  BY DEF Earned
<1>2. Numbered'
  BY <1>1 DEF Numbered
<1>3. ResultIsEarned'
  BY <1>1 DEF ResultIsEarned, Computable
<1>4. Served'
  <2> SUFFICES ASSUME NEW n, Acked(n)'
               PROVE  n \in 1..Len(sent) /\ Computable(sent[n]) /\ Gone(n)'
    BY DEF Served, Computable
  <2>1. Acked(n)
    BY DEF Acked, Ack
  <2> QED
    BY <1>1, <2>1 DEF Served
<1> QED
  BY <1>2, <1>3, <1>4

\* A step of the line alone, or of the clock.
LEMMA LineMoves ==
  ASSUME Earned, TypesOK', Thinned,
         UNCHANGED <<pc, matched, header, input, reply, out, sent>>
  PROVE  Earned'
<1> USE DEF Earned
<1>1. Len(Line) \in Nat /\ Len(Line') \in Nat /\ Len(input) \in Nat
  BY LineTyped, LinePointsNext DEF TypesOK
<1>2. /\ LineOrdered'
      /\ \A n : Gone(n) => Gone(n)'
      /\ \A i \in 1..Len(Line') : \E a \in 1..Len(Line) : Line'[i] = Line[a] /\ i <= a
  BY OrderKept
<1>3. \A n : /\ Seen(n)' <=> Seen(n)
             /\ Acked(n)' <=> Acked(n)
             /\ OnlyAcked(n)' <=> OnlyAcked(n)
  BY FramesKept
<1>4. Served' /\ Numbered' /\ ResultIsEarned'
  BY <1>2, RepliesKept
<1>5. Spoilt'
  <2>1. matched \in Nat
    BY DEF TypesOK
  <2>2. ASSUME NEW i \in 1..Len(Line'), IsHeader(Line'[i])
        PROVE  /\ Seen(Line'[i].of) => pc \in {"scan", "halted"} /\ matched + i <= 4
               /\ ~header.valid /\ header.seq = Line'[i].of => i <= 4
    <3>1. PICK a \in 1..Len(Line) : Line'[i] = Line[a] /\ i <= a
      BY <1>2
    <3>2. /\ Seen(Line[a].of) => pc \in {"scan", "halted"} /\ matched + a <= 4
          /\ ~header.valid /\ header.seq = Line[a].of => a <= 4
      BY <2>2, <3>1 DEF Spoilt
    <3> QED
      BY <1>1, <2>1, <3>1, <3>2
  <2> QED
    BY <1>3, <2>2 DEF Spoilt, IsHeader
<1>6. Arriving'
  <2> SUFFICES ASSUME pc = "payload", header.valid,
                      \A k \in 1..Len(input) : input[k].of = header.seq,
                      NEW i \in 1..Len(Line'), NEW j \in 1..Len(Line'), i <= j,
                      Line'[i].of = header.seq, Line'[j].of = header.seq
               PROVE  j - i + 1 + Len(input) <= header.length
    BY DEF Arriving
  <2>1. PICK a \in 1..Len(Line), b \in 1..Len(Line) :
          /\ Line'[i] = Line[a] /\ Line'[j] = Line[b]
          /\ i <= a /\ j - i <= b - a /\ (i < j => a < b)
    BY DEF Thinned
  <2>2. a <= b
    BY <1>1, <2>1
  <2>3. b - a + 1 + Len(input) <= header.length
    BY <2>1, <2>2 DEF Arriving
  <2>4. header.length \in Nat
    BY DEF TypesOK
  <2> QED
    BY <1>1, <2>1, <2>3, <2>4
<1>7. Current'
  <2>1. HeaderRead => HeaderRead'
    BY <1>2 DEF HeaderRead, IsHeader
  <2>2. Current
    OBVIOUS
  <2>3. pc \in {"ack", "infer", "result"} => Gone(header.seq)'
    BY <1>2, <2>2 DEF Current
  <2>4. Idle' = Idle /\ Computed' = Computed
    BY DEF Idle, Computed, NoHeader
  <2> HIDE DEF Earned
  <2> QED
    BY <1>3, <2>1, <2>2, <2>3, <2>4 DEF Current, Computable
<1> QED
  BY <1>2, <1>4, <1>5, <1>6, <1>7

(***************************************************************************)
(* The client begins another request.                                      *)
(***************************************************************************)

LEMMA RequestBegun ==
  ASSUME Earned, TypesOK', NEW request \in Requests, BeginRequest(request)
  PROVE  /\ Len(sent') = Len(sent) + 1 /\ Len(sent) \in Nat
         /\ \A k \in 1..Len(sent) : sent'[k] = sent[k] /\ k \in 1..Len(sent')
         /\ UNCHANGED <<boardVars, fifo>>
         /\ Len(fifo) \in Nat /\ Len(Line') \in Nat
         /\ \A i \in 1..Len(Line') : i <= Len(fifo) => i \in 1..Len(Line) /\ Line'[i] = Line[i]
         /\ \A i \in 1..Len(Line') : i > Len(fifo) =>
              /\ Line'[i].of = Len(sent')
              /\ IsHeader(Line'[i]) <=> i = Len(fifo) + 5
         /\ Len(Line') = Len(fifo) + 5 + Len(sent'[Len(sent')].body)
         /\ Len(sent'[Len(sent')].body) \in Nat
<1> DEFINE n == Len(sent) + 1
           body == request.body
<1>1. n \in Nat /\ body \in Seq(Letters) /\ Len(sent) \in Nat
  BY RequestsTyped, SnnUartAssumption DEF Earned
<1>2. /\ sent' = Append(sent, request) /\ rest' = RequestTokens(n, body)
      /\ UNCHANGED <<boardVars, fifo>>
  BY DEF BeginRequest, RequestTokens
<1> HIDE DEF body
<1>3. /\ Len(rest') = 5 + Len(body) /\ Len(body) \in Nat
      /\ \A i \in 1..Len(rest') : rest'[i].of = n /\ (IsHeader(rest'[i]) <=> i = 5)
  <2>1. LET w == RequestTokens(n, body)
        IN  /\ w \in Seq(Tokens) /\ Len(w) = 5 + Len(body) /\ Len(body) \in Nat
            /\ \A i \in 1..Len(w) : w[i].of = n /\ (IsHeader(w[i]) <=> i = 5)
    BY <1>1, NewRequest, ZenonT(60)
  <2> QED
    BY <1>2, <2>1
<1>4. /\ Len(sent') = n /\ sent'[n] = request
      /\ \A k \in 1..Len(sent) : sent'[k] = sent[k] /\ k \in 1..Len(sent')
  BY <1>1, <1>2 DEF Earned, TypesOK
<1>5. fifo \in Seq(Tokens) /\ rest \in Seq(Tokens) /\ rest' \in Seq(Tokens) /\ fifo' = fifo
  BY <1>2 DEF Earned, TypesOK
<1>6. /\ Len(fifo) \in Nat
      /\ \A i \in 1..Len(fifo) : i \in 1..Len(Line) /\ Line[i] = fifo[i]
  BY <1>5, LinePoints
<1>7. /\ Len(Line') = Len(fifo) + Len(rest')
      /\ \A i \in 1..Len(fifo) : Line'[i] = fifo[i]
      /\ \A i \in 1..Len(rest') : Line'[Len(fifo) + i] = rest'[i]
  BY <1>5, LinePointsNext
<1>8. ASSUME NEW i \in 1..Len(Line'), i <= Len(fifo)
      PROVE  i \in 1..Len(Line) /\ Line'[i] = Line[i]
  <2>1. i \in 1..Len(fifo)
    BY <1>3, <1>6, <1>7, <1>8
  <2> QED
    BY <1>6, <1>7, <2>1
<1>9. ASSUME NEW i \in 1..Len(Line'), i > Len(fifo)
      PROVE  Line'[i].of = Len(sent') /\ (IsHeader(Line'[i]) <=> i = Len(fifo) + 5)
  <2> DEFINE k == i - Len(fifo)
  <2>1. k \in 1..Len(rest') /\ Len(fifo) + k = i /\ (k = 5 <=> i = Len(fifo) + 5)
    BY <1>3, <1>6, <1>7, <1>9
  <2> HIDE DEF k, n
  <2>2. Line'[i] = rest'[k]
    BY <1>7, <2>1
  <2>3. rest'[k].of = n /\ (IsHeader(rest'[k]) <=> k = 5)
    BY <1>3, <2>1
  <2> QED
    BY <1>4, <2>1, <2>2, <2>3
<1>10. sent'[Len(sent')].body = body
  BY <1>4 DEF body
<1>11. Len(Line') \in Nat /\ Len(Line') = Len(fifo) + 5 + Len(body)
  BY <1>3, <1>6, <1>7
<1> QED
  BY <1>1, <1>2, <1>3, <1>4, <1>6, <1>8, <1>9, <1>10, <1>11

LEMMA RequestOrdered ==
  ASSUME Earned, TypesOK', NEW request \in Requests, BeginRequest(request)
  PROVE  LineOrdered'
<1> DEFINE n == Len(sent')
<1> DEFINE l == Len(fifo)
           new == Len(sent'[n].body)
           size == Len(Line')
<1>1. /\ n = Len(sent) + 1 /\ Len(sent) \in Nat
      /\ l \in Nat /\ size \in Nat /\ size = l + 5 + new /\ new \in Nat
  BY RequestBegun
<1>6. \A k \in 1..Len(sent) : sent'[k] = sent[k] /\ k \in 1..n
  BY RequestBegun
<1>7. \A i \in 1..size : i <= l => i \in 1..Len(Line) /\ Line'[i] = Line[i]
  BY RequestBegun
<1>8. \A i \in 1..size : i > l =>
        Line'[i].of = n /\ (IsHeader(Line'[i]) <=> i = l + 5)
  BY RequestBegun
<1> HIDE DEF n, l, new, size
<1>2. LineOrdered
  BY DEF Earned
<1>3. ASSUME NEW i \in 1..size, i <= l
      PROVE  /\ i \in 1..Len(Line) /\ Line'[i] = Line[i]
             /\ Line'[i].of \in 1..Len(sent) /\ Line'[i].of < n
  <2>1. i \in 1..Len(Line) /\ Line'[i] = Line[i]
    BY <1>3, <1>7
  <2>2. Line[i].of \in 1..Len(sent)
    BY <1>2, <2>1 DEF LineOrdered
  <2>3. \A k \in 1..Len(sent) : k < n
    BY <1>1
  <2> QED
    BY <2>1, <2>2, <2>3
<1>4. ASSUME NEW i \in 1..size PROVE Line'[i].of \in 1..n
  <2>1. CASE i <= l
    <3>1. \A k \in 1..Len(sent) : k \in 1..n
      BY <1>1
    <3> QED
      BY <1>3, <2>1, <3>1
  <2>2. CASE i > l
    <3>1. Line'[i].of = n
      BY <1>8, <2>2
    <3> QED
      BY <1>1, <3>1
  <2> QED
    BY <1>1, <2>1, <2>2
<1>5. ASSUME NEW i \in 1..size, NEW j \in 1..size, i < j
      PROVE  Line'[i].of <= Line'[j].of /\ (Line'[i].of = Line'[j].of => Whole(i, j)')
  <2>1. CASE j <= l
    <3>1. i <= l
      BY <1>1, <1>5, <2>1
    <3>2. Line[i].of <= Line[j].of /\ (Line[i].of = Line[j].of => Whole(i, j))
      BY <1>2, <1>3, <1>5, <2>1, <3>1 DEF LineOrdered
    <3>3. sent'[Line'[i].of] = sent[Line[i].of] /\ Line'[i] = Line[i] /\ Line'[j] = Line[j]
      BY <1>3, <1>6, <2>1, <3>1
    <3>4. Whole(i, j) => Whole(i, j)'
      BY <3>3 DEF Whole, IsHeader
    <3> QED
      BY <3>2, <3>3, <3>4
  <2>2. CASE j > l /\ i <= l
    <3>1. Line'[i].of < n /\ Line'[i].of \in 1..Len(sent)
      BY <1>3, <2>2
    <3>2. Line'[j].of = n
      BY <1>8, <2>2
    <3> QED
      BY <1>1, <3>1, <3>2
  <2>3. CASE i > l
    <3>1. j > l
      BY <1>1, <1>5, <2>3
    <3>2. Line'[i].of = n /\ Line'[j].of = n
      BY <1>8, <2>3, <3>1
    <3>3. ASSUME IsHeader(Line'[i])
          PROVE  ~IsHeader(Line'[j]) /\ j - i <= Len(sent'[Line'[i].of].body)
      <4>1. i = l + 5
        BY <1>8, <2>3, <3>3
      <4>2. j # l + 5 /\ j - i <= new
        BY <1>1, <1>5, <4>1
      <4> QED
        BY <1>8, <3>1, <3>2, <4>2 DEF new
    <3>4. ASSUME IsHeader(Line'[j]) PROVE j - i <= 4
      <4>1. j = l + 5
        BY <1>8, <3>1, <3>4
      <4> QED
        BY <1>1, <2>3, <4>1
    <3>5. Whole(i, j)'
      BY <3>3, <3>4 DEF Whole, IsHeader
    <3> QED
      BY <1>1, <3>2, <3>5
  <2> QED
    BY <1>1, <2>1, <2>2, <2>3
<1> QED
  BY <1>4, <1>5 DEF LineOrdered, n, size

LEMMA RequestKeeps ==
  ASSUME Earned, TypesOK', NEW request \in Requests, BeginRequest(request)
  PROVE  Earned'
<1> USE DEF Earned
<1> DEFINE n == Len(sent')
<1>1. /\ n = Len(sent) + 1 /\ Len(sent) \in Nat
      /\ \A k \in 1..Len(sent) : sent'[k] = sent[k] /\ k \in 1..n
      /\ UNCHANGED <<boardVars, fifo>>
      /\ Len(fifo) \in Nat /\ Len(Line') \in Nat
      /\ \A i \in 1..Len(Line') : i <= Len(fifo) => i \in 1..Len(Line) /\ Line'[i] = Line[i]
      /\ \A i \in 1..Len(Line') : i > Len(fifo) => Line'[i].of = n
  BY RequestBegun
<1>2. LineOrdered'
  BY RequestOrdered
<1> HIDE DEF n
<1>3. UNCHANGED <<pc, late, matched, header, input, reply, out>>
  BY <1>1 DEF boardVars
<1>4. \A k : /\ Seen(k)' <=> Seen(k)
             /\ Acked(k)' <=> Acked(k)
             /\ OnlyAcked(k)' <=> OnlyAcked(k)
  BY <1>3, FramesKept
<1>5. ~Seen(n) /\ n # 0 /\ header.seq \in 0..Len(sent) /\ header.seq # n
  BY <1>1 DEF Seen, Numbered, Current
<1>6. ASSUME NEW i \in 1..Len(Line')
      PROVE  Line'[i].of = n \/ (i \in 1..Len(Line) /\ Line'[i] = Line[i])
  BY <1>1
<1>7. ASSUME NEW k, k # n, Gone(k) PROVE Gone(k)'
  BY <1>6, <1>7 DEF Gone
<1>8. Spoilt'
  <2>1. Spoilt
    OBVIOUS
  <2> HIDE DEF Earned
  <2>2. ASSUME NEW i \in 1..Len(Line'), IsHeader(Line'[i])
        PROVE  /\ Seen(Line'[i].of) => pc \in {"scan", "halted"} /\ matched + i <= 4
               /\ ~header.valid /\ header.seq = Line'[i].of => i <= 4
    BY <1>5, <1>6, <2>1, <2>2 DEF Spoilt
  <2> QED
    BY <1>3, <1>4, <2>2 DEF Spoilt, IsHeader
<1>9. Arriving'
  <2>1. Arriving
    OBVIOUS
  <2> HIDE DEF Earned
  <2> SUFFICES ASSUME pc = "payload", header.valid,
                      \A k \in 1..Len(input) : input[k].of = header.seq,
                      NEW i \in 1..Len(Line'), NEW j \in 1..Len(Line'), i <= j,
                      Line'[i].of = header.seq, Line'[j].of = header.seq
               PROVE  j - i + 1 + Len(input) <= header.length
    BY <1>3 DEF Arriving
  <2>2. /\ i \in 1..Len(Line) /\ Line'[i] = Line[i]
        /\ j \in 1..Len(Line) /\ Line'[j] = Line[j]
    BY <1>5, <1>6
  <2> QED
    BY <2>1, <2>2 DEF Arriving
<1>10. Current'
  <2>1. Current
    OBVIOUS
  <2> HIDE DEF Earned
  <2>2. header.valid => HeaderRead'
    <3> SUFFICES ASSUME header.valid PROVE HeaderRead'
      OBVIOUS
    <3>1. HeaderRead
      BY <2>1 DEF Current
    <3>2. \A i \in 1..Len(Line') : IsHeader(Line'[i]) => Line'[i].of # header.seq
      BY <1>5, <1>6, <3>1 DEF HeaderRead
    <3>3. /\ header.seq \in 1..Len(sent) /\ header.length = Len(sent[header.seq].body)
          /\ sent[header.seq].kind # "bad header"
      BY <3>1 DEF HeaderRead
    <3>4. sent'[header.seq] = sent[header.seq] /\ header.seq \in 1..Len(sent')
      BY <1>1, <3>3 DEF n
    <3>5. header' = header
      BY <1>3
    <3> QED
      BY <3>2, <3>3, <3>4, <3>5 DEF HeaderRead, IsHeader
  <2>3. pc \in {"ack", "infer", "result"} =>
          header.valid /\ Computable(sent[header.seq])' /\ Gone(header.seq)'
    <3> SUFFICES ASSUME pc \in {"ack", "infer", "result"}
                 PROVE  header.valid /\ Computable(sent[header.seq])' /\ Gone(header.seq)'
      OBVIOUS
    <3>1. header.valid /\ Computable(sent[header.seq]) /\ Gone(header.seq)
      BY <2>1 DEF Current
    <3>2. sent'[header.seq] = sent[header.seq]
      BY <1>1, <2>1, <3>1 DEF Current, HeaderRead
    <3>3. Gone(header.seq)'
      BY <1>3, <1>5, <1>6, <3>1 DEF Gone
    <3> QED
      BY <1>3, <3>1, <3>2, <3>3 DEF Computable
  <2>4. (Idle' <=> Idle) /\ (Computed' <=> Computed)
    BY <1>3 DEF Idle, Computed, NoHeader
  <2>5. header.seq \in 0..Len(sent')
    BY <1>1, <1>5 DEF n
  <2> QED
    BY <1>3, <1>4, <2>1, <2>2, <2>3, <2>4, <2>5 DEF Current, Computable
<1>11. Served' /\ Numbered' /\ ResultIsEarned'
  <2>1. Served /\ Numbered /\ ResultIsEarned
    OBVIOUS
  <2> HIDE DEF Earned
  <2>2. Served'
    <3> SUFFICES ASSUME NEW k, Acked(k)'
                 PROVE  k \in 1..Len(sent') /\ Computable(sent'[k]) /\ Gone(k)'
      BY DEF Served, Computable
    <3>1. k \in 1..Len(sent) /\ Computable(sent[k]) /\ Gone(k)
      BY <1>4, <2>1 DEF Served
    <3> QED
      BY <1>1, <1>7, <3>1 DEF n
  <2>3. Numbered'
    BY <1>1, <1>3, <2>1 DEF Numbered, n
  <2>4. ResultIsEarned'
    BY <1>1, <1>3, <2>1 DEF ResultIsEarned, Computable, n
  <2> QED
    BY <2>2, <2>3, <2>4
<1> QED
  BY <1>2, <1>8, <1>9, <1>10, <1>11

(***************************************************************************)
(* The board reads.                                                        *)
(***************************************************************************)

LEMMA FrontKept ==
  ASSUME Earned, TypesOK', fifo # <<>>, fifo' = Tail(fifo), UNCHANGED clientVars
  PROVE  /\ Thinned /\ LineOrdered' /\ sent' = sent
         /\ 1 \in 1..Len(Line) /\ Head(fifo) = Line[1]
         /\ Len(Line) \in Nat /\ Len(Line') \in Nat
         /\ \A i \in 1..Len(Line') : i + 1 \in 1..Len(Line) /\ Line'[i] = Line[i + 1]
         /\ \A n : Gone(n) => Gone(n)'
<1>1. fifo \in Seq(Tokens) /\ rest \in Seq(Tokens) /\ rest' = rest /\ sent' = sent
  BY DEF Earned, TypesOK, clientVars
<1>2. FrontRead /\ 1 \in 1..Len(Line) /\ Head(fifo) = Line[1]
  BY <1>1, TokenRead
<1>3. Thinned
  BY <1>2, ReadThins
<1>4. LineOrdered' /\ \A n : Gone(n) => Gone(n)'
  BY <1>1, <1>3, OrderKept DEF Earned
<1>5. Len(Line) \in Nat /\ Len(Line') \in Nat
  BY LineTyped, LinePointsNext DEF TypesOK, Earned
<1> QED
  BY <1>1, <1>2, <1>3, <1>4, <1>5 DEF FrontRead

LEMMA ScanKeeps ==
  ASSUME Earned, TypesOK', ScanByte
  PROVE  Earned'
<1> USE DEF Earned
<1>1. fifo # <<>> /\ fifo' = Tail(fifo) /\ UNCHANGED <<header, input, reply, out, clientVars>>
  BY DEF ScanByte
<1>2. /\ LineOrdered' /\ sent' = sent
      /\ Len(Line) \in Nat /\ Len(Line') \in Nat
      /\ \A i \in 1..Len(Line') : i + 1 \in 1..Len(Line) /\ Line'[i] = Line[i + 1]
      /\ \A n : Gone(n) => Gone(n)'
  BY <1>1, FrontKept
<1>3. \A n : /\ Seen(n)' <=> Seen(n)
             /\ Acked(n)' <=> Acked(n)
             /\ OnlyAcked(n)' <=> OnlyAcked(n)
  BY <1>1, FramesKept
<1>4. Served' /\ Numbered' /\ ResultIsEarned'
  BY <1>1, <1>2, RepliesKept
<1>5. /\ pc = "scan" /\ pc' \in {"scan", "header"}
      /\ matched \in 0..3 /\ matched' \in 0..matched + 1
      /\ matched' < 4 => pc' = "scan"
  <2>1. matched \in 0..3 /\ pc = "scan"
    BY DEF TypesOK, ScanByte
  <2>2. matched' = Scanned(matched, Head(fifo).is) /\ Len(Magic) = 4
    BY DEF ScanByte, Magic
  <2>3. matched' \in 0..matched + 1
    BY <2>1, <2>2, ScanAdvances
  <2> QED
    BY <2>1, <2>2, <2>3 DEF ScanByte
<1>12. \A i \in Nat \ {0} :
         matched + (i + 1) <= 4 => matched' + i <= 4 /\ matched' < 4
  <2>1. matched \in Nat /\ matched' \in Nat /\ matched' <= matched + 1
    BY <1>5
  <2>2. \A m, k \in Nat : k <= m + 1 =>
          \A i \in Nat \ {0} : m + (i + 1) <= 4 => k + i <= 4 /\ k < 4
    OBVIOUS
  <2> QED
    BY <2>1, <2>2
<1>6. Idle /\ Idle'
  BY <1>1, <1>5 DEF Current, Idle, NoHeader
<1>7. LineOrdered /\ Spoilt /\ Current
  OBVIOUS
<1> HIDE DEF Earned
<1>8. header.seq = 0 /\ header.valid = FALSE /\ reply = "none"
  BY <1>6 DEF Idle, NoHeader
<1>9. Spoilt'
  <2>1. ASSUME NEW i \in 1..Len(Line'), IsHeader(Line'[i])
        PROVE  /\ Seen(Line'[i].of) => pc' \in {"scan", "halted"} /\ matched' + i <= 4
               /\ header.seq # Line'[i].of
    <3>1. i + 1 \in 1..Len(Line) /\ Line'[i] = Line[i + 1]
      BY <1>2
    <3>2. Seen(Line[i + 1].of) => matched + (i + 1) <= 4
      BY <1>7, <2>1, <3>1 DEF Spoilt
    <3>3. ASSUME Seen(Line[i + 1].of) PROVE matched' + i <= 4 /\ matched' < 4
      <4>1. matched + (i + 1) <= 4
        BY <3>2, <3>3
      <4>2. i \in Nat \ {0}
        BY <1>2
      <4> QED
        BY <1>12, <4>1, <4>2
    <3>4. Line[i + 1].of # 0
      BY <1>7, <3>1 DEF LineOrdered
    <3> QED
      BY <1>5, <1>8, <3>1, <3>3, <3>4
  <2> QED
    BY <1>1, <1>3, <2>1 DEF Spoilt, IsHeader
<1>10. Arriving'
  BY <1>5 DEF Arriving
<1>11. Current'
  <2>1. ~Computed'
    BY <1>1, <1>5, <1>8 DEF Computed
  <2> QED
    BY <1>1, <1>2, <1>5, <1>6, <1>8, <2>1 DEF Current
<1> QED
  BY <1>2, <1>4, <1>9, <1>10, <1>11 DEF Earned

LEMMA HeaderKeeps ==
  ASSUME Earned, TypesOK', ReadHeader
  PROVE  Earned'
<1> USE DEF Earned
<1>1. /\ fifo # <<>> /\ fifo' = Tail(fifo)
      /\ UNCHANGED <<input, out, clientVars>> /\ pc = "header"
      /\ header' \in HeadersFrom(Head(fifo))
  BY DEF ReadHeader
<1>2. /\ LineOrdered' /\ sent' = sent
      /\ Len(Line) \in Nat /\ Len(Line') \in Nat
      /\ \A i \in 1..Len(Line') : i + 1 \in 1..Len(Line) /\ Line'[i] = Line[i + 1]
      /\ \A n : Gone(n) => Gone(n)'
  BY <1>1, FrontKept
<1>3. \A n : /\ Seen(n)' <=> Seen(n)
             /\ Acked(n)' <=> Acked(n)
             /\ OnlyAcked(n)' <=> OnlyAcked(n)
  BY <1>1, FramesKept
<1>4. Served' /\ Numbered' /\ ResultIsEarned'
  BY <1>1, <1>2, RepliesKept
<1>5. 1 \in 1..Len(Line) /\ Head(fifo) = Line[1]
  BY <1>1, FrontKept
<1>6. TypesOK /\ LineOrdered /\ Spoilt /\ Current /\ Served
  OBVIOUS
<1> HIDE DEF Earned
<1> DEFINE t == Line[1].of
<1>7. t \in 1..Len(sent) /\ Len(sent) \in Nat /\ Len(sent[t].body) \in Nat
  BY <1>5, <1>6, RequestsTyped DEF LineOrdered
<1>8. /\ header'.seq \in {0, t}
      /\ header'.valid => /\ IsHeader(Line[1]) /\ header'.seq = t
                          /\ sent[t].kind # "bad header"
                          /\ header'.length = Len(sent[t].body)
  <2>1. header' \in HeadersFrom(Line[1])
    BY <1>1, <1>5
  <2> QED
    BY <1>5, <1>6, <2>1, HeadersTyped
<1>9. /\ input' = <<>> /\ pc' \in {"reply", "payload"}
      /\ reply' \in {"none", "BAD_PAYLOAD", "BAD_HEADER"}
  BY <1>1, <1>6 DEF Current, Idle, ReadHeader
<1>10. ~Computed'
  BY <1>9 DEF Computed
<1>11. ASSUME NEW i \in 1..Len(Line'), Line'[i].of = t
       PROVE  Whole(1, i + 1)
  <2>1. i + 1 \in 1..Len(Line) /\ Line[i + 1].of = t /\ 1 < i + 1
    BY <1>2, <1>11
  <2> QED
    BY <1>5, <1>6, <2>1 DEF LineOrdered
<1>12. ~Acked(t)
  BY <1>5, <1>6 DEF Served, Gone
<1>13. ASSUME IsHeader(Line[1]) PROVE ~Seen(t)
  BY <1>1, <1>5, <1>6, <1>13 DEF Spoilt
<1> HIDE DEF t
<1>14. Spoilt'
  <2>1. ASSUME NEW i \in 1..Len(Line'), IsHeader(Line'[i])
        PROVE  ~Seen(Line'[i].of) /\ (header'.seq = Line'[i].of => i <= 4)
    <3>1. i + 1 \in 1..Len(Line) /\ Line'[i] = Line[i + 1]
      BY <1>2
    <3>2. ~Seen(Line'[i].of)
      BY <1>1, <1>6, <2>1, <3>1 DEF Spoilt
    <3>3. ASSUME header'.seq = Line'[i].of PROVE i <= 4
      <4>1. Line'[i].of # 0
        BY <1>6, <3>1 DEF LineOrdered
      <4>2. Line'[i].of = t
        BY <1>8, <3>3, <4>1
      <4>3. (i + 1) - 1 <= 4
        BY <1>11, <2>1, <3>1, <4>2 DEF Whole
      <4> QED
        BY <1>2, <4>3
    <3> QED
      BY <3>2, <3>3
  <2> QED
    BY <1>3, <2>1 DEF Spoilt, IsHeader
<1>15. Arriving'
  <2> SUFFICES ASSUME header'.valid,
                      NEW i \in 1..Len(Line'), NEW j \in 1..Len(Line'), i <= j,
                      Line'[j].of = header'.seq
               PROVE  j - i + 1 + Len(input') <= header'.length
    BY DEF Arriving
  <2>1. j + 1 \in 1..Len(Line) /\ Whole(1, j + 1)
    BY <1>2, <1>8, <1>11
  <2>2. IsHeader(Line[1]) /\ header'.length = Len(sent[t].body)
    BY <1>8
  <2>3. (j + 1) - 1 <= Len(sent[t].body)
    BY <2>1, <2>2 DEF Whole, t
  <2>4. Len(input') = 0
    BY <1>9
  <2> QED
    BY <1>2, <1>7, <2>2, <2>3, <2>4
<1>16. Current'
  <2>1. ASSUME header'.valid PROVE HeaderRead'
    <3>1. ASSUME NEW i \in 1..Len(Line'), IsHeader(Line'[i]) PROVE Line'[i].of # header'.seq
      <4>1. i + 1 \in 1..Len(Line) /\ Line'[i] = Line[i + 1]
        BY <1>2
      <4> SUFFICES ASSUME Line'[i].of = t PROVE FALSE
        BY <1>8, <2>1
      <4> QED
        BY <1>8, <1>11, <2>1, <3>1, <4>1 DEF Whole
    <3> QED
      BY <1>2, <1>7, <1>8, <2>1, <3>1 DEF HeaderRead, IsHeader
  <2>2. header'.seq \in 0..Len(sent')
    <3>1. header'.seq = 0 \/ header'.seq = t
      BY <1>8
    <3>2. sent' = sent
      BY <1>2
    <3> QED
      BY <1>7, <3>1, <3>2
  <2>3. header'.valid => ~Seen(header'.seq)
    BY <1>8, <1>13
  <2>4. header'.seq # 0 => ~Acked(header'.seq)
    BY <1>8, <1>12
  <2>5. Seen(header.seq)' <=> Seen(header'.seq)
    BY <1>1 DEF Seen
  <2>6. Acked(header.seq)' <=> Acked(header'.seq)
    BY <1>1 DEF Acked, Ack
  <2> QED
    BY <1>9, <1>10, <2>1, <2>2, <2>3, <2>4, <2>5, <2>6 DEF Current
<1> QED
  BY <1>2, <1>4, <1>14, <1>15, <1>16 DEF Earned

LEMMA ByteKeeps ==
  ASSUME Earned, TypesOK', ReadByte
  PROVE  Earned'
<1> USE DEF Earned
<1>1. /\ fifo # <<>> /\ fifo' = Tail(fifo) /\ pc = "payload"
      /\ UNCHANGED <<pc, matched, header, reply, out, clientVars>>
      /\ input' = Append(input, Head(fifo))
  BY DEF ReadByte
<1>2. /\ LineOrdered' /\ sent' = sent
      /\ 1 \in 1..Len(Line) /\ Head(fifo) = Line[1]
      /\ Len(Line) \in Nat /\ Len(Line') \in Nat
      /\ \A i \in 1..Len(Line') : i + 1 \in 1..Len(Line) /\ Line'[i] = Line[i + 1]
      /\ \A n : Gone(n) => Gone(n)'
  BY <1>1, FrontKept
<1>3. \A n : /\ Seen(n)' <=> Seen(n)
             /\ Acked(n)' <=> Acked(n)
             /\ OnlyAcked(n)' <=> OnlyAcked(n)
  BY <1>1, FramesKept
<1>4. Served' /\ Numbered' /\ ResultIsEarned'
  BY <1>1, <1>2, RepliesKept
<1>5. Spoilt /\ Arriving /\ Current
  OBVIOUS
<1>6. /\ input \in Seq(Tokens) /\ Line[1] \in Tokens /\ header.length \in Nat
  BY <1>2, LineTyped DEF TypesOK
<1>7. /\ Len(input) \in Nat /\ Len(input') = Len(input) + 1
      /\ input'[Len(input) + 1] = Line[1]
      /\ \A k \in 1..Len(input) : input'[k] = input[k]
  <2>1. input' = Append(input, Line[1])
    BY <1>1, <1>2
  <2> QED
    BY <1>6, <2>1
<1> HIDE DEF Earned
<1>8. Spoilt'
  <2>1. ASSUME NEW i \in 1..Len(Line'), IsHeader(Line'[i])
        PROVE  /\ ~Seen(Line'[i].of)
               /\ ~header.valid /\ header.seq = Line'[i].of => i <= 4
    <3>1. i + 1 \in 1..Len(Line) /\ Line'[i] = Line[i + 1]
      BY <1>2
    <3>2. /\ ~Seen(Line'[i].of)
          /\ ~header.valid /\ header.seq = Line'[i].of => i + 1 <= 4
      BY <1>1, <1>5, <2>1, <3>1 DEF Spoilt
    <3>3. i + 1 <= 4 => i <= 4
      BY <1>2
    <3> QED
      BY <3>2, <3>3
  <2> QED
    BY <1>1, <1>3, <2>1 DEF Spoilt, IsHeader
<1>9. Arriving'
  <2> SUFFICES ASSUME header.valid,
                      \A k \in 1..Len(input') : input'[k].of = header.seq,
                      NEW i \in 1..Len(Line'), NEW j \in 1..Len(Line'), i <= j,
                      Line'[i].of = header.seq, Line'[j].of = header.seq
               PROVE  j - i + 1 + Len(input') <= header.length
    BY <1>1 DEF Arriving
  <2>1. Line[1].of = header.seq
    <3>1. Len(input) + 1 \in 1..Len(input')
      BY <1>7
    <3> QED
      BY <1>7, <3>1
  <2>2. \A k \in 1..Len(input) : input[k].of = header.seq
    <3>1. \A k \in 1..Len(input) : k \in 1..Len(input')
      BY <1>7
    <3> QED
      BY <1>7, <3>1
  <2>3. j + 1 \in 1..Len(Line) /\ Line[j + 1].of = header.seq /\ 1 <= j + 1
    BY <1>2
  <2>4. (j + 1) - 1 + 1 + Len(input) <= header.length
    BY <1>1, <1>2, <1>5, <2>1, <2>2, <2>3 DEF Arriving
  <2>5. i \in Nat /\ i >= 1 /\ j \in Nat
    BY <1>2
  <2>6. \A l, h \in Nat : (j + 1) - 1 + 1 + l <= h => j - i + 1 + (l + 1) <= h
    BY <2>5
  <2> QED
    BY <1>6, <1>7, <2>4, <2>6
<1>10. Current'
  <2>1. HeaderRead => HeaderRead'
    <3> SUFFICES ASSUME HeaderRead PROVE HeaderRead'
      OBVIOUS
    <3>1. \A i \in 1..Len(Line') : IsHeader(Line'[i]) => Line'[i].of # header.seq
      BY <1>2 DEF HeaderRead
    <3> QED
      BY <1>1, <1>2, <3>1 DEF HeaderRead, IsHeader
  <2>2. Computed' <=> Computed
    BY <1>1 DEF Computed
  <2> QED
    BY <1>1, <1>2, <1>3, <1>5, <2>1, <2>2 DEF Current
<1> QED
  BY <1>2, <1>4, <1>8, <1>9, <1>10 DEF Earned

\* The line stays as it is.
LEMMA LineKept ==
  ASSUME Earned, Untouched
  PROVE  /\ Line' = Line /\ LineOrdered' /\ sent' = sent
         /\ \A n : Gone(n)' <=> Gone(n)
<1>1. Line' = Line /\ sent' = sent
  BY DEF Untouched, clientVars, Line
<1> QED
  BY <1>1 DEF Earned, LineOrdered, Whole, IsHeader, Gone

\* A payload that is accepted is all of the request: nothing of it is left.
LEMMA CheckKeeps ==
  ASSUME Earned, TypesOK', CheckPayload
  PROVE  Earned'
<1> USE DEF Earned
<1>1. /\ pc = "payload" /\ Len(input) = header.length /\ Untouched
      /\ UNCHANGED <<matched, header, input, out>>
      /\ pc' = (IF Verdict = "OK" THEN "ack" ELSE "reply") /\ reply' = Verdict
  BY DEF CheckPayload, Untouched
<1>2. /\ Line' = Line /\ LineOrdered' /\ sent' = sent
      /\ \A n : Gone(n)' <=> Gone(n)
  BY <1>1, LineKept
<1>3. \A n : /\ Seen(n)' <=> Seen(n)
             /\ Acked(n)' <=> Acked(n)
             /\ OnlyAcked(n)' <=> OnlyAcked(n)
  BY <1>1, FramesKept
<1>4. Served' /\ Numbered' /\ ResultIsEarned'
  BY <1>1, <1>2, RepliesKept
<1>5. TypesOK /\ Spoilt /\ Arriving /\ Current
  OBVIOUS
<1>6. Len(Line) \in Nat
  BY LineTyped
<1> HIDE DEF Earned
<1>7. Verdict \in {"OK", "BAD_HEADER", "BAD_PAYLOAD", "BAD_SHAPE"}
  BY DEF Verdict
<1>8. pc' \in {"ack", "reply"} /\ reply' # "INFERENCE_FAILED"
  BY <1>1, <1>7
<1>9. ~Computed /\ ~Computed'
  BY <1>1, <1>5, <1>8 DEF Computed, Current
<1>10. Spoilt'
  BY <1>1, <1>2, <1>3, <1>5 DEF Spoilt, IsHeader
<1>11. Arriving'
  BY <1>8 DEF Arriving
<1>12. ASSUME pc' = "ack"
       PROVE  header.valid /\ Computable(sent[header.seq]) /\ Gone(header.seq)
  <2>1. Verdict = "OK"
    BY <1>1, <1>12
  <2>2. header.valid
    BY <2>1 DEF Verdict
  <2>3. header.length = Payload
    BY <2>1, <2>2 DEF Verdict
  <2>4. sent[header.seq].kind \notin {"bad shape", "not finite"} /\ CrcMatches
    BY <2>1, <2>2, <2>3 DEF Verdict
  <2>5. HeaderRead
    BY <1>5, <2>2 DEF Current
  <2>6. sent[header.seq].kind \in AllKinds /\ header.seq \in 1..Len(sent)
    BY <1>5, <2>5, RequestsTyped DEF HeaderRead
  <2>7. Computable(sent[header.seq])
    BY <2>3, <2>4, <2>5, <2>6 DEF Computable, HeaderRead, CrcMatches, AllKinds
  <2>8. \A k \in 1..Len(input) : input[k].of = header.seq
    <3>1. input = BodyTokens(header.seq) /\ Len(input) = Len(sent[header.seq].body)
      BY <1>1, <2>4, <2>5 DEF CrcMatches, HeaderRead
    <3> QED
      BY <3>1 DEF BodyTokens, Token
  <2>9. Gone(header.seq)
    <3> SUFFICES ASSUME NEW i \in 1..Len(Line), Line[i].of = header.seq PROVE FALSE
      BY DEF Gone
    <3>1. i <= i /\ i - i = 0
      BY <1>6
    <3>2. i - i + 1 + Len(input) <= header.length
      BY <1>1, <1>5, <2>2, <2>8, <3>1 DEF Arriving
    <3>3. header.length \in Nat
      BY <1>5 DEF TypesOK
    <3> QED
      BY <1>1, <3>1, <3>2, <3>3
  <2> QED
    BY <2>2, <2>7, <2>9
<1>13. Current'
  <2>1. HeaderRead => HeaderRead'
    BY <1>1, <1>2 DEF HeaderRead, IsHeader
  <2>2. pc' = "ack" => Computable(sent[header.seq])' /\ Gone(header.seq)'
    BY <1>1, <1>2, <1>12 DEF Computable, Gone
  <2> QED
    BY <1>1, <1>2, <1>3, <1>5, <1>8, <1>9, <1>12, <2>1, <2>2 DEF Current
<1> QED
  BY <1>2, <1>4, <1>10, <1>11, <1>13 DEF Earned

LEMMA InferKeeps ==
  ASSUME Earned, TypesOK', Infer
  PROVE  Earned'
<1> USE DEF Earned
<1>1. /\ pc = "infer" /\ Untouched /\ UNCHANGED <<matched, header, input, out>>
      /\ \/ pc' = "reply" /\ reply' = "INFERENCE_FAILED"
         \/ pc' = "result" /\ reply' = reply
  BY DEF Infer
<1>2. /\ Line' = Line /\ LineOrdered' /\ sent' = sent
      /\ \A n : Gone(n)' <=> Gone(n)
  BY <1>1, LineKept
<1>3. \A n : /\ Seen(n)' <=> Seen(n)
             /\ Acked(n)' <=> Acked(n)
             /\ OnlyAcked(n)' <=> OnlyAcked(n)
  BY <1>1, FramesKept
<1>4. Served' /\ Numbered' /\ ResultIsEarned'
  BY <1>1, <1>2, RepliesKept
<1>5. Spoilt /\ Arriving /\ Current
  OBVIOUS
<1> HIDE DEF Earned
<1>6. Computed /\ Computed' /\ pc' \in {"reply", "result"}
  BY <1>1 DEF Computed
<1>7. Spoilt'
  BY <1>1, <1>2, <1>3, <1>5 DEF Spoilt, IsHeader
<1>8. Arriving'
  BY <1>6 DEF Arriving
<1>9. Current'
  <2>1. HeaderRead => HeaderRead'
    BY <1>1, <1>2 DEF HeaderRead, IsHeader
  <2>2. /\ header.valid /\ Computable(sent[header.seq])' /\ Gone(header.seq)'
        /\ OnlyAcked(header.seq) /\ header.seq \in 0..Len(sent')
    BY <1>1, <1>2, <1>5, <1>6 DEF Current, Computable, Gone
  <2>3. OnlyAcked(header.seq)'
    BY <1>1, <2>2 DEF OnlyAcked, Ack
  <2>4. reply' = "INFERENCE_FAILED" => pc' = "reply"
    BY <1>1, <1>5 DEF Current
  <2> QED
    BY <1>1, <1>5, <1>6, <2>1, <2>2, <2>3, <2>4 DEF Current
<1> QED
  BY <1>2, <1>4, <1>7, <1>8, <1>9 DEF Earned

(***************************************************************************)
(* The board answers.                                                      *)
(***************************************************************************)

LEMMA AckKeeps ==
  ASSUME Earned, TypesOK', SendAck
  PROVE  Earned'
<1> USE DEF Earned
<1>1. /\ pc = "ack" /\ pc' = "infer" /\ Untouched
      /\ UNCHANGED <<matched, header, input, reply>>
      /\ out' = Append(out, Ack(header.seq))
  BY DEF SendAck, Answer, Ack
<1>2. /\ Line' = Line /\ LineOrdered' /\ sent' = sent
      /\ \A n : Gone(n)' <=> Gone(n)
  BY <1>1, LineKept
<1>3. TypesOK /\ Spoilt /\ Current /\ Served /\ Numbered /\ ResultIsEarned
  OBVIOUS
<1> HIDE DEF Earned
<1> DEFINE n == header.seq
           l == Len(out)
<1>4. /\ l \in Nat /\ Len(out') = l + 1 /\ out'[l + 1] = Ack(n)
      /\ \A i \in 1..l : out'[i] = out[i]
  <2>1. out \in Seq(Frames)
    BY <1>3 DEF TypesOK
  <2> QED
    BY <1>1, <2>1
<1>5. header.valid /\ Computable(sent[n]) /\ Gone(n) /\ n \in 1..Len(sent) /\ HeaderRead
  BY <1>1, <1>3 DEF Current, HeaderRead
<1>6. reply # "INFERENCE_FAILED" /\ ~Computed /\ Computed'
  BY <1>1, <1>3 DEF Current, Computed
<1>7. ~Seen(n)
  BY <1>3, <1>5, <1>6 DEF Current
<1> HIDE DEF n, l
<1>8. \A i \in 1..l : out[i].seq # n
  BY <1>7 DEF Seen, l
<1>9. Ack(n).seq = n /\ Ack(n).type = "ACK"
  BY DEF Ack
<1>10. \A i \in 1..Len(out') : i = l + 1 \/ i \in 1..l
  BY <1>4
<1>11. \A i \in 1..l : i \in 1..Len(out') /\ i # l + 1
  BY <1>4
<1>12. ASSUME NEW i \in 1..Len(out')
       PROVE  \/ i = l + 1 /\ out'[i] = Ack(n)
              \/ i \in 1..l /\ out'[i] = out[i] /\ out'[i].seq # n
  BY <1>4, <1>8, <1>10
<1>13. Spoilt'
  <2>1. ASSUME NEW i \in 1..Len(Line), IsHeader(Line[i])
        PROVE  ~Seen(Line[i].of)'
    <3>1. ~Seen(Line[i].of)
      BY <1>1, <1>3, <2>1 DEF Spoilt
    <3>2. Line[i].of # n
      BY <1>5, <2>1 DEF HeaderRead, n
    <3> QED
      BY <1>2, <1>9, <1>12, <3>1, <3>2 DEF Seen, l
  <2>2. header' = header /\ header.valid
    BY <1>1, <1>5
  <2> QED
    BY <1>2, <2>1, <2>2 DEF Spoilt, Seen, IsHeader
<1>14. Arriving'
  BY <1>1 DEF Arriving
<1>15. Current'
  <2>1. HeaderRead'
    BY <1>1, <1>2, <1>5 DEF HeaderRead, IsHeader
  <2>2. l + 1 \in 1..Len(out') /\ \A k \in 1..Len(out') : k # l + 1 => out'[k].seq # n
    BY <1>4, <1>12
  <2>3. header'.seq = n
    BY <1>1 DEF n
  <2>4. OnlyAcked(header.seq)'
    BY <1>4, <2>2, <2>3 DEF OnlyAcked, Ack
  <2>5. Computable(sent[header.seq])' /\ Gone(header.seq)' /\ header'.seq \in 0..Len(sent')
    BY <1>1, <1>2, <1>3, <1>5 DEF Computable, Gone, n, Current
  <2> QED
    BY <1>1, <1>5, <1>6, <2>1, <2>4, <2>5 DEF Current
<1>16. Served'
  <2> SUFFICES ASSUME NEW k, Acked(k)'
               PROVE  k \in 1..Len(sent) /\ Computable(sent[k]) /\ Gone(k)
    BY <1>2 DEF Served, Computable, Gone
  <2>1. PICK i \in 1..Len(out') : out'[i] = Ack(k)
    BY DEF Acked, Ack
  <2>2. CASE i = l + 1
    <3>1. k = n
      BY <1>4, <2>1, <2>2 DEF Ack
    <3> QED
      BY <1>5, <3>1
  <2>3. CASE i \in 1..l /\ out'[i] = out[i]
    <3>1. Acked(k)
      BY <2>1, <2>3 DEF Acked, l
    <3> QED
      BY <1>3, <3>1 DEF Served
  <2> QED
    BY <1>12, <2>2, <2>3
<1>17. Numbered'
  <2>1. \A i \in 1..l : out[i].seq \in 0..Len(sent)
    BY <1>3 DEF Numbered, l
  <2>2. n \in 0..Len(sent)
    BY <1>3 DEF Current, n
  <2> QED
    BY <1>2, <1>9, <1>12, <2>1, <2>2 DEF Numbered
<1>18. ResultIsEarned'
  <2>1. ASSUME NEW i \in 1..Len(out'), out'[i].type = "ACK"
        PROVE  /\ out'[i].seq \in 1..Len(sent) /\ Computable(sent[out'[i].seq])
               /\ \A k \in 1..i - 1 : out'[k].seq # out'[i].seq
    <3>1. CASE i = l + 1
      <4>1. \A k \in 1..i - 1 : k \in 1..l
        BY <1>4, <3>1
      <4> QED
        BY <1>4, <1>5, <1>8, <1>9, <3>1, <4>1
    <3>2. CASE i \in 1..l /\ out'[i] = out[i]
      <4>1. /\ out[i].seq \in 1..Len(sent) /\ Computable(sent[out[i].seq])
            /\ \A k \in 1..i - 1 : out[k].seq # out[i].seq
        BY <1>3, <2>1, <3>2 DEF ResultIsEarned, l
      <4>2. \A k \in 1..i - 1 : k \in 1..l
        BY <1>4, <3>2
      <4> QED
        BY <1>4, <3>2, <4>1, <4>2
    <3> QED
      BY <1>12, <3>1, <3>2
  <2>2. ASSUME NEW i \in 1..Len(out'), out'[i].type = "RESULT"
        PROVE  \E j \in 1..i - 1 :
                 /\ out'[j] = Ack(out'[i].seq)
                 /\ \A k \in 1..Len(out') \ {i, j} : out'[k].seq # out'[i].seq
    <3>1. i \in 1..l /\ out'[i] = out[i] /\ out[i].seq # n
      BY <1>9, <1>12, <2>2
    <3>2. PICK j \in 1..i - 1 :
            /\ out[j] = Ack(out[i].seq)
            /\ \A k \in 1..Len(out) \ {i, j} : out[k].seq # out[i].seq
      BY <1>3, <2>2, <3>1 DEF ResultIsEarned, Ack, l
    <3>3. j \in 1..l
      BY <1>4, <3>1
    <3>4. ASSUME NEW k \in 1..Len(out') \ {i, j} PROVE out'[k].seq # out'[i].seq
      BY <1>9, <1>12, <3>1, <3>2 DEF l
    <3> QED
      BY <1>4, <3>1, <3>2, <3>3, <3>4
  <2> QED
    BY <1>2, <2>1, <2>2 DEF ResultIsEarned, Computable, Ack
<1> QED
  BY <1>2, <1>13, <1>14, <1>15, <1>16, <1>17, <1>18 DEF Earned

\* What the end of a transaction puts on the line.
LEMMA Written ==
  ASSUME TypesOK, NEW status, NEW f \in Frames, Return(status, <<f>>)
  PROVE  /\ Len(out) \in Nat /\ Len(out') \in Nat
         /\ Len(out) + 1 \in 1..Len(out') /\ out'[Len(out) + 1] = f
         /\ \A i \in 1..Len(out) : i \in 1..Len(out') /\ out'[i] = out[i]
         /\ \A i \in 1..Len(out') :
              i \in 1..Len(out) \/ i = Len(out) + 1 \/ (i = Len(out) + 2 /\ out'[i] = Text)
<1>1. out \in Seq(Frames) /\ Text \in Frames
  BY DEF TypesOK, Text, Frames
<1>2. out' = (out \o <<f>>) \o (IF AddsText(status) THEN <<Text>> ELSE <<>>)
  BY DEF Return
<1> DEFINE m == out \o <<f>>
<1>3. /\ m \in Seq(Frames) /\ Len(m) = Len(out) + 1 /\ Len(out) \in Nat
      /\ m[Len(out) + 1] = f /\ \A i \in 1..Len(out) : m[i] = out[i]
  <2>1. m = Append(out, f)
    BY <1>1
  <2> HIDE DEF m
  <2> QED
    BY <1>1, <2>1
<1>4. \/ out' = m
      \/ out' = Append(m, Text)
  <2> HIDE DEF m, AddsText
  <2>1. m \o <<>> = m /\ m \o <<Text>> = Append(m, Text)
    BY <1>1, <1>3
  <2>2. out' = m \o (IF AddsText(status) THEN <<Text>> ELSE <<>>)
    BY <1>2 DEF m
  <2> QED
    BY <2>1, <2>2
<1> HIDE DEF m
<1>5. CASE out' = m
  BY <1>3, <1>5
<1>6. CASE out' = Append(m, Text)
  <2>1. /\ Len(out') = Len(out) + 2 /\ out'[Len(out) + 2] = Text
        /\ \A i \in 1..Len(out) + 1 : out'[i] = m[i]
    BY <1>1, <1>3, <1>6
  <2> QED
    BY <1>3, <2>1
<1> QED
  BY <1>4, <1>5, <1>6

\* After a transaction nothing is in hand.
LEMMA ReturnIdle ==
  ASSUME TypesOK, NEW status, NEW written, Return(status, written)
  PROVE  /\ pc' \in {"scan", "halted"} /\ matched' = 0
         /\ Idle' /\ Arriving' /\ Current' /\ header'.seq = 0
<1>1. /\ pc' \in {"scan", "halted"} /\ matched' = 0
      /\ header' = NoHeader /\ reply' = "none" /\ input' = <<>>
  BY DEF Return
<1>2. Idle'
  BY <1>1 DEF Idle, NoHeader
<1>3. header'.seq = 0 /\ header'.valid = FALSE
  BY <1>1 DEF NoHeader
<1>4. Arriving' /\ ~Computed'
  BY <1>1 DEF Arriving, Computed
<1>5. 0 \in 0..Len(sent')
  <2>1. Len(sent') \in Nat
    BY RequestsTyped DEF Return
  <2> QED
    BY <2>1
<1> QED
  BY <1>1, <1>2, <1>3, <1>4, <1>5 DEF Current

LEMMA ReadTimeoutKeeps ==
  ASSUME Earned, TypesOK', ReadTimesOut
  PROVE  Earned'
<1> USE DEF Earned
<1>1. /\ Return("TIMEOUT", <<>>) /\ UNCHANGED clientVars
      /\ fifo' = (IF fifo = <<>> THEN fifo ELSE Tail(fifo))
      /\ pc \in {"scan", "header", "payload"}
  BY DEF ReadTimesOut, Receiving
<1>2. Thinned
  <2>1. CASE fifo = <<>>
    <3>1. Line' = Line
      BY <1>1, <2>1 DEF Line, clientVars
    <3> QED
      BY <3>1, LineTyped, SameThins
  <2>2. CASE fifo # <<>>
    BY <1>1, <2>2, FrontKept
  <2> QED
    BY <2>1, <2>2
<1>3. sent' = sent
  BY <1>1 DEF clientVars
<1>4. /\ LineOrdered'
      /\ \A n : Gone(n) => Gone(n)'
      /\ \A i \in 1..Len(Line') : \E a \in 1..Len(Line) : Line'[i] = Line[a] /\ i <= a
  BY <1>2, <1>3, OrderKept
<1>5. out' = out
  <2>1. ~AddsText("TIMEOUT")
    BY DEF AddsText
  <2>2. out' = out \o <<>> \o <<>> /\ out \in Seq(Frames)
    BY <1>1, <2>1 DEF Return, TypesOK
  <2> QED
    BY <2>2
<1>6. Served' /\ Numbered' /\ ResultIsEarned'
  BY <1>3, <1>4, <1>5, RepliesKept
<1>7. /\ pc' \in {"scan", "halted"} /\ matched' = 0
      /\ Arriving' /\ Current' /\ header'.seq = 0
  BY <1>1, ReturnIdle
<1>8. Spoilt'
  <2>1. Spoilt /\ LineOrdered /\ matched \in Nat /\ Len(Line) \in Nat /\ Len(Line') \in Nat
    BY LineTyped, LinePointsNext, SMTT(60) DEF TypesOK
  <2> HIDE DEF Earned
  <2>2. ASSUME NEW i \in 1..Len(Line'), IsHeader(Line'[i])
        PROVE  (Seen(Line'[i].of) => i <= 4) /\ Line'[i].of # 0
    <3>1. PICK a \in 1..Len(Line) : Line'[i] = Line[a] /\ i <= a
      BY <1>4
    <3>2. Seen(Line[a].of) => matched + a <= 4
      BY <2>1, <2>2, <3>1 DEF Spoilt
    <3>3. matched + a <= 4 => i <= 4
      BY <2>1, <3>1
    <3>4. Line[a].of # 0
      BY <2>1 DEF LineOrdered
    <3> QED
      BY <3>1, <3>2, <3>3, <3>4
  <2>3. \A n : Seen(n)' <=> Seen(n)
    BY <1>5 DEF Seen
  <2>4. \A i \in 1..Len(Line') : i <= 4 => matched' + i <= 4
    BY <1>7, <2>1
  <2> QED
    BY <1>7, <2>2, <2>3, <2>4 DEF Spoilt, IsHeader
<1> QED
  BY <1>4, <1>6, <1>7, <1>8

\* An answer ends a transaction: a result is sent only for a request of which
\* the board has said nothing but that it accepts it.
LEMMA AnswerKeeps ==
  ASSUME Earned, TypesOK', Untouched, Sending,
         NEW status, NEW type \in {"cut", "ERROR", "RESULT"},
         Return(status, <<Answer(type)>>),
         type = "RESULT" => pc = "result"
  PROVE  Earned'
<1> USE DEF Earned
<1> DEFINE n == header.seq
           f == Answer(type)
           l == Len(out)
<1>1. f.seq = n /\ f.type = type /\ f \in Frames
  BY DEF Answer, TypesOK, Frames
<1>2. /\ Line' = Line /\ LineOrdered' /\ sent' = sent
      /\ \A k : Gone(k)' <=> Gone(k)
  BY LineKept
<1>3. /\ pc' \in {"scan", "halted"} /\ matched' = 0
      /\ Arriving' /\ Current' /\ header'.seq = 0
  BY ReturnIdle
<1>4. /\ l \in Nat /\ Len(out') \in Nat
      /\ l + 1 \in 1..Len(out') /\ out'[l + 1] = f
      /\ \A i \in 1..l : i \in 1..Len(out') /\ out'[i] = out[i]
      /\ \A i \in 1..Len(out') :
           i \in 1..l \/ i = l + 1 \/ (i = l + 2 /\ out'[i] = Text)
  BY <1>1, Written
<1>5. /\ TypesOK /\ LineOrdered /\ Spoilt /\ Current /\ Served /\ Numbered
      /\ ResultIsEarned /\ pc \in {"reply", "ack", "result"}
  BY DEF Sending
<1> HIDE DEF Earned, n, f, l
<1>6. Text.seq = 0 /\ Text.type = "text"
  BY DEF Text
<1>7. n \in 0..Len(sent) /\ (~Acked(n) \/ OnlyAcked(n) \/ n = 0)
      /\ (type = "RESULT" => OnlyAcked(n) /\ n # 0)
  <2>1. /\ n \in 0..Len(sent) /\ (Computed => OnlyAcked(n))
        /\ (n # 0 /\ ~Computed => ~Acked(n))
    BY <1>5 DEF Current, n
  <2>2. ASSUME type = "RESULT" PROVE OnlyAcked(n) /\ n # 0
    <3>1. Computed /\ header.valid
      BY <1>5, <2>2 DEF Computed, Current
    <3>2. n \in 1..Len(sent)
      BY <1>5, <3>1 DEF Current, HeaderRead, n
    <3> QED
      BY <2>1, <3>1, <3>2
  <2> QED
    BY <2>1, <2>2
<1>8. ASSUME NEW i \in 1..Len(out')
      PROVE  \/ i \in 1..l /\ out'[i] = out[i]
             \/ out'[i].seq = n /\ out'[i].type = type
             \/ out'[i].seq = 0 /\ out'[i].type = "text"
  BY <1>1, <1>4, <1>6
<1>9. Spoilt'
  <2>1. Len(Line) \in Nat
    BY <1>5, LineTyped
  <2>2. ASSUME NEW i \in 1..Len(Line), IsHeader(Line[i]), Seen(Line[i].of)'
        PROVE  i <= 4
    <3>1. ~Seen(Line[i].of) /\ Line[i].of # 0
      BY <1>5, <2>2 DEF Spoilt, LineOrdered
    <3>2. PICK k \in 1..Len(out') : out'[k].seq = Line[i].of
      BY <1>2, <2>2 DEF Seen
    <3>3. ~(k \in 1..l /\ out'[k] = out[k])
      BY <3>1, <3>2 DEF Seen, l
    <3>4. Line[i].of = n
      BY <1>8, <3>1, <3>2, <3>3
    <3>5. ~header.valid
      BY <1>5, <2>2, <3>4 DEF Current, HeaderRead, n
    <3> QED
      BY <1>5, <2>2, <3>4, <3>5 DEF Spoilt, n
  <2>3. \A i \in 1..Len(Line) : Line[i].of # 0 /\ (i <= 4 => matched' + i <= 4)
    BY <1>3, <1>5, <2>1 DEF LineOrdered
  <2> QED
    BY <1>2, <1>3, <2>2, <2>3 DEF Spoilt, IsHeader
<1>10. Served'
  <2> SUFFICES ASSUME NEW k, Acked(k)'
               PROVE  k \in 1..Len(sent) /\ Computable(sent[k]) /\ Gone(k)
    BY <1>2 DEF Served, Computable
  <2>1. PICK i \in 1..Len(out') : out'[i].type = "ACK" /\ out'[i] = Ack(k)
    BY DEF Acked, Ack
  <2>2. i \in 1..l /\ out'[i] = out[i]
    BY <1>8, <2>1
  <2>3. Acked(k)
    BY <2>1, <2>2 DEF Acked, l
  <2> QED
    BY <1>5, <2>3 DEF Served
<1>11. Numbered'
  <2>1. \A i \in 1..l : out[i].seq \in 0..Len(sent)
    BY <1>5 DEF Numbered, l
  <2>2. 0 \in 0..Len(sent)
    BY <1>5, RequestsTyped
  <2> QED
    BY <1>2, <1>7, <1>8, <2>1, <2>2 DEF Numbered
<1>12. ResultIsEarned'
  <2>1. ASSUME NEW i \in 1..Len(out'), out'[i].type = "ACK"
        PROVE  /\ out'[i].seq \in 1..Len(sent) /\ Computable(sent[out'[i].seq])
               /\ \A k \in 1..i - 1 : out'[k].seq # out'[i].seq
    <3>1. i \in 1..l /\ out'[i] = out[i]
      BY <1>8, <2>1
    <3>2. /\ out[i].seq \in 1..Len(sent) /\ Computable(sent[out[i].seq])
          /\ \A k \in 1..i - 1 : out[k].seq # out[i].seq
      BY <1>5, <2>1, <3>1 DEF ResultIsEarned, l
    <3>3. \A k \in 1..i - 1 : k \in 1..l
      BY <1>4, <3>1
    <3> QED
      BY <1>4, <3>1, <3>2, <3>3
  <2>2. ASSUME NEW i \in 1..Len(out'), out'[i].type = "RESULT"
        PROVE  \E j \in 1..i - 1 :
                 /\ out'[j] = Ack(out'[i].seq)
                 /\ \A k \in 1..Len(out') \ {i, j} : out'[k].seq # out'[i].seq
    <3>1. CASE i \in 1..l /\ out'[i] = out[i]
      <4>1. PICK j \in 1..i - 1 :
              /\ out[j] = Ack(out[i].seq)
              /\ \A k \in 1..Len(out) \ {i, j} : out[k].seq # out[i].seq
        BY <1>5, <2>2, <3>1 DEF ResultIsEarned, Ack, l
      <4>2. j \in 1..l /\ j # i
        BY <1>4, <3>1
      <4>3. out[i].seq # 0 /\ Acked(out[i].seq)
        <5>1. Acked(out[i].seq)
          BY <4>1, <4>2 DEF Acked, l
        <5> QED
          BY <1>5, <5>1 DEF Served
      <4>4. out[i].seq # n
        <5> SUFFICES ASSUME out[i].seq = n PROVE FALSE
          OBVIOUS
        <5>1. OnlyAcked(n)
          BY <1>7, <4>3
        <5>2. PICK k \in 1..l : out[k] = Ack(n) /\ \A m \in 1..l : m # k => out[m].seq # n
          BY <5>1 DEF OnlyAcked, l
        <5>3. i # k
          BY <2>2, <3>1, <5>2 DEF Ack
        <5> QED
          BY <3>1, <5>2, <5>3
      <4>5. ASSUME NEW k \in 1..Len(out') \ {i, j} PROVE out'[k].seq # out'[i].seq
        BY <1>8, <3>1, <4>1, <4>3, <4>4 DEF l
      <4> QED
        BY <1>4, <3>1, <4>1, <4>2, <4>5
    <3>2. CASE ~(i \in 1..l /\ out'[i] = out[i])
      <4>1. out'[i].seq = n /\ type = "RESULT" /\ i = l + 1
        BY <1>1, <1>4, <1>6, <2>2, <3>2
      <4>2. PICK j \in 1..l : out[j] = Ack(n) /\ \A k \in 1..l : k # j => out[k].seq # n
        BY <1>7, <4>1 DEF OnlyAcked, l
      <4>3. j \in 1..i - 1 /\ out'[j] = Ack(n)
        BY <1>4, <4>1, <4>2
      <4>4. ASSUME NEW k \in 1..Len(out') \ {i, j} PROVE out'[k].seq # n
        <5>1. CASE k \in 1..l
          BY <1>4, <4>2, <5>1
        <5>2. CASE k = l + 2 /\ out'[k] = Text
          BY <1>6, <1>7, <4>1, <5>2
        <5> QED
          BY <1>4, <4>1, <5>1, <5>2
      <4> QED
        BY <4>1, <4>3, <4>4
    <3> QED
      BY <3>1, <3>2
  <2> QED
    BY <1>2, <2>1, <2>2 DEF ResultIsEarned, Computable, Ack
<1> QED
  BY <1>2, <1>3, <1>9, <1>10, <1>11, <1>12 DEF Earned

(***************************************************************************)
(* Every step.                                                             *)
(***************************************************************************)

LEMMA EarnedInit ==
  Init => Earned
<1> SUFFICES ASSUME Init PROVE Earned
  OBVIOUS
<1> USE DEF Init
<1>1. Line = <<>> /\ Len(Line) = 0 /\ Len(out) = 0
  BY DEF Line
<1>2. header.seq = 0 /\ header.valid = FALSE
  BY DEF NoHeader
<1>3. TypesOK
  <2>1. header \in [valid : BOOLEAN, seq : Nat, length : Nat]
    BY DEF NoHeader
  <2>2. /\ input \in Seq(Tokens) /\ fifo \in Seq(Tokens) /\ rest \in Seq(Tokens)
        /\ out \in Seq(Frames) /\ sent \in Seq(Requests)
    OBVIOUS
  <2>3. build \in Builds /\ pc \in Places /\ matched \in 0..4 /\ matched < 4
    BY DEF Places
  <2>4. late \in BOOLEAN
    OBVIOUS
  <2> HIDE DEF Init
  <2> QED
    BY <2>1, <2>2, <2>3, <2>4 DEF TypesOK
<1>4. \A n : ~Acked(n)
  BY <1>1 DEF Acked
<1>5. LineOrdered /\ Spoilt /\ Arriving /\ Served /\ Numbered /\ ResultIsEarned
  BY <1>1, <1>4 DEF LineOrdered, Spoilt, Arriving, Served, Numbered, ResultIsEarned
<1>6. Current
  BY <1>2, <1>4 DEF Current, Idle, Computed
<1> QED
  BY <1>3, <1>5, <1>6 DEF Earned

LEMMA EarnedNext ==
  Earned /\ [Next]_vars => Earned'
<1> SUFFICES ASSUME Earned, [Next]_vars PROVE Earned'
  OBVIOUS
<1>1. TypesOK'
  BY TypesKept DEF Earned
<1>2. fifo \in Seq(Tokens) /\ rest \in Seq(Tokens)
  BY DEF Earned, TypesOK
<1>3. CASE ReadTimesOut \/ ScanByte \/ ReadHeader \/ ReadByte \/ CheckPayload
  BY <1>1, <1>3, ReadTimeoutKeeps, ScanKeeps, HeaderKeeps, ByteKeeps, CheckKeeps
<1>4. CASE SendAck \/ Infer
  BY <1>1, <1>4, AckKeeps, InferKeeps
<1>5. CASE WriteTimesOut
  BY <1>1, <1>5, AnswerKeeps DEF WriteTimesOut
<1>6. CASE ReplyError
  BY <1>1, <1>6, AnswerKeeps DEF ReplyError, Sending
<1>7. CASE SendResult
  BY <1>1, <1>7, AnswerKeeps DEF SendResult, Sending
<1>8. CASE DeadlinePasses \/ Halted \/ UNCHANGED vars
  <2>1. UNCHANGED <<pc, matched, header, input, reply, out, sent, fifo, rest>>
    BY <1>8 DEF DeadlinePasses, Untouched, Halted, vars, boardVars, clientVars
  <2>2. Line \in Seq(Tokens) /\ Line' = Line
    BY <1>2, <2>1, LinePoints DEF Line
  <2> QED
    BY <1>1, <2>1, <2>2, SameThins, LineMoves
<1>9. CASE SendToken
  <2>1. /\ rest # <<>> /\ rest' = Tail(rest)
        /\ fifo' = Append(fifo, Head(rest)) \/ fifo' = fifo
        /\ UNCHANGED <<pc, matched, header, input, reply, out, sent>>
    BY <1>9 DEF SendToken, boardVars
  <2>2. Thinned
    BY <1>2, <2>1, TokenMoves, TokenLost
  <2> QED
    BY <1>1, <2>1, <2>2, LineMoves
<1>10. ASSUME NEW request \in Requests, BeginRequest(request)
       PROVE  Earned'
  BY <1>1, <1>10, RequestKeeps
<1> QED
  BY <1>3, <1>4, <1>5, <1>6, <1>7, <1>8, <1>9, <1>10 DEF Next, Transaction

\* The head acknowledges an input, and computes a result, only for a request
\* that arrived whole and is fit to be computed, and at most once; a result
\* follows its acknowledgement and ends what is said of the request.
THEOREM ResultsAreEarned == Spec => []ResultIsEarned
<1>1. Earned => ResultIsEarned
  BY DEF Earned
<1> QED
  BY <1>1, EarnedInit, EarnedNext, PTL DEF Spec

(***************************************************************************)
(* What is due to a request: the stages a clean one goes through.          *)
(***************************************************************************)

Request(n) == RequestTokens(n, sent[n].body)

\* The tokens w of request n from the q-th on are on the line, together, behind
\* p others.
Comes(n, w, p, q) ==
  /\ p + Len(w) - q <= Len(Line)
  /\ \A i \in q + 1..Len(w) : Line[p + i - q] = w[i]
  /\ \A i \in 1..Len(Line) :
       i <= p \/ i > p + Len(w) - q => Line[i].of # n

\* The scan has seen r letters of the magic where h would have been seen had no
\* header been among the bytes.
Border(r, h) == r = 0 \/ r = h \/ (r = 1 /\ h = 3)
ScannedOver(h, token) == IF IsHeader(token) THEN h ELSE Scanned(h, token.is)
Skips(h, p) ==
  /\ Border(matched, h[0]) /\ h[p] < 3
  /\ \A i \in 1..p : h[i] = ScannedOver(h[i - 1], Line[i])

Ahead(n) ==
  /\ pc = "scan" /\ ~Seen(n)
  /\ \E p \in Nat :
       Comes(n, Request(n), p, 0) /\ \E h \in [0..p -> 0..3] : Skips(h, p)
Matching(n) ==
  /\ pc = "scan" /\ ~Seen(n)
  /\ \E q \in 1..3 :
       Comes(n, Request(n), 0, q) /\ (matched = q \/ (q = 1 /\ matched = 3))
Headed(n) == pc = "header" /\ ~Seen(n) /\ Comes(n, Request(n), 0, 4)
Filling(n) ==
  /\ pc = "payload" /\ ~Seen(n)
  /\ header.valid /\ header.seq = n /\ ~Oversized(sent[n])
  /\ Len(input) <= Len(sent[n].body)
  /\ \A i \in 1..Len(input) : input[i] = Request(n)[5 + i]
  /\ Comes(n, Request(n), 0, 5 + Len(input))
Handled(n) ==
  /\ pc \in {"reply", "ack", "infer", "result"}
  /\ header.valid /\ header.seq = n
  /\ Oversized(sent[n]) \/ Gone(n)
  /\ pc = "reply" => (reply = "INFERENCE_FAILED" <=> Computable(sent[n]))
  /\ reply = "INFERENCE_FAILED" => sent[n].kind = "failing"
  /\ pc = "result" => sent[n].kind # "failing"
Answered(n) ==
  /\ AsDue(n)
  /\ Oversized(sent[n]) \/ (Gone(n) /\ header.seq # n)
Stage(n) ==
  \/ Ahead(n) \/ Matching(n) \/ Headed(n) \/ Filling(n)
  \/ Handled(n) \/ Answered(n)

\* What is left to send is of the last request.
RestOwned == \A i \in 1..Len(rest) : rest[i].of = Len(sent)
Tended ==
  /\ clean \subseteq 1..Len(sent)
  /\ RestOwned
  /\ \A n \in clean : sent[n].kind # "bad header" => Stage(n)

(***************************************************************************)
(* Induction, from the least number of a set.                              *)
(***************************************************************************)

LEMMA LeastNumber ==
  ASSUME NEW S, S \subseteq Nat, S # {}
  PROVE  \E k \in S : \A j \in S : k <= j
<1> DEFINE Below == {1..k : k \in S}
           Smaller == StrictSubsetOrdering(Nat)
<1>1. Below # {} /\ Below \subseteq FiniteSubsetsOf(Nat)
  <2>1. ASSUME NEW k \in S PROVE 1..k \subseteq Nat /\ IsFiniteSet(1..k)
    BY FS_Interval
  <2> QED
    BY <2>1 DEF FiniteSubsetsOf
<1>2. \E low \in Below : \A other \in Below : <<other, low>> \notin Smaller
  <2>1. IsWellFoundedOn(Smaller, FiniteSubsetsOf(Nat))
    BY FS_StrictSubsetOrderingWellFounded
  <2> HIDE DEF Below, Smaller
  <2> QED
    BY <1>1, <2>1, WFMin
<1>3. PICK k \in S : \A j \in S : <<1..j, 1..k>> \notin Smaller
  BY <1>2
<1>4. ASSUME NEW j \in S, j < k PROVE <<1..j, 1..k>> \in Smaller
  <2>1. j \in Nat /\ k \in Nat
    OBVIOUS
  <2>2. k \in 1..k /\ k \notin 1..j
    BY <1>4, <2>1
  <2>3. 1..j \subseteq 1..k /\ 1..j # 1..k
    BY <1>4, <2>1, <2>2
  <2> QED
    BY <2>3 DEF StrictSubsetOrdering
<1>5. ASSUME NEW j \in S PROVE k <= j
  <2>1. ~(j < k) /\ j \in Nat /\ k \in Nat
    BY <1>3, <1>4
  <2> QED
    BY <2>1
<1> QED
  BY <1>5

\* A set that holds 0, and with each number the next, holds all up to a bound.
LEMMA Upwards ==
  ASSUME NEW l \in Nat, NEW S, 0 \in S,
         \A i \in 1..l : i - 1 \in S => i \in S
  PROVE  \A i \in 0..l : i \in S
<1> SUFFICES ASSUME NEW i \in 0..l, i \notin S PROVE FALSE
  OBVIOUS
<1> DEFINE Missing == {k \in 0..l : k \notin S}
<1>1. Missing \subseteq Nat /\ Missing # {}
  OBVIOUS
<1> HIDE DEF Missing
<1>2. PICK k \in Missing : \A j \in Missing : k <= j
  BY <1>1, LeastNumber
<1>3. k \in 0..l /\ k \notin S
  BY <1>2 DEF Missing
<1>4. k \in 1..l /\ k - 1 \in 0..l /\ ~(k <= k - 1)
  BY <1>3
<1>5. k - 1 \in S
  BY <1>2, <1>4 DEF Missing
<1> QED
  BY <1>3, <1>4, <1>5

(***************************************************************************)
(* The bytes before a request.                                             *)
(***************************************************************************)

\* The letters that Harmless counts exist: they are the ones the scan would see.
LEMMA HarmlessSkips ==
  ASSUME TypesOK, pc = "scan", Harmless
  PROVE  \E h \in [0..Len(fifo) -> 0..3] :
           /\ h[0] = matched /\ h[Len(fifo)] < 3
           /\ \A i \in 1..Len(fifo) : h[i] = ScannedOver(h[i - 1], fifo[i])
<1> DEFINE l == Len(fifo)
           Step(m, token) == IF m = Len(Magic) \/ token.is = "header" THEN m
                             ELSE Scanned(m, token.is)
           Here(f, i) == IF i = 0 THEN matched ELSE Step(f[i - 1], fifo[i])
           Match == CHOOSE f : f = [i \in 0..l |-> Here(f, i)]
<1>1. l \in Nat /\ matched \in 0..3 /\ Len(Magic) = 4
  BY DEF TypesOK, Magic
<1>2. Match[l] < 3
  BY DEF Harmless
<1>3. \E f : f = [i \in 0..l |-> Here(f, i)]
  <2> DEFINE Runs(k) == \E f : /\ f = [i \in 0..k |-> f[i]]
                               /\ \A i \in 0..k : f[i] = Here(f, i)
             Reached == {k \in 0..l : Runs(k)}
  <2> HIDE DEF Step
  <2>1. 0 \in Reached
    <3> DEFINE f == [i \in 0..0 |-> matched]
    <3>1. f = [i \in 0..0 |-> f[i]] /\ \A i \in 0..0 : f[i] = Here(f, i)
      OBVIOUS
    <3>2. Runs(0)
      BY <3>1
    <3> QED
      BY <1>1, <3>2
  <2>2. ASSUME NEW k \in 1..l, k - 1 \in Reached PROVE k \in Reached
    <3>1. PICK g : \A i \in 0..k - 1 : g[i] = Here(g, i)
      BY <2>2
    <3> DEFINE f == [i \in 0..k |-> IF i < k THEN g[i] ELSE Here(g, k)]
    <3>2. f = [i \in 0..k |-> f[i]]
      OBVIOUS
    <3>3. ASSUME NEW i \in 0..k PROVE f[i] = Here(f, i)
      <4>1. CASE i < k
        <5>1. /\ i \in 0..k - 1 /\ f[i] = g[i]
              /\ i # 0 => i - 1 \in 0..k /\ i - 1 < k
          BY <4>1
        <5>2. i # 0 => f[i - 1] = g[i - 1]
          BY <5>1
        <5> HIDE DEF f
        <5> QED
          BY <3>1, <5>1, <5>2
      <4>2. CASE i = k
        <5>1. f[i] = Here(g, k) /\ k # 0 /\ k - 1 \in 0..k /\ k - 1 < k
          BY <4>2
        <5>2. f[k - 1] = g[k - 1]
          BY <5>1
        <5> HIDE DEF f
        <5> QED
          BY <4>2, <5>1, <5>2
      <4> QED
        BY <4>1, <4>2
    <3>4. Runs(k)
      <4> HIDE DEF Here, f
      <4> QED
        BY <3>2, <3>3
    <3> QED
      BY <3>4
  <2>3. l \in Reached
    <3> HIDE DEF Reached
    <3>1. \A i \in 0..l : i \in Reached
      BY <1>1, <2>1, <2>2, Upwards
    <3> QED
      BY <1>1, <3>1
  <2>4. PICK f : f = [i \in 0..l |-> f[i]] /\ \A i \in 0..l : f[i] = Here(f, i)
    BY <2>3
  <2>5. f = [i \in 0..l |-> Here(f, i)]
    <3> HIDE DEF Here
    <3> QED
      BY <2>4
  <2> QED
    BY <2>5
<1>4. Match = [i \in 0..l |-> Here(Match, i)]
  <2> HIDE DEF Here, l
  <2> QED
    BY <1>3
<1> HIDE DEF Match
<1>5. Match[0] = matched /\ \A i \in 1..l : Match[i] = Step(Match[i - 1], fifo[i])
  <2> HIDE DEF Step
  <2>1. \A i \in 0..l : Match[i] = Here(Match, i)
    <3> HIDE DEF Here
    <3> QED
      BY <1>4
  <2> QED
    BY <1>1, <2>1
<1>6. \A i \in 0..l : Match[i] \in 0..4
  <2> DEFINE S == {i \in 0..l : Match[i] \in 0..4}
  <2>1. 0 \in S
    BY <1>1, <1>5
  <2>2. ASSUME NEW i \in 1..l, i - 1 \in S PROVE i \in S
    <3>1. Match[i - 1] \in 0..4 /\ Match[i] = Step(Match[i - 1], fifo[i])
      BY <1>5, <2>2
    <3>2. ASSUME NEW m \in 0..4 PROVE Step(m, fifo[i]) \in 0..4
      <4>1. CASE m = 4
        BY <1>1, <4>1
      <4>2. CASE m # 4
        <5>1. m \in 0..3
          BY <4>2
        <5>2. Scanned(m, fifo[i].is) \in 0..m + 1
          BY <5>1, ScanAdvances
        <5> QED
          BY <5>1, <5>2
      <4> QED
        BY <4>1, <4>2
    <3>3. i \in 0..l
      BY <2>2
    <3> HIDE DEF Step
    <3> QED
      BY <3>1, <3>2, <3>3
  <2> HIDE DEF S
  <2>3. \A i \in 0..l : i \in S
    BY <1>1, <2>1, <2>2, Upwards
  <2> QED
    BY <2>3 DEF S
<1>7. \A i \in 0..l : Match[i] # 4
  <2> DEFINE S == {k \in 0..l : Match[l - k] # 4}
  <2>1. 0 \in S
    BY <1>1, <1>2
  <2>2. ASSUME NEW k \in 1..l, k - 1 \in S PROVE k \in S
    <3>1. /\ l - k + 1 \in 1..l /\ l - k \in 0..l /\ (l - k + 1) - 1 = l - k
          /\ l - (k - 1) = l - k + 1 /\ k \in 0..l
      BY <1>1
    <3>2. Match[l - k + 1] # 4
      BY <2>2, <3>1
    <3>3. Match[l - k + 1] = Step(Match[l - k], fifo[l - k + 1])
      BY <1>5, <3>1
    <3>4. Step(4, fifo[l - k + 1]) = 4
      BY <1>1
    <3> HIDE DEF Step
    <3> QED
      BY <3>1, <3>2, <3>3, <3>4
  <2> HIDE DEF S
  <2>3. \A k \in 0..l : k \in S
    BY <1>1, <2>1, <2>2, Upwards
  <2>4. ASSUME NEW i \in 0..l PROVE Match[i] # 4
    <3>1. l - i \in 0..l /\ l - (l - i) = i
      BY <1>1
    <3>2. Match[l - (l - i)] # 4
      BY <2>3, <3>1 DEF S
    <3> QED
      BY <3>1, <3>2
  <2> QED
    BY <2>4
<1>8. \A i \in 0..l : Match[i] \in 0..3
  BY <1>6, <1>7
<1>9. ASSUME NEW i \in 1..l PROVE Match[i] = ScannedOver(Match[i - 1], fifo[i])
  <2>1. i - 1 \in 0..l
    BY <1>1
  <2>2. Match[i - 1] # 4
    BY <1>7, <2>1
  <2> QED
    BY <1>1, <1>5, <2>2 DEF ScannedOver, IsHeader
<1> DEFINE h == [i \in 0..l |-> Match[i]]
<1>10. h \in [0..l -> 0..3]
  BY <1>8
<1>11. h[0] = matched /\ h[l] < 3
  BY <1>1, <1>2, <1>5
<1>12. ASSUME NEW i \in 1..l PROVE h[i] = ScannedOver(h[i - 1], fifo[i])
  <2>1. i \in 0..l /\ i - 1 \in 0..l
    BY <1>1
  <2>2. h[i] = Match[i] /\ h[i - 1] = Match[i - 1]
    BY <2>1
  <2> HIDE DEF h
  <2> QED
    BY <1>9, <2>2
<1> HIDE DEF h
<1> QED
  BY <1>10, <1>11, <1>12 DEF l

\* The scan, letter by letter.
LEMMA ScanTable ==
  ASSUME NEW letter
  PROVE  /\ Scanned(0, letter) = IF letter = "N" THEN 1 ELSE 0
         /\ Scanned(1, letter) = IF letter = "S" THEN 2 ELSE Scanned(0, letter)
         /\ Scanned(2, letter) = IF letter = "N" THEN 3 ELSE Scanned(0, letter)
         /\ Scanned(3, letter) = IF letter = "N" THEN 4 ELSE Scanned(1, letter)
<1>1. Magic[1] = "N" /\ Magic[2] = "S" /\ Magic[3] = "N" /\ Magic[4] = "N"
  BY DEF Magic
<1>2. Fallback[1] = 0 /\ Fallback[2] = 0 /\ Fallback[3] = 1
  BY DEF Fallback
<1>3. Scanned(0, letter) = IF letter = "N" THEN 1 ELSE 0
  BY <1>1, ScanEquation
<1>4. Scanned(1, letter) = IF letter = "S" THEN 2 ELSE Scanned(0, letter)
  BY <1>1, <1>2, ScanEquation
<1>5. Scanned(2, letter) = IF letter = "N" THEN 3 ELSE Scanned(0, letter)
  BY <1>1, <1>2, ScanEquation
<1>6. Scanned(3, letter) = IF letter = "N" THEN 4 ELSE Scanned(1, letter)
  BY <1>1, <1>2, ScanEquation
<1> QED
  BY <1>3, <1>4, <1>5, <1>6

\* What the scan has seen, and what Harmless counts, keep their relation.
LEMMA BorderKept ==
  ASSUME NEW r \in 0..3, NEW h \in 0..3, Border(r, h), NEW token,
         ScannedOver(h, token) \in 0..3
  PROVE  /\ Scanned(r, token.is) \in 0..3
         /\ Border(Scanned(r, token.is), ScannedOver(h, token))
<1> DEFINE letter == token.is
<1>1. /\ Scanned(0, letter) = IF letter = "N" THEN 1 ELSE 0
      /\ Scanned(1, letter) = IF letter = "S" THEN 2 ELSE Scanned(0, letter)
      /\ Scanned(2, letter) = IF letter = "N" THEN 3 ELSE Scanned(0, letter)
      /\ Scanned(3, letter) = IF letter = "N" THEN 4 ELSE Scanned(1, letter)
  BY ScanTable
<1>2. r \in {0, 1, 2, 3} /\ h \in {0, 1, 2, 3}
  OBVIOUS
<1>3. CASE IsHeader(token)
  <2>1. Scanned(r, letter) = 0
    BY <1>1, <1>2, <1>3 DEF IsHeader
  <2> QED
    BY <2>1 DEF Border
<1>4. CASE ~IsHeader(token)
  <2>1. ScannedOver(h, token) = Scanned(h, letter)
    BY <1>4 DEF ScannedOver
  <2>2. CASE r = 0
    BY <1>1, <1>2, <2>1, <2>2 DEF Border
  <2>3. CASE r = h
    BY <2>1, <2>3 DEF Border
  <2>4. CASE r = 1 /\ h = 3
    BY <1>1, <2>1, <2>4 DEF Border
  <2> QED
    BY <2>2, <2>3, <2>4 DEF Border
<1> QED
  BY <1>3, <1>4

\* The letters of a magic, read where fewer than three letters have been seen.
LEMMA MagicScanned ==
  /\ \A r \in 0..2 : Scanned(r, "N") = 1 \/ Scanned(r, "N") = 3
  /\ Scanned(1, "S") = 2 /\ Scanned(3, "S") = 2
  /\ Scanned(2, "N") = 3 /\ Scanned(3, "N") = 4
<1>1. \A r \in 0..2 : r = 0 \/ r = 1 \/ r = 2
  OBVIOUS
<1>2. Scanned(0, "N") = 1 /\ Scanned(1, "N") = 1 /\ Scanned(2, "N") = 3 /\ Scanned(3, "N") = 4
  BY ScanTable
<1>3. Scanned(1, "S") = 2 /\ Scanned(3, "S") = 2
  BY ScanTable
<1> QED
  BY <1>1, <1>2, <1>3

(***************************************************************************)
(* A request on the line.                                                  *)
(***************************************************************************)

\* A byte before it is read.
LEMMA ComesCloser ==
  ASSUME NEW n, NEW w, Len(w) \in Nat, NEW p \in Nat \ {0}, NEW q \in 0..Len(w),
         Comes(n, w, p, q), FrontRead
  PROVE  Comes(n, w, p - 1, q)'
<1> DEFINE l == Len(w)
           size == Len(Line)
           next == Len(Line')
<1>1. /\ size \in Nat \ {0} /\ next = size - 1
      /\ \A i \in 1..next : i + 1 \in 1..size /\ Line'[i] = Line[i + 1]
  BY DEF FrontRead
<1>2. /\ p + l - q <= size
      /\ \A i \in q + 1..l : Line[p + i - q] = w[i]
      /\ \A i \in 1..size : i <= p \/ i > p + l - q => Line[i].of # n
  BY DEF Comes
<1>3. l \in Nat /\ q \in 0..l
  OBVIOUS
<1> HIDE DEF l, size, next
<1>4. p - 1 + l - q <= next
  BY <1>1, <1>2, <1>3
<1>5. ASSUME NEW i \in q + 1..l PROVE Line'[p - 1 + i - q] = w[i]
  <2>1. p - 1 + i - q \in 1..next /\ (p - 1 + i - q) + 1 = p + i - q
    BY <1>1, <1>2, <1>3
  <2> QED
    BY <1>1, <1>2, <2>1
<1>6. ASSUME NEW i \in 1..next, i <= p - 1 \/ i > p - 1 + l - q
      PROVE  Line'[i].of # n
  <2>1. i + 1 <= p \/ i + 1 > p + l - q
    BY <1>1, <1>3, <1>6
  <2> QED
    BY <1>1, <1>2, <2>1
<1> QED
  BY <1>4, <1>5, <1>6 DEF Comes, l, next

\* Its own next byte is read.
LEMMA ComesNow ==
  ASSUME NEW n, NEW w, Len(w) \in Nat, NEW q \in 0..Len(w) - 1,
         Comes(n, w, 0, q), FrontRead
  PROVE  Line[1] = w[q + 1] /\ Comes(n, w, 0, q + 1)'
<1> DEFINE l == Len(w)
           size == Len(Line)
           next == Len(Line')
<1>1. /\ size \in Nat \ {0} /\ next = size - 1
      /\ \A i \in 1..next : i + 1 \in 1..size /\ Line'[i] = Line[i + 1]
  BY DEF FrontRead
<1>2. /\ 0 + l - q <= size
      /\ \A i \in q + 1..l : Line[0 + i - q] = w[i]
      /\ \A i \in 1..size : i <= 0 \/ i > 0 + l - q => Line[i].of # n
  BY DEF Comes
<1>3. l \in Nat /\ q \in 0..l - 1
  OBVIOUS
<1> HIDE DEF l, size, next
<1>4. 0 + l - (q + 1) <= next
  BY <1>1, <1>2, <1>3
<1>5. Line[1] = w[q + 1]
  <2>1. q + 1 \in q + 1..l /\ 0 + (q + 1) - q = 1
    BY <1>3
  <2> QED
    BY <1>2, <2>1
<1>6. ASSUME NEW i \in (q + 1) + 1..l PROVE Line'[0 + i - (q + 1)] = w[i]
  <2>1. /\ 0 + i - (q + 1) \in 1..next /\ (0 + i - (q + 1)) + 1 = 0 + i - q
        /\ i \in q + 1..l
    BY <1>1, <1>2, <1>3
  <2> QED
    BY <1>1, <1>2, <2>1
<1>7. ASSUME NEW i \in 1..next, i <= 0 \/ i > 0 + l - (q + 1)
      PROVE  Line'[i].of # n
  <2>1. i + 1 > 0 + l - q
    BY <1>1, <1>3, <1>7
  <2> QED
    BY <1>1, <1>2, <2>1
<1> QED
  BY <1>4, <1>5, <1>6, <1>7 DEF Comes, l, next

\* Another request begins, behind what the board holds of this one.
LEMMA ComesBefore ==
  ASSUME NEW n, NEW w, Len(w) \in Nat, NEW p \in Nat, NEW q \in 0..Len(w),
         Comes(n, w, p, q),
         NEW l \in Nat, p + Len(w) - q <= l, l <= Len(Line), l <= Len(Line'),
         Len(Line) \in Nat, Len(Line') \in Nat,
         \A i \in 1..l : Line'[i] = Line[i],
         \A i \in 1..Len(Line') : i > l => Line'[i].of # n
  PROVE  Comes(n, w, p, q)'
<1> DEFINE size == Len(Line)
           next == Len(Line')
           c == Len(w)
<1>1. /\ \A i \in q + 1..c : Line[p + i - q] = w[i]
      /\ \A i \in 1..size : i <= p \/ i > p + c - q => Line[i].of # n
  BY DEF Comes
<1>2. /\ c \in Nat /\ q \in 0..c /\ p + c - q <= l /\ l <= size /\ l <= next
      /\ size \in Nat /\ next \in Nat
      /\ \A i \in 1..next : i > l => Line'[i].of # n
  OBVIOUS
<1> HIDE DEF size, next, c
<1>3. p + c - q <= next
  BY <1>2
<1>4. ASSUME NEW i \in q + 1..c PROVE Line'[p + i - q] = w[i]
  <2>1. p + i - q \in 1..l
    BY <1>2
  <2> QED
    BY <1>1, <2>1
<1>5. ASSUME NEW i \in 1..next, i <= p \/ i > p + c - q
      PROVE  Line'[i].of # n
  <2>1. CASE i <= l
    <3>1. i \in 1..l /\ i \in 1..size
      BY <1>2, <2>1
    <3> QED
      BY <1>1, <1>5, <3>1
  <2>2. CASE i > l
    BY <1>2, <2>2
  <2> QED
    BY <1>2, <2>1, <2>2
<1> QED
  BY <1>3, <1>4, <1>5 DEF Comes, c, next

\* A request that is all read is gone.
LEMMA ComesGone ==
  ASSUME NEW n, NEW w, Len(w) \in Nat, Len(Line) \in Nat, Comes(n, w, 0, Len(w))
  PROVE  Gone(n)
<1>1. \A i \in 1..Len(Line) : i > 0 + Len(w) - Len(w)
  OBVIOUS
<1> QED
  BY <1>1 DEF Comes, Gone

\* The tokens of a request.
LEMMA RequestIs ==
  ASSUME TypesOK, NEW n \in 1..Len(sent)
  PROVE  /\ Len(sent[n].body) \in Nat /\ Len(Request(n)) = 5 + Len(sent[n].body)
         /\ \A i \in 1..Len(Request(n)) : Request(n)[i].of = n
         /\ \A i \in 1..4 : Request(n)[i] = Token(Magic[i], n)
         /\ Request(n)[5] = Token("header", n)
         /\ \A i \in 1..Len(sent[n].body) : Request(n)[5 + i] = Token(sent[n].body[i], n)
<1>1. sent[n].body \in Seq(Letters) /\ n \in Nat
  BY RequestsTyped
<1>2. LET w == RequestTokens(n, sent[n].body)
      IN  /\ w \in Seq(Tokens) /\ Len(w) = 5 + Len(sent[n].body)
          /\ Len(sent[n].body) \in Nat
          /\ \A i \in 1..Len(w) : w[i].of = n /\ (IsHeader(w[i]) <=> i = 5)
          /\ \A i \in 1..4 : w[i] = Token(Magic[i], n)
          /\ w[5] = Token("header", n)
          /\ \A i \in 1..Len(sent[n].body) : w[5 + i] = Token(sent[n].body[i], n)
  BY <1>1, NewRequest, ZenonT(60)
<1> QED
  BY <1>2 DEF Request

(***************************************************************************)
(* From stage to stage.                                                    *)
(***************************************************************************)

LEMMA TendedBy ==
  ASSUME Tended, UNCHANGED <<sent, clean>>, RestOwned',
         \A n \in clean :
           n \in 1..Len(sent) /\ sent[n].kind # "bad header" /\ Stage(n) => Stage(n)'
  PROVE  Tended'
<1>1. /\ clean' \subseteq 1..Len(sent')
      /\ \A n \in clean' : sent'[n].kind # "bad header" => Stage(n)'
  BY DEF Tended
<1> QED
  BY <1>1 DEF Tended

\* What has been answered stays so: later frames are not about the request,
\* or it is oversized.
LEMMA AnsweredKept ==
  ASSUME NEW n, Answered(n), sent'[n] = sent[n],
         Len(out) \in Nat, Len(out') \in Nat,
         \A i \in 1..Len(out) : i \in 1..Len(out') /\ out'[i] = out[i],
         \A i \in 1..Len(out') :
           i \in 1..Len(out) \/ Oversized(sent[n]) \/ out'[i].seq # n,
         Oversized(sent[n]) \/ (Gone(n)' /\ header'.seq # n)
  PROVE  Answered(n)'
<1> DEFINE due == 1..Len(Due(sent[n]))
           l == Len(out)
           k2 == Len(out')
<1>1. PICK at \in [due -> 1..l] :
        /\ \A k \in due : out[at[k]] = Reply(n, k)
        /\ \A j, k \in due : j < k => at[j] < at[k]
        /\ \A i \in 1..l : out[i].seq = n =>
             \/ \E k \in due : at[k] = i
             \/ Oversized(sent[n]) /\ \A k \in due : at[k] < i
  BY DEF Answered, AsDue
<1> HIDE DEF l, k2
<1>2. l \in Nat /\ \A i \in 1..l : i \in 1..k2 /\ out'[i] = out[i]
  BY DEF l, k2
<1>3. /\ \A k \in due : Reply(n, k)' = Reply(n, k)
      /\ due = 1..Len(Due(sent[n])')
      /\ Oversized(sent[n])' <=> Oversized(sent[n])
  BY DEF Reply, Due, Computable, Oversized
<1> HIDE DEF due
<1>4. at \in [due -> 1..k2] /\ \A k \in due : out'[at[k]] = Reply(n, k)'
  BY <1>1, <1>2, <1>3
<1>5. ASSUME NEW i \in 1..k2, out'[i].seq = n
      PROVE  \/ \E k \in due : at[k] = i
             \/ Oversized(sent[n]) /\ \A k \in due : at[k] < i
  <2>1. CASE i \in 1..l
    BY <1>1, <1>2, <1>5, <2>1
  <2>2. CASE i \notin 1..l
    <3>1. Oversized(sent[n])
      BY <1>5, <2>2 DEF l, k2
    <3>2. \A a \in 1..l : a < i
      BY <1>2, <2>2 DEF k2
    <3> QED
      BY <1>1, <3>1, <3>2
  <2> QED
    BY <2>1, <2>2
<1>6. AsDue(n)'
  BY <1>1, <1>3, <1>4, <1>5 DEF AsDue, k2
<1> QED
  BY <1>3, <1>6 DEF Answered

LEMMA ScanTends ==
  ASSUME Earned, TypesOK', Tended, ScanByte
  PROVE  Tended'
<1>1. /\ pc = "scan" /\ fifo # <<>> /\ fifo' = Tail(fifo)
      /\ UNCHANGED <<header, out, sent, rest, clean>>
      /\ matched' = Scanned(matched, Head(fifo).is)
      /\ pc' = (IF matched' = 4 THEN "header" ELSE "scan")
  BY DEF ScanByte, clientVars, Magic
<1>2. /\ TypesOK /\ fifo \in Seq(Tokens) /\ rest \in Seq(Tokens) /\ matched \in 0..3
      /\ Len(out) \in Nat
  BY <1>1 DEF Earned, TypesOK
<1>3. /\ FrontRead /\ Head(fifo) = Line[1]
      /\ \A k : Gone(k) => Gone(k)'
  BY <1>1, <1>2, TokenRead, FrontKept DEF clientVars
<1>4. RestOwned'
  BY <1>1 DEF Tended, RestOwned
<1>5. \A k : Seen(k)' <=> Seen(k)
  BY <1>1, FramesKept
<1>6. ASSUME NEW n \in clean, n \in 1..Len(sent), sent[n].kind # "bad header", Stage(n)
      PROVE  Stage(n)'
  <2>1. PICK w : w = Request(n)
    OBVIOUS
  <2>2. Request(n)' = w
    BY <1>1, <2>1 DEF Request
  <2>3. /\ Len(w) \in Nat /\ Len(w) >= 5
        /\ w[1].is = "N" /\ w[2].is = "S" /\ w[3].is = "N" /\ w[4].is = "N"
    <3>1. /\ Len(sent[n].body) \in Nat /\ Len(w) = 5 + Len(sent[n].body)
          /\ \A i \in 1..4 : w[i] = Token(Magic[i], n)
      BY <1>2, <1>6, <2>1, RequestIs
    <3>2. Len(w) \in Nat /\ Len(w) >= 5
      BY <3>1
    <3>3. /\ w[1] = Token(Magic[1], n) /\ w[2] = Token(Magic[2], n)
          /\ w[3] = Token(Magic[3], n) /\ w[4] = Token(Magic[4], n)
      BY <3>1
    <3> QED
      BY <3>2, <3>3 DEF Token, Magic
  <2>4. CASE Ahead(n)
    <3>1. PICK p \in Nat : Comes(n, w, p, 0) /\ \E h \in [0..p -> 0..3] : Skips(h, p)
      BY <2>1, <2>4 DEF Ahead
    <3>2. PICK h \in [0..p -> 0..3] : Skips(h, p)
      BY <3>1
    <3>3. ~Seen(n)'
      BY <1>5, <2>4 DEF Ahead
    <3>4. CASE p = 0
      <4>1. h[0] \in 0..3 /\ h[0] < 3 /\ Border(matched, h[0])
        BY <3>2, <3>4 DEF Skips
      <4>2. matched \in 0..2
        BY <4>1 DEF Border
      <4>3. 0 \in 0..Len(w) - 1 /\ 0 + 1 = 1
        BY <2>3
      <4>4. Line[1] = w[1] /\ Comes(n, w, 0, 1)'
        BY <1>3, <2>3, <3>1, <3>4, <4>3, ComesNow
      <4>5. matched' = 1 \/ matched' = 3
        BY <1>1, <1>3, <2>3, <4>2, <4>4, MagicScanned
      <4>6. pc' = "scan" /\ 1 \in 1..3
        BY <1>1, <4>5
      <4>7. Matching(n)'
        BY <2>2, <3>3, <4>4, <4>5, <4>6 DEF Matching
      <4> QED
        BY <4>7 DEF Stage
    <3>5. CASE p # 0
      <4>1. p - 1 \in Nat /\ p \in Nat \ {0} /\ 0 \in 0..Len(w)
        BY <2>3, <3>5
      <4>2. Comes(n, w, p - 1, 0)'
        BY <1>3, <2>3, <3>1, <4>1, ComesCloser
      <4> DEFINE g == [i \in 0..p - 1 |-> h[i + 1]]
      <4>3. \A i \in 0..p - 1 : i + 1 \in 0..p /\ g[i] = h[i + 1]
        BY <4>1
      <4>4. g \in [0..p - 1 -> 0..3]
        BY <4>3
      <4>5. /\ Border(matched, h[0]) /\ h[p] < 3
            /\ \A i \in 1..p : h[i] = ScannedOver(h[i - 1], Line[i])
        BY <3>2 DEF Skips
      <4> HIDE DEF g
      <4>6. h[1] = ScannedOver(h[0], Line[1]) /\ h[1] \in 0..3 /\ h[0] \in 0..3
        <5>1. 1 \in 1..p /\ 1 - 1 = 0 /\ 1 \in 0..p /\ 0 \in 0..p
          BY <4>1
        <5> QED
          BY <4>5, <5>1
      <4>7. matched' \in 0..3 /\ Border(matched', h[1])
        BY <1>1, <1>2, <1>3, <4>5, <4>6, BorderKept
      <4>8. g[0] = h[1] /\ g[p - 1] = h[p]
        <5>1. 0 \in 0..p - 1 /\ 0 + 1 = 1 /\ p - 1 \in 0..p - 1 /\ (p - 1) + 1 = p
          BY <4>1
        <5> QED
          BY <4>3, <5>1
      <4>9. ASSUME NEW i \in 1..p - 1 PROVE g[i] = ScannedOver(g[i - 1], Line'[i])
        <5>1. /\ i \in 0..p - 1 /\ i - 1 \in 0..p - 1 /\ (i - 1) + 1 = i
              /\ i + 1 \in 1..p /\ (i + 1) - 1 = i
          BY <4>1
        <5>2. i \in 1..Len(Line')
          BY <1>3, <2>3, <3>1, <4>1 DEF Comes, FrontRead
        <5>3. Line'[i] = Line[i + 1]
          BY <1>3, <5>2 DEF FrontRead
        <5> QED
          BY <4>3, <4>5, <5>1, <5>3
      <4>10. Skips(g, p - 1)'
        BY <4>5, <4>7, <4>8, <4>9 DEF Skips, ScannedOver, IsHeader
      <4>11. pc' = "scan"
        BY <1>1, <4>7
      <4>12. Ahead(n)'
        BY <2>2, <3>3, <4>1, <4>2, <4>4, <4>10, <4>11 DEF Ahead
      <4> QED
        BY <4>12 DEF Stage
    <3> QED
      BY <3>4, <3>5
  <2>5. CASE Matching(n)
    <3>1. PICK q \in 1..3 :
            Comes(n, w, 0, q) /\ (matched = q \/ (q = 1 /\ matched = 3))
      BY <2>1, <2>5 DEF Matching
    <3>2. ~Seen(n)'
      BY <1>5, <2>5 DEF Matching
    <3>3. q \in 0..Len(w) - 1
      BY <2>3
    <3>4. Line[1] = w[q + 1] /\ Comes(n, w, 0, q + 1)'
      BY <1>3, <2>3, <3>1, <3>3, ComesNow
    <3>5. CASE q = 1 \/ q = 2
      <4>1. q + 1 \in 1..3 /\ matched' = q + 1
        BY <1>1, <1>3, <2>3, <3>1, <3>4, <3>5, MagicScanned
      <4>2. pc' = "scan"
        BY <1>1, <4>1
      <4>3. Matching(n)'
        BY <2>2, <3>2, <3>4, <4>1, <4>2 DEF Matching
      <4> QED
        BY <4>3 DEF Stage
    <3>6. CASE q = 3
      <4>1. matched' = 4 /\ pc' = "header" /\ q + 1 = 4
        BY <1>1, <1>3, <2>3, <3>1, <3>4, <3>6, MagicScanned
      <4>2. Headed(n)'
        BY <2>2, <3>2, <3>4, <4>1 DEF Headed
      <4> QED
        BY <4>2 DEF Stage
    <3> QED
      BY <3>5, <3>6
  <2>6. CASE Answered(n)
    <3>1. Oversized(sent[n]) \/ (Gone(n)' /\ header'.seq # n)
      BY <1>1, <1>3, <2>6 DEF Answered
    <3>2. Answered(n)'
      BY <1>1, <1>2, <2>6, <3>1, AnsweredKept
    <3> QED
      BY <3>2 DEF Stage
  <2> QED
    BY <1>1, <1>6, <2>4, <2>5, <2>6 DEF Stage, Headed, Filling, Handled
<1> QED
  BY <1>1, <1>4, <1>6, TendedBy

LEMMA HeaderTends ==
  ASSUME Earned, TypesOK', Tended, ReadHeader
  PROVE  Tended'
<1>1. /\ pc = "header" /\ fifo # <<>> /\ fifo' = Tail(fifo)
      /\ UNCHANGED <<input, out, sent, rest, clean>>
      /\ header' \in HeadersFrom(Head(fifo))
  BY DEF ReadHeader, clientVars
<1>2. /\ TypesOK /\ LineOrdered /\ fifo \in Seq(Tokens) /\ rest \in Seq(Tokens)
      /\ Len(out) \in Nat /\ input = <<>> /\ Len(input) = 0
  BY <1>1 DEF Earned, TypesOK, Current, Idle
<1>3. /\ FrontRead /\ Head(fifo) = Line[1] /\ 1 \in 1..Len(Line)
      /\ \A k : Gone(k) => Gone(k)'
  BY <1>1, <1>2, TokenRead, FrontKept DEF clientVars
<1>4. RestOwned'
  BY <1>1 DEF Tended, RestOwned
<1>5. \A k : Seen(k)' <=> Seen(k)
  BY <1>1, FramesKept
<1>7. header'.seq \in {0, Line[1].of}
  <2>1. header' \in HeadersFrom(Line[1])
    BY <1>1, <1>3
  <2>2. TypesOK /\ LineOrdered /\ 1 \in 1..Len(Line)
    BY <1>2, <1>3
  <2> QED
    BY <2>1, <2>2, HeadersTyped
<1>6. ASSUME NEW n \in clean, n \in 1..Len(sent), sent[n].kind # "bad header", Stage(n)
      PROVE  Stage(n)'
  <2>1. PICK w : w = Request(n)
    OBVIOUS
  <2>2. Request(n)' = w
    BY <1>1, <2>1 DEF Request
  <2>3. /\ Len(w) \in Nat /\ 4 \in 0..Len(w) - 1 /\ w[5] = Token("header", n)
        /\ Len(sent[n].body) \in Nat
    <3>1. /\ Len(sent[n].body) \in Nat /\ Len(w) = 5 + Len(sent[n].body)
          /\ w[5] = Token("header", n)
      BY <1>2, <1>6, <2>1, RequestIs
    <3> QED
      BY <3>1
  <2>4. CASE Headed(n)
    <3>1. Comes(n, w, 0, 4) /\ ~Seen(n)'
      BY <1>5, <2>1, <2>4 DEF Headed
    <3>2. Line[1] = w[4 + 1] /\ Comes(n, w, 0, 4 + 1)'
      BY <1>3, <2>3, <3>1, ComesNow
    <3>3. Line[1] = Token("header", n) /\ Comes(n, w, 0, 5)'
      BY <2>3, <3>2
    <3>4. /\ header'.valid /\ header'.seq = n
          /\ header'.length = Len(sent[n].body)
      <4>1. Line[1].is = "header" /\ Line[1].of = n
        BY <3>3 DEF Token
      <4>2. header' \in {[valid |-> TRUE, seq |-> n, length |-> Len(sent[n].body)]}
        BY <1>1, <1>3, <1>6, <4>1 DEF HeadersFrom
      <4> QED
        BY <4>2
    <3>5. CASE Oversized(sent[n])
      <4>1. header'.length > Payload
        BY <3>4, <3>5 DEF Oversized
      <4>2. pc' = "reply" /\ reply' = "BAD_PAYLOAD"
        BY <3>4, <4>1 DEF ReadHeader
      <4>3. ~Computable(sent[n])
        BY <2>3, <3>5, SnnUartAssumption DEF Oversized, Computable
      <4>4. Handled(n)'
        BY <1>1, <3>4, <3>5, <4>2, <4>3 DEF Handled, Oversized, Computable
      <4> QED
        BY <4>4 DEF Stage
    <3>6. CASE ~Oversized(sent[n])
      <4>1. ~(header'.length > Payload)
        BY <3>4, <3>6 DEF Oversized
      <4>2. pc' = "payload"
        BY <4>1 DEF ReadHeader
      <4>3. /\ Len(input') = 0 /\ input' = <<>> /\ 5 + Len(input') = 5
            /\ Len(input') <= Len(sent[n].body)
        BY <1>1, <1>2, <2>3
      <4>4. \A i \in 1..Len(input') : input'[i] = w[5 + i]
        BY <4>3
      <4>5. Filling(n)'
        BY <1>1, <2>2, <3>1, <3>3, <3>4, <3>6, <4>2, <4>3, <4>4 DEF Filling, Oversized
      <4> QED
        BY <4>5 DEF Stage
    <3> QED
      BY <3>5, <3>6
  <2>5. CASE Answered(n)
    <3>1. n # 0
      <4>1. \A k \in 1..Len(sent) : k # 0
        <5>1. Len(sent) \in Nat
          BY <1>2, RequestsTyped
        <5> QED
          BY <5>1
      <4> QED
        BY <1>6, <4>1
    <3>2. Gone(n) => Gone(n)' /\ header'.seq # n
      BY <1>3, <1>7, <3>1 DEF Gone
    <3>3. Oversized(sent[n]) \/ (Gone(n)' /\ header'.seq # n)
      BY <2>5, <3>2 DEF Answered
    <3>4. Answered(n)'
      BY <1>1, <1>2, <2>5, <3>3, AnsweredKept
    <3> QED
      BY <3>4 DEF Stage
  <2> QED
    BY <1>1, <1>6, <2>4, <2>5 DEF Stage, Ahead, Matching, Filling, Handled
<1> QED
  BY <1>1, <1>4, <1>6, TendedBy

LEMMA ByteTends ==
  ASSUME Earned, TypesOK', Tended, ReadByte
  PROVE  Tended'
<1>1. /\ pc = "payload" /\ Len(input) < header.length
      /\ fifo # <<>> /\ fifo' = Tail(fifo) /\ input' = Append(input, Head(fifo))
      /\ UNCHANGED <<pc, header, out, sent, rest, clean>>
  BY DEF ReadByte, clientVars
<1>2. /\ TypesOK /\ LineOrdered /\ fifo \in Seq(Tokens) /\ rest \in Seq(Tokens)
      /\ Len(out) \in Nat /\ input \in Seq(Tokens) /\ Len(input) \in Nat
      /\ header.valid => HeaderRead
  BY <1>1 DEF Earned, TypesOK, Current
<1>3. /\ FrontRead /\ Head(fifo) = Line[1] /\ Head(fifo) \in Tokens
      /\ \A k : Gone(k) => Gone(k)'
  BY <1>1, <1>2, TokenRead, FrontKept DEF clientVars
<1>4. RestOwned'
  BY <1>1 DEF Tended, RestOwned
<1>5. \A k : Seen(k)' <=> Seen(k)
  BY <1>1, FramesKept
<1>6. ASSUME NEW n \in clean, n \in 1..Len(sent), sent[n].kind # "bad header", Stage(n)
      PROVE  Stage(n)'
  <2>1. PICK w : w = Request(n)
    OBVIOUS
  <2>2. Request(n)' = w
    BY <1>1, <2>1 DEF Request
  <2>3. CASE Filling(n)
    <3> DEFINE q == 5 + Len(input)
    <3>1. /\ Comes(n, w, 0, q) /\ ~Seen(n)'
          /\ header.valid /\ header.seq = n /\ ~Oversized(sent[n])
          /\ \A i \in 1..Len(input) : input[i] = w[5 + i]
      BY <1>5, <2>1, <2>3 DEF Filling
    <3>2. Len(input) < Len(sent[n].body)
      BY <1>1, <1>2, <3>1 DEF HeaderRead
    <3>3. /\ Len(w) \in Nat /\ q \in 0..Len(w) - 1 /\ q + 1 = 5 + (Len(input) + 1)
          /\ Len(input) + 1 <= Len(sent[n].body)
      <4>1. /\ Len(sent[n].body) \in Nat /\ Len(w) = 5 + Len(sent[n].body)
        BY <1>2, <1>6, <2>1, RequestIs
      <4> QED
        BY <1>2, <3>2, <4>1
    <3>4. PICK k : k = q
      OBVIOUS
    <3>5. Line[1] = w[k + 1] /\ Comes(n, w, 0, k + 1)'
      <4>1. Comes(n, w, 0, k) /\ k \in 0..Len(w) - 1
        BY <3>1, <3>3, <3>4
      <4> QED
        BY <1>3, <3>3, <4>1, ComesNow
    <3>6. /\ Len(input') = Len(input) + 1 /\ input'[Len(input) + 1] = Line[1]
          /\ \A i \in 1..Len(input) : input'[i] = input[i]
      <4>1. input' = Append(input, Line[1]) /\ Line[1] \in Tokens
        BY <1>1, <1>3
      <4> QED
        BY <1>2, <4>1
    <3>7. k + 1 = 5 + Len(input') /\ k + 1 = 5 + (Len(input) + 1)
      BY <3>3, <3>4, <3>6
    <3>8. ASSUME NEW i \in 1..Len(input') PROVE input'[i] = w[5 + i]
      <4>1. CASE i \in 1..Len(input)
        BY <3>1, <3>6, <4>1
      <4>2. CASE i = Len(input) + 1
        BY <3>5, <3>6, <3>7, <4>2
      <4> QED
        BY <1>2, <3>6, <4>1, <4>2
    <3>9. Comes(n, w, 0, 5 + Len(input))'
      BY <3>5, <3>7 DEF Comes
    <3>10. Filling(n)'
      BY <1>1, <2>2, <3>1, <3>3, <3>6, <3>8, <3>9 DEF Filling, Oversized
    <3> QED
      BY <3>10 DEF Stage
  <2>4. CASE Answered(n)
    <3>1. Oversized(sent[n]) \/ (Gone(n)' /\ header'.seq # n)
      BY <1>1, <1>3, <2>4 DEF Answered
    <3>2. Answered(n)'
      BY <1>1, <1>2, <2>4, <3>1, AnsweredKept
    <3> QED
      BY <3>2 DEF Stage
  <2> QED
    BY <1>1, <1>6, <2>3, <2>4 DEF Stage, Ahead, Matching, Headed, Handled
<1> QED
  BY <1>1, <1>4, <1>6, TendedBy

LEMMA CheckTends ==
  ASSUME Earned, TypesOK', Tended, CheckPayload
  PROVE  Tended'
<1>1. /\ pc = "payload" /\ Len(input) = header.length
      /\ pc' = (IF Verdict = "OK" THEN "ack" ELSE "reply") /\ reply' = Verdict
      /\ UNCHANGED <<header, input, out, sent, rest, fifo, clean>>
  BY DEF CheckPayload, clientVars
<1>2. /\ TypesOK /\ LineOrdered /\ Len(Line) \in Nat
      /\ Len(out) \in Nat /\ input \in Seq(Tokens) /\ Len(input) \in Nat
      /\ header.valid => HeaderRead
  BY LineTyped DEF Earned, TypesOK, Current
<1>3. Line' = Line /\ \A k : Gone(k)' <=> Gone(k)
  BY <1>1 DEF Line, Gone
<1>4. RestOwned'
  BY <1>1 DEF Tended, RestOwned
<1>5. pc' \in {"ack", "reply"} /\ reply' # "INFERENCE_FAILED"
  BY <1>1 DEF Verdict
<1>6. ASSUME NEW n \in clean, n \in 1..Len(sent), sent[n].kind # "bad header", Stage(n)
      PROVE  Stage(n)'
  <2>1. PICK w : w = Request(n)
    OBVIOUS
  <2>2. /\ Len(sent[n].body) \in Nat /\ Len(w) = 5 + Len(sent[n].body)
        /\ \A i \in 1..Len(sent[n].body) : w[5 + i] = Token(sent[n].body[i], n)
    BY <1>2, <1>6, <2>1, RequestIs
  <2>3. CASE Filling(n)
    <3>1. /\ Comes(n, w, 0, 5 + Len(input)) /\ header.valid /\ header.seq = n
          /\ \A i \in 1..Len(input) : input[i] = w[5 + i]
      BY <2>1, <2>3 DEF Filling
    <3>2. Len(input) = Len(sent[n].body)
      BY <1>1, <1>2, <3>1 DEF HeaderRead
    <3>3. Len(w) \in Nat /\ 5 + Len(input) = Len(w)
      BY <2>2, <3>2
    <3>4. Gone(n)
      <4>1. Comes(n, w, 0, Len(w))
        BY <3>1, <3>3
      <4> QED
        BY <1>2, <3>3, <4>1, ComesGone
    <3>5. input = BodyTokens(n)
      <4> DEFINE l == Len(sent[n].body)
      <4>1. input \in [1..l -> Tokens] /\ \A i \in 1..l : input[i] = Token(sent[n].body[i], n)
        BY <1>2, <2>2, <3>1, <3>2, LenProperties
      <4>2. input = [i \in 1..l |-> input[i]]
        BY <4>1
      <4> QED
        BY <4>1, <4>2 DEF BodyTokens
    <3>6. ASSUME Computable(sent[n]) PROVE Verdict = "OK"
      <4>1. header.length = Payload /\ sent[n].kind \in {"good", "failing"}
        BY <1>1, <3>2, <3>6 DEF Computable
      <4>2. CrcMatches
        BY <3>1, <3>5, <4>1 DEF CrcMatches
      <4> QED
        BY <3>1, <4>1, <4>2 DEF Verdict
    <3>7. pc' = "reply" => ~Computable(sent[n])
      BY <1>1, <3>6
    <3>8. Handled(n)'
      BY <1>1, <1>3, <1>5, <3>1, <3>4, <3>7 DEF Handled, Oversized, Computable
    <3> QED
      BY <3>8 DEF Stage
  <2>4. CASE Answered(n)
    <3>1. Oversized(sent[n]) \/ (Gone(n)' /\ header'.seq # n)
      BY <1>1, <1>3, <2>4 DEF Answered
    <3>2. Answered(n)'
      BY <1>1, <1>2, <2>4, <3>1, AnsweredKept
    <3> QED
      BY <3>2 DEF Stage
  <2> QED
    BY <1>1, <1>6, <2>3, <2>4 DEF Stage, Ahead, Matching, Headed, Handled
<1> QED
  BY <1>1, <1>4, <1>6, TendedBy

LEMMA InferTends ==
  ASSUME Earned, TypesOK', Tended, Infer
  PROVE  Tended'
<1>1. /\ pc = "infer"
      /\ IF sent[header.seq].kind = "failing"
         THEN pc' = "reply" /\ reply' = "INFERENCE_FAILED"
         ELSE pc' = "result" /\ reply' = reply
      /\ UNCHANGED <<header, out, sent, rest, fifo, clean>>
  BY DEF Infer, Untouched, clientVars
<1>2. /\ TypesOK /\ Len(out) \in Nat
      /\ Computable(sent[header.seq]) /\ reply # "INFERENCE_FAILED"
  BY <1>1 DEF Earned, TypesOK, Current
<1>3. Line' = Line /\ \A k : Gone(k)' <=> Gone(k)
  BY <1>1 DEF Line, Gone
<1>4. RestOwned'
  BY <1>1 DEF Tended, RestOwned
<1>5. ASSUME NEW n \in clean, n \in 1..Len(sent), sent[n].kind # "bad header", Stage(n)
      PROVE  Stage(n)'
  <2>1. CASE Handled(n)
    <3>1. header.valid /\ header.seq = n /\ (Oversized(sent[n]) \/ Gone(n))
      BY <2>1 DEF Handled
    <3>2. CASE sent[n].kind = "failing"
      <4>1. pc' = "reply" /\ reply' = "INFERENCE_FAILED"
        BY <1>1, <3>1, <3>2
      <4>2. Handled(n)'
        BY <1>1, <1>2, <1>3, <3>1, <3>2, <4>1 DEF Handled, Oversized, Computable
      <4> QED
        BY <4>2 DEF Stage
    <3>3. CASE sent[n].kind # "failing"
      <4>1. pc' = "result" /\ reply' # "INFERENCE_FAILED"
        BY <1>1, <1>2, <3>1, <3>3
      <4>2. Handled(n)'
        BY <1>1, <1>3, <3>1, <3>3, <4>1 DEF Handled, Oversized, Computable
      <4> QED
        BY <4>2 DEF Stage
    <3> QED
      BY <3>2, <3>3
  <2>2. CASE Answered(n)
    <3>1. Oversized(sent[n]) \/ (Gone(n)' /\ header'.seq # n)
      BY <1>1, <1>3, <2>2 DEF Answered
    <3>2. Answered(n)'
      BY <1>1, <1>2, <2>2, <3>1, AnsweredKept
    <3> QED
      BY <3>2 DEF Stage
  <2> QED
    BY <1>1, <1>5, <2>1, <2>2 DEF Stage, Ahead, Matching, Headed, Filling
<1> QED
  BY <1>1, <1>4, <1>5, TendedBy

LEMMA AckTends ==
  ASSUME Earned, TypesOK', Tended, SendAck
  PROVE  Tended'
<1>1. /\ pc = "ack" /\ pc' = "infer" /\ out' = Append(out, Answer("ACK"))
      /\ UNCHANGED <<header, reply, sent, rest, fifo, clean>>
  BY DEF SendAck, Untouched, clientVars
<1>2. /\ TypesOK /\ out \in Seq(Frames) /\ Len(out) \in Nat
      /\ reply # "INFERENCE_FAILED" /\ header.seq \in Nat
  BY <1>1 DEF Earned, TypesOK, Current
<1>3. Line' = Line /\ \A k : Gone(k)' <=> Gone(k)
  BY <1>1 DEF Line, Gone
<1>4. RestOwned'
  BY <1>1 DEF Tended, RestOwned
<1>5. /\ Len(out') = Len(out) + 1 /\ Len(out') \in Nat
      /\ \A i \in 1..Len(out) : i \in 1..Len(out') /\ out'[i] = out[i]
      /\ \A i \in 1..Len(out') : i \in 1..Len(out) \/ out'[i].seq = header.seq
  <2>1. Answer("ACK") \in Frames /\ Answer("ACK").seq = header.seq
    BY <1>2 DEF Answer, Frames
  <2> QED
    BY <1>1, <1>2, <2>1
<1>6. ASSUME NEW n \in clean, n \in 1..Len(sent), sent[n].kind # "bad header", Stage(n)
      PROVE  Stage(n)'
  <2>1. CASE Handled(n)
    <3>1. header.valid /\ header.seq = n /\ (Oversized(sent[n]) \/ Gone(n))
      BY <2>1 DEF Handled
    <3>2. Handled(n)'
      BY <1>1, <1>2, <1>3, <3>1 DEF Handled, Oversized
    <3> QED
      BY <3>2 DEF Stage
  <2>2. CASE Answered(n)
    <3>1. Oversized(sent[n]) \/ (Gone(n)' /\ header'.seq # n /\ header.seq # n)
      BY <1>1, <1>3, <2>2 DEF Answered
    <3>2. Answered(n)'
      BY <1>1, <1>2, <1>5, <2>2, <3>1, AnsweredKept
    <3> QED
      BY <3>2 DEF Stage
  <2> QED
    BY <1>1, <1>6, <2>1, <2>2 DEF Stage, Ahead, Matching, Headed, Filling
<1> QED
  BY <1>1, <1>4, <1>6, TendedBy

\* The frame that ends a transaction is the last one that is due.
LEMMA LastIsDue ==
  ASSUME TypesOK, NEW n \in Nat \ {0}, NEW type \in {"ERROR", "RESULT"}, NEW status,
         Return(status, <<[type |-> type, seq |-> n]>>), sent' = sent,
         \/ Due(sent[n]) = <<type>> /\ ~Seen(n)
         \/ Due(sent[n]) = <<"ACK", type>> /\ OnlyAcked(n)
  PROVE  AsDue(n)'
<1> DEFINE f == [type |-> type, seq |-> n]
           l == Len(out)
           due == Due(sent[n])
<1>1. f \in Frames /\ f.seq = n
  BY DEF Frames
<1>2. /\ l \in Nat /\ Len(out') \in Nat
      /\ l + 1 \in 1..Len(out') /\ out'[l + 1] = f
      /\ \A i \in 1..l : i \in 1..Len(out') /\ out'[i] = out[i]
      /\ \A i \in 1..Len(out') :
           i \in 1..l \/ i = l + 1 \/ (i = l + 2 /\ out'[i] = Text)
  <2>1. Return(status, <<f>>)
    OBVIOUS
  <2> HIDE DEF f
  <2> QED
    BY <1>1, <2>1, Written
<1>3. Text.seq # n
  BY DEF Text
<1>4. ASSUME NEW i \in 1..Len(out'), out'[i].seq = n
      PROVE  i = l + 1 \/ (i \in 1..l /\ out[i].seq = n)
  BY <1>2, <1>3, <1>4
<1>5. Due(sent[n])' = due /\ \A k : Reply(n, k)' = [type |-> due[k], seq |-> n]
  BY DEF Due, Computable, Reply
<1>8. ASSUME NEW d, NEW at \in [d -> 1..Len(out')], d = 1..Len(due),
             \A k \in d : out'[at[k]] = [type |-> due[k], seq |-> n],
             \A j, k \in d : j < k => at[j] < at[k],
             \A i \in 1..Len(out') : out'[i].seq = n => \E k \in d : at[k] = i
      PROVE  AsDue(n)'
  <2> HIDE DEF due, l
  <2>1. d = 1..Len(Due(sent[n])') /\ \A k \in d : out'[at[k]] = Reply(n, k)'
    BY <1>5, <1>8
  <2> QED
    BY <1>8, <2>1, SMTT(60) DEF AsDue
<1>6. CASE due = <<type>> /\ ~Seen(n)
  <2> DEFINE at == [k \in 1..1 |-> l + 1]
  <2>1. 1..Len(due) = 1..1 /\ due[1] = type
    BY <1>6
  <2>2. at \in [1..1 -> 1..Len(out')] /\ at[1] = l + 1
    BY <1>2
  <2> HIDE DEF at
  <2>3. \A k \in 1..1 : out'[at[k]] = [type |-> due[k], seq |-> n]
    BY <1>2, <2>1, <2>2
  <2>4. \A i \in 1..Len(out') : out'[i].seq = n => \E k \in 1..1 : at[k] = i
    BY <1>4, <1>6, <2>2 DEF Seen
  <2>5. \A j, k \in 1..1 : j < k => at[j] < at[k]
    OBVIOUS
  <2> HIDE DEF due, l
  <2> QED
    BY <1>8, <2>1, <2>2, <2>3, <2>4, <2>5
<1>7. CASE due = <<"ACK", type>> /\ OnlyAcked(n)
  <2>1. PICK a \in 1..l : out[a] = Ack(n) /\ \A k \in 1..l : k # a => out[k].seq # n
    BY <1>7 DEF OnlyAcked
  <2> DEFINE at == [k \in 1..2 |-> IF k = 1 THEN a ELSE l + 1]
  <2>2. 1..Len(due) = 1..2 /\ due[1] = "ACK" /\ due[2] = type
    BY <1>7
  <2>3. at \in [1..2 -> 1..Len(out')] /\ at[1] = a /\ at[2] = l + 1
    BY <1>2
  <2> HIDE DEF at
  <2>4. \A k \in 1..2 : out'[at[k]] = [type |-> due[k], seq |-> n]
    <3>1. out'[at[1]] = [type |-> due[1], seq |-> n]
      BY <1>2, <2>1, <2>2, <2>3 DEF Ack
    <3>2. out'[at[2]] = [type |-> due[2], seq |-> n]
      BY <1>2, <2>2, <2>3
    <3>3. \A k \in 1..2 : k = 1 \/ k = 2
      OBVIOUS
    <3> QED
      BY <3>1, <3>2, <3>3
  <2>5. \A i \in 1..Len(out') : out'[i].seq = n => \E k \in 1..2 : at[k] = i
    <3>1. 1 \in 1..2 /\ 2 \in 1..2
      OBVIOUS
    <3> QED
      BY <1>4, <2>1, <2>3, <3>1
  <2>6. \A j, k \in 1..2 : j < k => at[j] < at[k]
    <3>1. a < l + 1
      BY <1>2
    <3>2. \A j, k \in 1..2 : j < k => j = 1 /\ k = 2
      OBVIOUS
    <3> QED
      BY <2>3, <3>1, <3>2
  <2> HIDE DEF due, l
  <2> QED
    BY <1>8, <2>2, <2>3, <2>4, <2>5, <2>6
<1> QED
  BY <1>6, <1>7

LEMMA AnswerTends ==
  ASSUME Earned, TypesOK', Tended, ReplyError \/ SendResult
  PROVE  Tended'
<1> DEFINE q == header.seq
<1>1. PICK type \in {"ERROR", "RESULT"}, status \in {reply, "OK"} :
        /\ Return(status, <<[type |-> type, seq |-> q]>>)
        /\ type = "ERROR" => pc = "reply"
        /\ type = "RESULT" => pc = "result"
  <2>1. CASE ReplyError
    <3>1. Return(reply, <<[type |-> "ERROR", seq |-> q]>>) /\ pc = "reply"
      BY <2>1 DEF ReplyError, Answer
    <3> QED
      BY <3>1
  <2>2. CASE SendResult
    <3>1. Return("OK", <<[type |-> "RESULT", seq |-> q]>>) /\ pc = "result"
      BY <2>2 DEF SendResult, Answer
    <3> QED
      BY <3>1
  <2> QED
    BY <2>1, <2>2
<1>2. UNCHANGED <<sent, rest, fifo, clean>>
  BY DEF ReplyError, SendResult, Untouched, clientVars
<1>3. TypesOK /\ Current /\ Served /\ pc \in {"reply", "result"} /\ q \in Nat
  BY <1>1 DEF Earned, TypesOK
<1>4. Line' = Line /\ \A k : Gone(k)' <=> Gone(k)
  BY <1>2 DEF Line, Gone
<1>5. RestOwned'
  BY <1>2 DEF Tended, RestOwned
<1>6. header'.seq = 0
  BY <1>1, <1>3, ReturnIdle
<1>7. /\ Len(out) \in Nat /\ Len(out') \in Nat
      /\ \A i \in 1..Len(out) : i \in 1..Len(out') /\ out'[i] = out[i]
      /\ \A i \in 1..Len(out') :
           i \in 1..Len(out) \/ out'[i].seq = q \/ out'[i].seq = 0
  <2> DEFINE f == [type |-> type, seq |-> q]
  <2>1. f \in Frames /\ f.seq = q /\ Return(status, <<f>>) /\ Text.seq = 0
    BY <1>1, <1>3 DEF Frames, Text
  <2> HIDE DEF f, q
  <2>2. /\ Len(out) \in Nat /\ Len(out') \in Nat
        /\ Len(out) + 1 \in 1..Len(out') /\ out'[Len(out) + 1] = f
        /\ \A i \in 1..Len(out) : i \in 1..Len(out') /\ out'[i] = out[i]
        /\ \A i \in 1..Len(out') :
             i \in 1..Len(out) \/ i = Len(out) + 1 \/ (i = Len(out) + 2 /\ out'[i] = Text)
    BY <1>3, <2>1, Written
  <2> QED
    BY <2>1, <2>2
<1>8. \A n \in 1..Len(sent) : n \in Nat \ {0}
  BY <1>3, RequestsTyped
<1>9. ASSUME NEW n \in clean, n \in 1..Len(sent), sent[n].kind # "bad header", Stage(n)
      PROVE  Stage(n)'
  <2>1. n \in Nat \ {0}
    BY <1>8, <1>9
  <2>2. CASE Handled(n)
    <3>1. /\ header.valid /\ q = n /\ (Oversized(sent[n]) \/ Gone(n))
          /\ pc = "reply" => (reply = "INFERENCE_FAILED" <=> Computable(sent[n]))
          /\ reply = "INFERENCE_FAILED" => sent[n].kind = "failing"
          /\ pc = "result" => sent[n].kind # "failing"
      BY <2>2 DEF Handled
    <3>2. \/ Due(sent[n]) = <<type>> /\ ~Seen(n)
          \/ Due(sent[n]) = <<"ACK", type>> /\ OnlyAcked(n)
      <4>1. CASE pc = "result"
        <5>1. OnlyAcked(n) /\ Computable(sent[n]) /\ type = "RESULT"
          BY <1>1, <1>3, <3>1, <4>1 DEF Current, Computed
        <5>2. Due(sent[n]) = <<"ACK", "RESULT">>
          BY <3>1, <4>1, <5>1 DEF Due
        <5> QED
          BY <5>1, <5>2
      <4>2. CASE pc = "reply" /\ reply = "INFERENCE_FAILED"
        <5>1. OnlyAcked(n) /\ Computable(sent[n]) /\ type = "ERROR"
          BY <1>1, <1>3, <3>1, <4>2 DEF Current, Computed
        <5>2. Due(sent[n]) = <<"ACK", "ERROR">>
          BY <3>1, <4>2, <5>1 DEF Due
        <5> QED
          BY <5>1, <5>2
      <4>3. CASE pc = "reply" /\ reply # "INFERENCE_FAILED"
        <5>1. ~Seen(n) /\ type = "ERROR"
          BY <1>1, <1>3, <3>1, <4>3 DEF Current, Computed
        <5>2. Due(sent[n]) = <<"ERROR">>
          BY <3>1, <4>3 DEF Due
        <5> QED
          BY <5>1, <5>2
      <4> QED
        BY <1>3, <4>1, <4>2, <4>3
    <3>3. Return(status, <<[type |-> type, seq |-> n]>>) /\ sent' = sent
      BY <1>1, <1>2, <3>1
    <3>4. AsDue(n)'
      BY <1>3, <2>1, <3>2, <3>3, LastIsDue
    <3>5. Answered(n)'
      BY <1>2, <1>4, <1>6, <2>1, <3>1, <3>4 DEF Answered, Oversized
    <3> QED
      BY <3>5 DEF Stage
  <2>3. CASE Answered(n)
    <3>1. Oversized(sent[n]) \/ (Gone(n)' /\ q # n)
      BY <1>4, <2>3 DEF Answered
    <3>2. /\ \A i \in 1..Len(out') :
               i \in 1..Len(out) \/ Oversized(sent[n]) \/ out'[i].seq # n
          /\ Oversized(sent[n]) \/ (Gone(n)' /\ header'.seq # n)
      BY <1>6, <1>7, <2>1, <3>1
    <3>3. Answered(n)'
      BY <1>2, <1>7, <2>3, <3>2, AnsweredKept
    <3> QED
      BY <3>3 DEF Stage
  <2> QED
    BY <1>3, <1>9, <2>2, <2>3 DEF Stage, Ahead, Matching, Headed, Filling
<1> QED
  BY <1>2, <1>5, <1>9, TendedBy

\* Steps that leave the board and the line as they are.
LEMMA IdleTends ==
  ASSUME Tended, Line' = Line, RestOwned',
         UNCHANGED <<pc, matched, header, input, reply, out, sent, clean>>
  PROVE  Tended'
<1>1. \A n : /\ Request(n)' = Request(n) /\ (Seen(n)' <=> Seen(n))
             /\ (Gone(n)' <=> Gone(n)) /\ (AsDue(n)' <=> AsDue(n))
             /\ (Oversized(sent[n])' <=> Oversized(sent[n]))
             /\ (Computable(sent[n])' <=> Computable(sent[n]))
  BY DEF Request, Seen, Gone, AsDue, Reply, Due, Oversized, Computable
<1>2. \A n, w, p, q : Comes(n, w, p, q)' <=> Comes(n, w, p, q)
  BY DEF Comes
<1>3. \A h, p : Skips(h, p)' <=> Skips(h, p)
  BY DEF Skips, ScannedOver, IsHeader
<1>4. ASSUME NEW n, Stage(n) PROVE Stage(n)'
  <2>1. PICK w : w = Request(n) /\ w = Request(n)'
    BY <1>1
  <2>2. CASE Ahead(n)
    <3>1. PICK p \in Nat : Comes(n, w, p, 0) /\ \E h \in [0..p -> 0..3] : Skips(h, p)
      BY <2>1, <2>2 DEF Ahead
    <3>2. Ahead(n)'
      BY <1>1, <1>2, <1>3, <2>1, <2>2, <3>1 DEF Ahead
    <3> QED
      BY <3>2 DEF Stage
  <2>3. CASE Matching(n)
    <3>1. PICK q \in 1..3 :
            Comes(n, w, 0, q) /\ (matched = q \/ (q = 1 /\ matched = 3))
      BY <2>1, <2>3 DEF Matching
    <3>2. Matching(n)'
      BY <1>1, <1>2, <2>1, <2>3, <3>1 DEF Matching
    <3> QED
      BY <3>2 DEF Stage
  <2>4. CASE Headed(n)
    <3>1. Headed(n)'
      BY <1>1, <1>2, <2>1, <2>4 DEF Headed
    <3> QED
      BY <3>1 DEF Stage
  <2>5. CASE Filling(n)
    <3>1. Comes(n, w, 0, 5 + Len(input))'
      BY <2>1, <2>5 DEF Filling, Comes
    <3>2. Filling(n)'
      BY <1>1, <2>1, <2>5, <3>1 DEF Filling
    <3> QED
      BY <3>2 DEF Stage
  <2>6. CASE Handled(n)
    <3>1. Handled(n)'
      BY <1>1, <2>6 DEF Handled
    <3> QED
      BY <3>1 DEF Stage
  <2>7. CASE Answered(n)
    <3>1. Answered(n)'
      BY <1>1, <2>7 DEF Answered
    <3> QED
      BY <3>1 DEF Stage
  <2> QED
    BY <1>4, <2>2, <2>3, <2>4, <2>5, <2>6, <2>7 DEF Stage
<1> QED
  BY <1>4, TendedBy

\* The board holds all of what it can still read of a request the client has
\* left, or of one that was sent to its end.
LEMMA AllHeld ==
  ASSUME TypesOK, RestOwned, NEW n \in 1..Len(sent), rest = <<>> \/ n # Len(sent),
         NEW p \in Nat, NEW q \in 0..Len(Request(n)), Comes(n, Request(n), p, q),
         p = 0 \/ q < Len(Request(n))
  PROVE  p + Len(Request(n)) - q <= Len(fifo)
<1>1. PICK w : w = Request(n)
  OBVIOUS
<1>2. PICK l : l = Len(w)
  OBVIOUS
<1>3. l \in Nat /\ \A i \in 1..l : w[i].of = n
  BY <1>1, <1>2, RequestIs
<1>4. /\ Len(fifo) \in Nat /\ Len(rest) \in Nat /\ Len(Line) = Len(fifo) + Len(rest)
      /\ \A i \in 1..Len(rest) : Line[Len(fifo) + i] = rest[i]
  BY LinePoints DEF TypesOK
<1>5. p + l - q <= Len(Line) /\ \A i \in q + 1..l : Line[p + i - q] = w[i]
  BY <1>1, <1>2 DEF Comes
<1>6. q \in 0..l /\ (p = 0 \/ q < l)
  BY <1>1, <1>2
<1>7. ASSUME p + l - q > Len(fifo) PROVE FALSE
  <2> DEFINE k == p + l - q - Len(fifo)
  <2>1. q < l
    BY <1>3, <1>4, <1>6, <1>7
  <2>2. /\ l \in q + 1..l /\ l \in 1..l /\ k \in 1..Len(rest)
        /\ Len(fifo) + k = p + l - q
    BY <1>3, <1>4, <1>5, <1>6, <1>7, <2>1
  <2> HIDE DEF k
  <2>3. Line[p + l - q] = w[l] /\ w[l].of = n
    BY <1>3, <1>5, <2>2
  <2>4. rest[k].of = n
    BY <1>4, <2>2, <2>3
  <2>5. rest[k].of = Len(sent)
    BY <2>2 DEF RestOwned
  <2>6. rest # <<>>
    BY <1>4, <2>2
  <2> QED
    BY <2>4, <2>5, <2>6
<1>8. p + l - q \in Int
  BY <1>3, <1>6
<1>9. p + l - q <= Len(fifo)
  BY <1>4, <1>7, <1>8
<1> QED
  BY <1>1, <1>2, <1>9

LEMMA RequestTends ==
  ASSUME Earned, TypesOK', Tended, NEW request \in Requests, BeginRequest(request)
  PROVE  Tended'
<1> SUFFICES ASSUME NEW new, new = Len(sent'), NEW l, l = Len(fifo)
             PROVE  Tended'
  OBVIOUS
<1>1. /\ new = Len(sent) + 1 /\ Len(sent) \in Nat
      /\ \A k \in 1..Len(sent) : sent'[k] = sent[k] /\ k \in 1..new
      /\ l \in Nat /\ Len(Line') \in Nat /\ l <= Len(Line')
      /\ \A i \in 1..Len(Line') : i > l => Line'[i].of = new
  <2>1. /\ Len(Line') = l + 5 + Len(sent'[new].body) /\ Len(sent'[new].body) \in Nat
        /\ l \in Nat
    BY RequestBegun
  <2>2. l <= Len(Line')
    <3>1. \A a, b \in Nat : a <= a + 5 + b
      OBVIOUS
    <3> QED
      BY <2>1, <3>1
  <2> QED
    BY <2>2, RequestBegun
<1>2. /\ UNCHANGED <<pc, matched, header, input, reply, out, fifo, late>>
      /\ sent' = Append(sent, request) /\ rest' = RequestTokens(new, request.body)
      /\ clean' \subseteq clean \union {new}
      /\ \A n \in clean' : n # new => n \in clean /\ (rest = <<>> \/ n # Len(sent))
      /\ new \in clean' => new \in clean \/ (pc = "scan" /\ Harmless)
  BY <1>1 DEF BeginRequest, RequestTokens, boardVars
<1>3. /\ TypesOK /\ LineOrdered /\ Numbered /\ Current /\ fifo \in Seq(Tokens)
      /\ rest \in Seq(Tokens) /\ rest' \in Seq(Tokens) /\ fifo' = fifo
      /\ clean \subseteq 1..Len(sent) /\ RestOwned
  BY <1>2 DEF Earned, TypesOK, Tended
<1>4. /\ Len(Line) \in Nat /\ l <= Len(Line)
      /\ \A i \in 1..l : Line'[i] = Line[i] /\ Line[i] = fifo[i]
      /\ \A i \in 1..l : i \in 1..Len(Line) /\ i \in 1..Len(Line')
      /\ \A i \in 1..Len(rest') : l + i \in 1..Len(Line') /\ Line'[l + i] = rest'[i]
      /\ Len(Line') = l + Len(rest')
  <2>1. /\ Len(rest) \in Nat /\ Len(Line) = l + Len(rest)
        /\ \A i \in 1..l : i \in 1..Len(Line) /\ Line[i] = fifo[i]
    BY <1>3, LinePoints
  <2>2. /\ \A i \in 1..l : i \in 1..Len(Line') /\ Line'[i] = fifo[i]
        /\ \A i \in 1..Len(rest') : l + i \in 1..Len(Line') /\ Line'[l + i] = rest'[i]
        /\ Len(Line') = l + Len(rest')
    BY <1>3, LinePointsNext
  <2> QED
    BY <1>1, <2>1, <2>2
<1>5. new \in 1..Len(sent') /\ sent'[new] = request /\ new \notin 1..Len(sent)
  BY <1>1, <1>2, <1>3 DEF TypesOK
<1>6. new \notin clean
  BY <1>3, <1>5
<1>7. /\ Len(Request(new)') \in Nat /\ Len(Request(new)') >= 5
      /\ rest' = Request(new)' /\ \A i \in 1..Len(rest') : rest'[i].of = new
  <2>1. rest' = Request(new)'
    BY <1>2, <1>5 DEF Request
  <2>2. /\ Len(rest') \in Nat /\ Len(rest') >= 5
        /\ \A i \in 1..Len(rest') : rest'[i].of = new
    <3>1. new \in Nat /\ request.body \in Seq(Letters)
      BY <1>1, SnnUartAssumption
    <3>2. LET w == RequestTokens(new, request.body)
          IN  /\ w \in Seq(Tokens) /\ Len(w) = 5 + Len(request.body)
              /\ Len(request.body) \in Nat
              /\ \A i \in 1..Len(w) : w[i].of = new /\ (IsHeader(w[i]) <=> i = 5)
              /\ \A i \in 1..4 : w[i] = Token(Magic[i], new)
              /\ w[5] = Token("header", new)
              /\ \A i \in 1..Len(request.body) : w[5 + i] = Token(request.body[i], new)
      BY <3>1, NewRequest, ZenonT(60)
    <3> QED
      BY <1>2, <3>2
  <2> QED
    BY <2>1, <2>2
<1>8. RestOwned' /\ clean' \subseteq 1..Len(sent')
  <2>1. \A k \in 1..Len(sent) : k \in 1..Len(sent')
    BY <1>1
  <2> QED
    BY <1>2, <1>3, <1>5, <1>7, <2>1 DEF RestOwned
<1>9. \A k : Seen(k)' <=> Seen(k)
  BY <1>2, FramesKept
<1>10. ASSUME NEW n \in clean, n \in 1..Len(sent), rest = <<>> \/ n # Len(sent),
              sent[n].kind # "bad header", Stage(n)
       PROVE  Stage(n)'
  <2>1. PICK w : w = Request(n)
    OBVIOUS
  <2>2. sent'[n] = sent[n] /\ n # new
    BY <1>1, <1>5, <1>10
  <2>3. Request(n)' = w
    BY <2>1, <2>2 DEF Request
  <2>4. Len(w) \in Nat /\ Len(w) >= 5 /\ Len(w) = 5 + Len(sent[n].body)
        /\ Len(sent[n].body) \in Nat
    <3>1. Len(sent[n].body) \in Nat /\ Len(w) = 5 + Len(sent[n].body)
      BY <1>3, <1>10, <2>1, RequestIs
    <3> QED
      BY <3>1
  <2>5. ASSUME NEW p \in Nat, NEW q \in 0..Len(w), Comes(n, w, p, q), p = 0 \/ q < Len(w)
        PROVE  p + Len(w) - q <= l /\ Comes(n, w, p, q)'
    <3>1. p + Len(w) - q <= l
      BY <1>3, <1>10, <2>1, <2>5, AllHeld
    <3>2. \A i \in 1..Len(Line') : i > l => Line'[i].of # n
      BY <1>1, <2>2
    <3>3. \A i \in 1..l : Line'[i] = Line[i]
      BY <1>4
    <3>4. l \in Nat /\ l <= Len(Line) /\ l <= Len(Line') /\ Len(Line) \in Nat /\ Len(Line') \in Nat
      BY <1>1, <1>4
    <3> QED
      BY <2>4, <2>5, <3>1, <3>2, <3>3, <3>4, ComesBefore
  <2>6. Gone(n) => Gone(n)'
    <3> SUFFICES ASSUME Gone(n), NEW i \in 1..Len(Line') PROVE Line'[i].of # n
      BY DEF Gone
    <3>1. CASE i > l
      BY <1>1, <2>2, <3>1
    <3>2. CASE ~(i > l)
      <4>1. i \in 1..l
        BY <1>1, <3>2
      <4> QED
        BY <1>4, <4>1 DEF Gone
    <3> QED
      BY <3>1, <3>2
  <2>7. CASE Ahead(n)
    <3>1. PICK p \in Nat : Comes(n, w, p, 0) /\ \E h \in [0..p -> 0..3] : Skips(h, p)
      BY <2>1, <2>7 DEF Ahead
    <3>2. PICK h \in [0..p -> 0..3] : Skips(h, p)
      BY <3>1
    <3>3. p + Len(w) - 0 <= l /\ Comes(n, w, p, 0)'
      <4>1. 0 \in 0..Len(w) /\ 0 < Len(w)
        BY <2>4
      <4> QED
        BY <2>5, <3>1, <4>1
    <3>4. \A i \in 1..p : Line'[i] = Line[i]
      <4>1. l \in Nat /\ Len(w) \in Nat /\ p + Len(w) - 0 <= l
        BY <1>1, <2>4, <3>3
      <4>2. \A k \in Nat : p + k - 0 <= l => \A i \in 1..p : i \in 1..l
        BY <4>1
      <4>3. \A i \in 1..p : i \in 1..l
        BY <4>1, <4>2
      <4> QED
        BY <1>4, <4>3
    <3>5. Skips(h, p)'
      <4>1. matched' = matched
        BY <1>2
      <4> QED
        BY <3>2, <3>4, <4>1 DEF Skips, ScannedOver, IsHeader
    <3>6. Ahead(n)'
      BY <1>2, <1>9, <2>3, <2>7, <3>3, <3>5 DEF Ahead
    <3> QED
      BY <3>6 DEF Stage
  <2>8. CASE Matching(n)
    <3>1. PICK q \in 1..3 :
            Comes(n, w, 0, q) /\ (matched = q \/ (q = 1 /\ matched = 3))
      BY <2>1, <2>8 DEF Matching
    <3>2. q \in 0..Len(w) /\ 0 \in Nat
      BY <2>4
    <3>3. Comes(n, w, 0, q)'
      BY <2>5, <3>1, <3>2
    <3>4. Matching(n)'
      BY <1>2, <1>9, <2>3, <2>8, <3>1, <3>3 DEF Matching
    <3> QED
      BY <3>4 DEF Stage
  <2>9. CASE Headed(n)
    <3>1. Comes(n, w, 0, 4) /\ 4 \in 0..Len(w) /\ 0 \in Nat
      BY <2>1, <2>4, <2>9 DEF Headed
    <3>2. Comes(n, w, 0, 4)'
      BY <2>5, <3>1
    <3>3. Headed(n)'
      BY <1>2, <1>9, <2>3, <2>9, <3>2 DEF Headed
    <3> QED
      BY <3>3 DEF Stage
  <2>10. CASE Filling(n)
    <3>1. PICK q : q = 5 + Len(input)
      OBVIOUS
    <3>2. Comes(n, w, 0, q) /\ q \in 0..Len(w) /\ 0 \in Nat
      <4>1. Len(input) \in Nat /\ Len(input) <= Len(sent[n].body)
        BY <1>3, <2>10 DEF Filling, TypesOK
      <4>2. q \in 0..Len(w)
        BY <2>4, <3>1, <4>1
      <4> QED
        BY <2>1, <2>10, <3>1, <4>2 DEF Filling
    <3>3. Comes(n, w, 0, q)'
      BY <2>5, <3>2
    <3>4. Comes(n, w, 0, 5 + Len(input))'
      BY <1>2, <3>1, <3>3 DEF Comes
    <3>5. Filling(n)'
      BY <1>2, <1>9, <2>1, <2>2, <2>3, <2>10, <3>4 DEF Filling, Oversized
    <3> QED
      BY <3>5 DEF Stage
  <2>11. CASE Handled(n)
    <3>1. Handled(n)'
      BY <1>2, <2>2, <2>6, <2>11 DEF Handled, Oversized, Computable
    <3> QED
      BY <3>1 DEF Stage
  <2>12. CASE Answered(n)
    <3>1. Oversized(sent[n]) \/ (Gone(n)' /\ header'.seq # n)
      BY <1>2, <2>6, <2>12 DEF Answered
    <3>2. Len(out) \in Nat
      BY <1>3 DEF TypesOK
    <3>3. Answered(n)'
      BY <1>2, <2>2, <2>12, <3>1, <3>2, AnsweredKept
    <3> QED
      BY <3>3 DEF Stage
  <2> QED
    BY <1>10, <2>7, <2>8, <2>9, <2>10, <2>11, <2>12 DEF Stage
<1>11. ASSUME pc = "scan", Harmless PROVE Stage(new)'
  <2>1. PICK w : w = Request(new)'
    OBVIOUS
  <2>2. PICK h \in [0..l -> 0..3] :
          /\ h[0] = matched /\ h[l] < 3
          /\ \A i \in 1..l : h[i] = ScannedOver(h[i - 1], fifo[i])
    BY <1>3, <1>11, HarmlessSkips
  <2>3. Skips(h, l)'
    BY <1>2, <1>4, <2>2 DEF Skips, ScannedOver, IsHeader, Border
  <2>4. ~Seen(new)'
    <3>1. new \notin 0..Len(sent)
      BY <1>1
    <3>2. ~Seen(new)
      BY <1>3, <3>1 DEF Seen, Numbered
    <3> QED
      BY <1>9, <3>2
  <2>5. Comes(new, w, l, 0)'
    <3>1. l + Len(w) - 0 <= Len(Line') /\ Len(w) \in Nat /\ Len(w) = Len(rest')
      BY <1>1, <1>4, <1>7, <2>1
    <3>2. ASSUME NEW i \in 0 + 1..Len(w) PROVE Line'[l + i - 0] = w[i]
      <4>1. i \in 1..Len(rest') /\ l + i - 0 = l + i
        BY <1>1, <3>1
      <4> QED
        BY <1>4, <1>7, <2>1, <4>1
    <3>3. ASSUME NEW i \in 1..Len(Line'), i <= l \/ i > l + Len(w) - 0
          PROVE  Line'[i].of # new
      <4>1. i \in 1..l
        BY <1>1, <1>4, <3>1, <3>3
      <4>2. Line[i].of \in 1..Len(sent) /\ Line'[i] = Line[i]
        BY <1>3, <1>4, <4>1 DEF LineOrdered
      <4> QED
        BY <1>5, <4>2
    <3> QED
      BY <3>1, <3>2, <3>3 DEF Comes
  <2>6. PICK k : k = new
    OBVIOUS
  <2>7. Ahead(new)'
    BY <1>1, <1>2, <1>11, <2>1, <2>2, <2>3, <2>4, <2>5 DEF Ahead
  <2> QED
    BY <2>7 DEF Stage
<1>12. ASSUME NEW n \in clean', sent'[n].kind # "bad header" PROVE Stage(n)'
  <2>1. CASE n = new
    <3>1. pc = "scan" /\ Harmless
      BY <1>2, <1>6, <1>12, <2>1
    <3>2. Stage(new)'
      BY <1>11, <3>1
    <3> QED
      BY <2>1, <3>2
  <2>2. CASE n # new
    <3>1. n \in clean /\ (rest = <<>> \/ n # Len(sent)) /\ n \in 1..Len(sent)
      BY <1>2, <1>3, <1>12, <2>2
    <3>2. sent'[n] = sent[n]
      BY <1>1, <3>1
    <3>3. Stage(n) /\ sent[n].kind # "bad header"
      BY <1>12, <3>1, <3>2 DEF Tended
    <3> QED
      BY <1>10, <3>1, <3>3
  <2> QED
    BY <2>1, <2>2
<1> QED
  BY <1>8, <1>12 DEF Tended

LEMMA TendedInit ==
  Init => Tended
BY DEF Init, Tended, RestOwned

LEMMA TendedNext ==
  Earned /\ Tended /\ [Next]_vars => Tended'
<1> SUFFICES ASSUME Earned, Tended, [Next]_vars PROVE Tended'
  OBVIOUS
<1>1. TypesOK'
  BY TypesKept DEF Earned
<1>2. fifo \in Seq(Tokens) /\ rest \in Seq(Tokens)
  BY DEF Earned, TypesOK
<1>3. CASE ScanByte \/ ReadHeader \/ ReadByte \/ CheckPayload
  BY <1>1, <1>3, ScanTends, HeaderTends, ByteTends, CheckTends
<1>4. CASE SendAck \/ Infer \/ ReplyError \/ SendResult
  BY <1>1, <1>4, AckTends, InferTends, AnswerTends
<1>5. CASE ReadTimesOut \/ WriteTimesOut
  <2>1. clean' = {} /\ UNCHANGED <<sent, rest>>
    BY <1>5 DEF ReadTimesOut, WriteTimesOut, Untouched, clientVars
  <2> QED
    BY <2>1 DEF Tended, RestOwned
<1>6. CASE DeadlinePasses \/ Halted \/ UNCHANGED vars
  <2>1. /\ UNCHANGED <<pc, matched, header, input, reply, out, sent, clean>>
        /\ UNCHANGED <<fifo, rest>>
    BY <1>6 DEF DeadlinePasses, Untouched, Halted, vars, boardVars, clientVars
  <2>2. Line' = Line /\ RestOwned'
    BY <2>1 DEF Line, Tended, RestOwned
  <2> QED
    BY <2>1, <2>2, IdleTends
<1>7. CASE SendToken
  <2>1. /\ rest # <<>> /\ rest' = Tail(rest)
        /\ UNCHANGED <<pc, matched, header, input, reply, out, sent>>
        /\ \/ fifo' = Append(fifo, Head(rest)) /\ clean' = clean
           \/ clean' = {}
    BY <1>7 DEF SendToken, boardVars
  <2>2. RestOwned'
    <3>1. /\ Len(rest') \in Nat /\ Len(rest') = Len(rest) - 1
          /\ \A i \in 1..Len(rest') : i + 1 \in 1..Len(rest) /\ rest'[i] = rest[i + 1]
      BY <1>2, <2>1
    <3> QED
      BY <2>1, <3>1 DEF Tended, RestOwned
  <2>3. CASE fifo' = Append(fifo, Head(rest)) /\ clean' = clean
    <3>1. Line' = Line
      BY <1>2, <2>1, <2>3, TokenMoves
    <3> QED
      BY <2>1, <2>2, <2>3, <3>1, IdleTends
  <2>4. CASE clean' = {}
    BY <2>2, <2>4 DEF Tended
  <2> QED
    BY <2>1, <2>3, <2>4
<1>8. ASSUME NEW request \in Requests, BeginRequest(request)
      PROVE  Tended'
  BY <1>1, <1>8, RequestTends
<1> QED
  BY <1>3, <1>4, <1>5, <1>6, <1>7, <1>8 DEF Next, Transaction

\* While the board scans, a request that is due more is on its way.
LEMMA TendedAnswers ==
  Earned /\ Tended => CleanRequestIsAnswered
<1>1. ASSUME Earned, Tended, NEW n \in clean, pc = "scan", sent[n].kind # "bad header"
      PROVE  (rest # <<>> /\ n = Len(sent)) \/ Unread(n) \/ AsDue(n)
  <2>1. TypesOK /\ RestOwned /\ n \in 1..Len(sent) /\ Stage(n)
    BY <1>1 DEF Earned, Tended
  <2>2. PICK w : w = Request(n)
    OBVIOUS
  <2>3. Len(w) \in Nat /\ Len(w) >= 5 /\ \A i \in 1..Len(w) : w[i].of = n
    <3>1. /\ Len(sent[n].body) \in Nat /\ Len(w) = 5 + Len(sent[n].body)
          /\ \A i \in 1..Len(w) : w[i].of = n
      BY <2>1, <2>2, RequestIs
    <3> QED
      BY <3>1
  <2>4. ASSUME NEW p \in Nat, NEW q \in 0..3, Comes(n, w, p, q)
        PROVE  (rest # <<>> /\ n = Len(sent)) \/ Unread(n)
    <3>1. /\ Len(fifo) \in Nat /\ Len(rest) \in Nat /\ Len(Line) = Len(fifo) + Len(rest)
          /\ \A i \in 1..Len(fifo) : Line[i] = fifo[i]
          /\ \A i \in 1..Len(rest) : Line[Len(fifo) + i] = rest[i]
      BY <2>1, LinePoints DEF TypesOK
    <3>2. p + Len(w) - q <= Len(Line) /\ \A i \in q + 1..Len(w) : Line[p + i - q] = w[i]
      BY <2>4 DEF Comes
    <3>3. Line[p + 1].of = n /\ p + 1 <= Len(Line)
      <4>1. /\ q + 1 \in q + 1..Len(w) /\ q + 1 \in 1..Len(w) /\ p + (q + 1) - q = p + 1
            /\ p + 1 <= p + Len(w) - q /\ p + Len(w) - q \in Int /\ Len(Line) \in Int
        BY <2>3, <3>1
      <4>2. p + 1 <= Len(Line)
        BY <3>2, <4>1
      <4> QED
        BY <2>3, <3>2, <4>1, <4>2
    <3>4. CASE p + 1 <= Len(fifo)
      <4>1. p + 1 \in 1..Len(fifo)
        BY <3>1, <3>4
      <4> QED
        BY <3>1, <3>3, <4>1 DEF Unread
    <3>5. CASE ~(p + 1 <= Len(fifo))
      <4>1. p + 1 - Len(fifo) \in 1..Len(rest) /\ Len(fifo) + (p + 1 - Len(fifo)) = p + 1
        BY <3>1, <3>3, <3>5
      <4>2. rest[p + 1 - Len(fifo)].of = n
        BY <3>1, <3>3, <4>1
      <4>3. rest # <<>>
        BY <3>1, <4>1
      <4> QED
        BY <2>1, <4>1, <4>2, <4>3 DEF RestOwned
    <3> QED
      BY <3>4, <3>5
  <2>5. CASE Ahead(n)
    <3>1. PICK p \in Nat : Comes(n, w, p, 0)
      BY <2>2, <2>5 DEF Ahead
    <3>2. 0 \in 0..3
      OBVIOUS
    <3> QED
      BY <2>4, <3>1, <3>2
  <2>6. CASE Matching(n)
    <3>1. PICK q \in 1..3 : Comes(n, w, 0, q)
      BY <2>2, <2>6 DEF Matching
    <3>2. q \in 0..3 /\ 0 \in Nat
      OBVIOUS
    <3> QED
      BY <2>4, <3>1, <3>2
  <2> QED
    BY <1>1, <2>1, <2>5, <2>6 DEF Stage, Headed, Filling, Handled, Answered
<1> QED
  BY <1>1 DEF CleanRequestIsAnswered

\* A request that begins while the board scans, behind bytes that cannot be
\* mistaken for a magic, is found and gets exactly the replies that are due,
\* for every payload length, FIFO and mix of requests, whatever went wrong
\* before it.
THEOREM CleanRequestsAreAnswered == Spec => []CleanRequestIsAnswered
<1>1. Init => Earned /\ Tended
  BY EarnedInit, TendedInit
<1>2. (Earned /\ Tended) /\ [Next]_vars => (Earned /\ Tended)'
  BY EarnedNext, TendedNext
<1> QED
  BY <1>1, <1>2, TendedAnswers, PTL DEF Spec
=============================================================================
