------------------------ MODULE GatewayChannelProofs ------------------------
(***************************************************************************)
(* What the connection of a gateway makes of the bytes TCP delivers, for   *)
(* all ids, messages and ways to cut them: proofs of ChannelTypeOK,        *)
(* Transparent and LinesRegister.                                          *)
(*                                                                         *)
(* The first part is about sequences, the second about the registration    *)
(* line: AcceptedFacts says what regByToken takes for the id of a line it  *)
(* accepts, LineFacts that it accepts the line of a gateway and takes its  *)
(* id for it, with its trim, its replaceAll and its indexOf.               *)
(*                                                                         *)
(* The invariant is in three parts.  ChannelInv has the types.  FlowInv    *)
(* relates what was published to what was read: all of it (All), or all    *)
(* but the chunk that registered the gateway (But); Transparent does not   *)
(* tell which of the two holds when, and so is not kept by a step on its   *)
(* own.  LineInv says that no chunk with the marker has been read as long  *)
(* as the handler of the registration is there, and one has since, so that *)
(* a line is the first such chunk or comes too late.                       *)
(***************************************************************************)
EXTENDS GatewayChannel, SequenceTheorems, WellFoundedInduction, TLAPS

-----------------------------------------------------------------------------
(* Sequences.                                                              *)

\* What does not hold of all positions fails at a first one.
LEMMA Least ==
  ASSUME NEW I \in SUBSET Nat, I # {}
  PROVE  Min(I) \in I /\ \A j \in I : Min(I) <= j
<1> DEFINE R == {p \in Nat \X Nat : p[1] < p[2]}
<1>1. IsWellFoundedOn(R, Nat)
  BY NatLessThanWellFounded DEF OpToRel
<1>2. PICK m \in I : \A j \in I : <<j, m>> \notin R
  <2>. HIDE DEF R
  <2>. QED  BY <1>1, WFMin
<1>3. ASSUME NEW j \in I PROVE m <= j
  <2>1. j \in Nat /\ m \in Nat
    OBVIOUS
  <2>2. ~(j < m)
    BY <1>2, <2>1
  <2>. QED  BY <2>1, <2>2
<1>. QED  BY <1>3 DEF Min

LEMMA Greatest ==
  ASSUME NEW n \in Nat, NEW I \in SUBSET (1..n), I # {}
  PROVE  Max(I) \in I /\ \A j \in I : j <= Max(I)
<1> DEFINE J == {n - j : j \in I}
<1>1. J \in SUBSET Nat /\ J # {}
  <2>1. \A j \in I : n - j \in Nat
    OBVIOUS
  <2>. QED  BY <2>1
<1>2. Min(J) \in J /\ \A j \in J : Min(J) <= j
  <2>. HIDE DEF J
  <2>. QED  BY <1>1, Least
<1>3. PICK m \in I : Min(J) = n - m
  BY <1>2
<1>4. ASSUME NEW j \in I PROVE j <= m
  <2>1. n - m <= n - j
    BY <1>2, <1>3
  <2>2. j \in 1..n /\ m \in 1..n
    OBVIOUS
  <2>. QED  BY <2>1, <2>2
<1>. QED  BY <1>4 DEF Max

\* The first i of the sequences of s, one after the other.
Joined(f, s) ==
  \A i \in 1..Len(s) : f[i] = IF i = 1 THEN s[i] ELSE f[i - 1] \o s[i]

LEMMA JoinedExists ==
  ASSUME NEW S, NEW s \in Seq(Seq(S))
  PROVE  \E f \in [1..Len(s) -> Seq(S)] : Joined(f, s)
<1> DEFINE Upto(n) == \E f \in [1..n -> Seq(S)] :
                        \A i \in 1..n : f[i] = IF i = 1 THEN s[i] ELSE f[i - 1] \o s[i]
           I == {n \in 0..Len(s) : ~Upto(n)}
<1>1. CASE I = {}
  <2>1. Len(s) \in 0..Len(s)
    OBVIOUS
  <2>2. Upto(Len(s))
    BY <1>1, <2>1
  <2>. QED  BY <2>2 DEF Joined
<1>2. CASE I # {}
  <2>1. I \in SUBSET Nat
    OBVIOUS
  <2>2. Min(I) \in I /\ \A j \in I : Min(I) <= j
    <3>. HIDE DEF I
    <3>. QED  BY <1>2, <2>1, Least
  <2>. DEFINE m == Min(I)
  <2>3. m \in 0..Len(s) /\ ~Upto(m) /\ \A j \in 0..Len(s) : j < m => Upto(j)
    <3>1. m \in 0..Len(s) /\ ~Upto(m)
      BY <2>2
    <3>2. ASSUME NEW j \in 0..Len(s), j < m PROVE Upto(j)
      <4>1. ~(m <= j)
        <5>. HIDE DEF m
        <5>. QED  BY <3>1, <3>2
      <4>2. j \notin I
        BY <2>2, <4>1
      <4>. QED  BY <4>2
    <3>. QED  BY <3>1, <3>2
  <2>. HIDE DEF m, I
  <2>4. m # 0
    <3>1. ASSUME m = 0 PROVE FALSE
      <4>1. Upto(0)
        <5>1. 1..0 = {}
          OBVIOUS
        <5>2. [i \in 1..0 |-> <<>>] \in [1..0 -> Seq(S)]
          BY <5>1
        <5>. QED  BY <5>1, <5>2, Zenon
      <4>. QED  BY <2>3, <3>1, <4>1
    <3>. QED  BY <3>1
  <2>5. m \in Nat /\ m - 1 \in 0..Len(s) /\ m - 1 < m /\ m \in 1..Len(s)
    BY <2>3, <2>4
  <2>6. Upto(m - 1)
    <3>. HIDE DEF Upto
    <3>. QED  BY <2>3, <2>5
  <2>7. PICK f \in [1..m - 1 -> Seq(S)] :
          \A i \in 1..m - 1 : f[i] = IF i = 1 THEN s[i] ELSE f[i - 1] \o s[i]
    BY <2>6
  <2>. DEFINE g == [i \in 1..m |-> IF i < m THEN f[i]
                                   ELSE IF i = 1 THEN s[i] ELSE f[i - 1] \o s[i]]
  <2>8. g \in [1..m -> Seq(S)]
    <3>1. ASSUME NEW i \in 1..m PROVE g[i] \in Seq(S)
      <4>1. s[i] \in Seq(S)
        BY <2>5
      <4>2. i < m => f[i] \in Seq(S)
        BY <2>5, <2>7
      <4>3. i = m /\ i # 1 => f[i - 1] \in Seq(S)
        BY <2>5, <2>7
      <4>4. i = m /\ i # 1 => f[i - 1] \o s[i] \in Seq(S)
        BY <4>1, <4>3, ConcatProperties
      <4>5. i = m \/ i < m
        BY <2>5
      <4>. QED  BY <4>1, <4>2, <4>4, <4>5
    <3>. QED  BY <3>1
  <2>9. ASSUME NEW i \in 1..m PROVE g[i] = IF i = 1 THEN s[i] ELSE g[i - 1] \o s[i]
    <3>1. i # 1 => i - 1 \in 1..m /\ i - 1 < m /\ g[i - 1] = f[i - 1]
      BY <2>5
    <3>2. CASE i < m
      <4>1. i \in 1..m - 1 /\ g[i] = f[i]
        BY <2>5, <3>2
      <4>. HIDE DEF g
      <4>. QED  BY <2>7, <3>1, <4>1
    <3>3. CASE ~(i < m)
      <4>1. g[i] = IF i = 1 THEN s[i] ELSE f[i - 1] \o s[i]
        BY <3>3
      <4>. HIDE DEF g
      <4>. QED  BY <3>1, <4>1
    <3>. QED  BY <3>2, <3>3
  <2>10. Upto(m)
    <3>. HIDE DEF g
    <3>. QED  BY <2>8, <2>9
  <2>. HIDE DEF Upto
  <2>. QED  BY <2>3, <2>10
<1>. QED  BY <1>1, <1>2

LEMMA FlattenIsJoined ==
  ASSUME NEW S, NEW s \in Seq(Seq(S))
  PROVE  /\ s = <<>> => FlattenSeq(s) = <<>>
         /\ s # <<>> => \E f : Joined(f, s) /\ FlattenSeq(s) = f[Len(s)]
<1> DEFINE g == CHOOSE f : f = [i \in 1..Len(s) |-> IF i = 1 THEN s[i] ELSE f[i - 1] \o s[i]]
<1>1. CASE s = <<>>
  BY <1>1 DEF FlattenSeq
<1>2. CASE s # <<>>
  <2>1. Len(s) # 0
    BY <1>2
  <2>2. FlattenSeq(s) = g[Len(s)]
    BY <2>1 DEF FlattenSeq
  <2>3. g = [i \in 1..Len(s) |-> IF i = 1 THEN s[i] ELSE g[i - 1] \o s[i]]
    <3>1. PICK f \in [1..Len(s) -> Seq(S)] : Joined(f, s)
      BY JoinedExists
    <3>2. f = [i \in 1..Len(s) |-> IF i = 1 THEN s[i] ELSE f[i - 1] \o s[i]]
      BY <3>1 DEF Joined
    <3>. QED  BY <3>2
  <2>. HIDE DEF g
  <2>4. Joined(g, s)
    BY <2>3 DEF Joined
  <2>. QED  BY <1>2, <2>2, <2>4
<1>. QED  BY <1>1, <1>2

\* Sequences put one after the other are a sequence.
LEMMA FlattenType ==
  ASSUME NEW S, NEW s \in Seq(Seq(S))
  PROVE  FlattenSeq(s) \in Seq(S)
<1>1. CASE s = <<>>
  BY <1>1, FlattenIsJoined, EmptySeq
<1>2. CASE s # <<>>
  <2>1. PICK f : Joined(f, s) /\ FlattenSeq(s) = f[Len(s)]
    BY <1>2, FlattenIsJoined
  <2>. DEFINE I == {i \in 1..Len(s) : f[i] \notin Seq(S)}
  <2>2. ASSUME I # {} PROVE FALSE
    <3>1. I \in SUBSET Nat
      OBVIOUS
    <3>. DEFINE m == Min(I)
    <3>2. m \in I /\ \A j \in I : m <= j
      <4>. HIDE DEF I
      <4>. QED  BY <2>2, <3>1, Least
    <3>. HIDE DEF m
    <3>3. m \in 1..Len(s) /\ f[m] \notin Seq(S) /\ s[m] \in Seq(S)
      BY <3>2
    <3>4. f[m] = IF m = 1 THEN s[m] ELSE f[m - 1] \o s[m]
      BY <2>1, <3>3 DEF Joined
    <3>5. m # 1
      BY <3>3, <3>4
    <3>6. m - 1 \in 1..Len(s) /\ ~(m <= m - 1)
      BY <3>3, <3>5
    <3>7. f[m - 1] \in Seq(S)
      BY <3>2, <3>6
    <3>8. f[m - 1] \o s[m] \in Seq(S)
      BY <3>3, <3>7, ConcatProperties
    <3>. QED  BY <3>3, <3>4, <3>5, <3>8
  <2>3. Len(s) \in 1..Len(s)
    BY <1>2
  <2>. QED  BY <2>1, <2>2, <2>3
<1>. QED  BY <1>1, <1>2

\* Sequences of one element each: nothing is added and nothing is missing.
LEMMA FlattenSingles ==
  ASSUME NEW S, NEW s \in Seq(S)
  PROVE  FlattenSeq([i \in 1..Len(s) |-> <<s[i]>>]) = s
<1> DEFINE t == [i \in 1..Len(s) |-> <<s[i]>>]
<1>1. t \in Seq(Seq(S)) /\ Len(t) = Len(s) /\ \A i \in 1..Len(s) : t[i] = <<s[i]>>
  <2>1. \A i \in 1..Len(s) : <<s[i]>> \in Seq(S)
    OBVIOUS
  <2>2. t \in [1..Len(s) -> Seq(S)] /\ Len(s) \in Nat
    BY <2>1
  <2>. QED  BY <2>2
<1>. HIDE DEF t
<1>2. CASE s = <<>>
  <2>1. t = <<>>
    BY <1>1, <1>2
  <2>. QED  BY <1>1, <1>2, <2>1, FlattenIsJoined DEF t
<1>3. CASE s # <<>>
  <2>1. t # <<>> /\ Len(s) \in 1..Len(s)
    BY <1>1, <1>3
  <2>2. PICK f : Joined(f, t) /\ FlattenSeq(t) = f[Len(t)]
    BY <1>1, <2>1, FlattenIsJoined
  <2>. DEFINE I == {i \in 1..Len(s) : f[i] # SubSeq(s, 1, i)}
  <2>3. ASSUME I # {} PROVE FALSE
    <3>1. I \in SUBSET Nat
      OBVIOUS
    <3>. DEFINE m == Min(I)
    <3>2. m \in I /\ \A j \in I : m <= j
      <4>. HIDE DEF I
      <4>. QED  BY <2>3, <3>1, Least
    <3>. HIDE DEF m
    <3>3. m \in 1..Len(s) /\ f[m] # SubSeq(s, 1, m) /\ Len(s) \in Nat
      BY <3>2
    <3>4. f[m] = IF m = 1 THEN <<s[m]>> ELSE f[m - 1] \o <<s[m]>>
      BY <1>1, <2>2, <3>3 DEF Joined
    <3>5. SubSeq(s, 1, m) = SubSeq(s, 1, m - 1) \o <<s[m]>>
      <4>1. 1 \in 1..Len(s) /\ m \in 1..Len(s)
        BY <3>3
      <4>. QED  BY <4>1, SubSeqRecursiveSecond
    <3>6. m # 1
      <4>. SUFFICES ASSUME m = 1 PROVE FALSE
        OBVIOUS
      <4>1. <<>> \o <<s[m]>> = <<s[m]>>
        <5>1. <<s[m]>> \in Seq(S)
          BY <3>3
        <5>. QED  BY <5>1, ConcatEmptySeq
      <4>2. SubSeq(s, 1, m - 1) = <<>>
        <5>1. m - 1 \in Int /\ m - 1 < 1 /\ 1 \in Int
          BY <3>3
        <5>. QED  BY <5>1, SubSeqEmpty
      <4>3. SubSeq(s, 1, m) = <<s[m]>>
        BY <3>5, <4>1, <4>2
      <4>. QED  BY <3>3, <3>4, <4>3
    <3>7. m - 1 \in 1..Len(s) /\ ~(m <= m - 1)
      BY <3>3, <3>6
    <3>8. f[m - 1] = SubSeq(s, 1, m - 1)
      BY <3>2, <3>7
    <3>. QED  BY <3>3, <3>4, <3>5, <3>6, <3>8
  <2>4. f[Len(s)] = SubSeq(s, 1, Len(s))
    BY <2>1, <2>3
  <2>. QED  BY <1>1, <2>2, <2>4, SubSeqFull DEF t
<1>. QED  BY <1>2, <1>3

-----------------------------------------------------------------------------
(* The registration line.                                                  *)

LEMMA TrimFacts ==
  ASSUME NEW s \in Seq(Unit),
         NEW I, I = {i \in 1..Len(s) : s[i] \notin {"blank", "eol"}}
  PROVE  /\ I = {} => Trim(s) = <<>>
         /\ I # {} => /\ Trim(s) = SubSeq(s, Min(I), Max(I))
                      /\ Min(I) \in I /\ Max(I) \in I
                      /\ \A j \in I : Min(I) <= j /\ j <= Max(I)
         /\ Trim(s) \in Seq(Unit)
<1> DEFINE first == IF I # {} THEN Min(I) ELSE 0
           last == IF I # {} THEN Max(I) ELSE 0
<1>1. Trim(s) = IF first = 0 THEN <<>> ELSE SubSeq(s, first, last)
  BY DEF Trim, SelectInSeq, SelectLastInSeq
<1>2. CASE I = {}
  BY <1>1, <1>2, EmptySeq
<1>3. CASE I # {}
  <2>1. I \in SUBSET Nat /\ I \in SUBSET (1..Len(s)) /\ Len(s) \in Nat
    OBVIOUS
  <2>2. /\ Min(I) \in I /\ Max(I) \in I
        /\ \A j \in I : Min(I) <= j /\ j <= Max(I)
    BY <1>3, <2>1, Least, Greatest
  <2>3. Min(I) \in 1..Len(s) /\ Max(I) \in 1..Len(s)
    BY <2>1, <2>2
  <2>4. Trim(s) = SubSeq(s, Min(I), Max(I))
    <3>1. first = Min(I) /\ last = Max(I)
      BY <1>3
    <3>2. first # 0
      BY <2>3, <3>1
    <3>. HIDE DEF first, last
    <3>. QED  BY <1>1, <3>1, <3>2
  <2>5. SubSeq(s, Min(I), Max(I)) \in Seq(Unit)
    <3>1. \A i \in Min(I)..Max(I) : s[i] \in Unit
      BY <2>3
    <3>. QED  BY <2>3, <3>1, SubSeqProperties
  <2>. QED  BY <1>3, <2>2, <2>4, <2>5
<1>. QED  BY <1>2, <1>3

LEMMA CleanType ==
  ASSUME NEW s \in Seq(Unit)
  PROVE  Clean(s) \in Seq(Unit)
<1> DEFINE t == [i \in 1..Len(s) |-> IF s[i] \in {"eol", "bar"} THEN <<>> ELSE <<s[i]>>]
<1>1. \A i \in 1..Len(s) : <<s[i]>> \in Seq(Unit) /\ <<>> \in Seq(Unit)
  OBVIOUS
<1>2. t \in [1..Len(s) -> Seq(Unit)] /\ Len(s) \in Nat
  BY <1>1
<1>3. t \in Seq(Seq(Unit))
  BY <1>2
<1>. HIDE DEF t
<1>. QED  BY <1>3, FlattenType DEF Clean, t

LEMMA SplitFacts ==
  ASSUME NEW s \in Seq(Unit)
  PROVE  /\ SplitAt(s) \in 0..Len(s)
         /\ SplitAt(s) # 0 => s[SplitAt(s)] = "comma"
         /\ \A j \in 1..Len(s) : s[j] = "comma" => SplitAt(s) # 0 /\ SplitAt(s) <= j
<1> DEFINE I == {i \in 1..Len(s) : s[i] = "comma"}
<1>1. SplitAt(s) = IF I # {} THEN Min(I) ELSE 0
  BY DEF SplitAt, SelectInSeq
<1>2. I \in SUBSET Nat
  OBVIOUS
<1>3. I # {} => Min(I) \in I /\ \A j \in I : Min(I) <= j
  <2>. HIDE DEF I
  <2>. QED  BY <1>2, Least
<1>4. CASE I = {}
  BY <1>1, <1>4
<1>5. CASE I # {}
  <2>1. Min(I) \in 1..Len(s) /\ s[Min(I)] = "comma" /\ SplitAt(s) = Min(I)
    BY <1>1, <1>3, <1>5
  <2>2. \A j \in 1..Len(s) : s[j] = "comma" => Min(I) <= j
    BY <1>3, <1>5
  <2>. HIDE DEF I
  <2>. QED  BY <2>1, <2>2
<1>. QED  BY <1>4, <1>5

\* What an accepted line registers is an id.
LEMMA AcceptedFacts ==
  ASSUME NEW chunk \in Chunk, RegStatus(chunk) = "OK"
  PROVE  IsPrefix(RegStart, chunk) /\ DeviceIdOf(chunk) \in Chunk
<1> DEFINE rest == SubSeq(chunk, Len(RegStart) + 1, Len(chunk))
           info == RegInfo(chunk)
<1>1. IsPrefix(RegStart, chunk) /\ ~(SplitAt(info) < 2)
  BY DEF RegStatus
<1>2. info \in Seq(Unit)
  <2>1. chunk \in Seq(Unit) /\ Len(RegStart) = 2
    BY DEF Chunk, RegStart
  <2>2. rest \in Seq(Unit)
    <3>1. \A i \in 3..Len(chunk) : chunk[i] \in Unit
      BY <2>1
    <3>2. 3 \in Int /\ Len(chunk) \in Int
      BY <2>1
    <3>3. SubSeq(chunk, 3, Len(chunk)) \in Seq(Unit)
      BY <3>1, <3>2, SubSeqProperties
    <3>. QED  BY <2>1, <3>3
  <2>. HIDE DEF rest
  <2>3. Trim(rest) \in Seq(Unit)
    BY <2>2, TrimFacts
  <2>. QED  BY <2>3, CleanType DEF RegInfo, rest
<1>. HIDE DEF info
<1>3. SplitAt(info) \in 0..Len(info) /\ Len(info) \in Nat
  BY <1>2, SplitFacts
<1>. DEFINE n == SplitAt(info) - 1
<1>4. n \in 1..Len(info) /\ DeviceIdOf(chunk) = SubSeq(info, 1, n)
  BY <1>1, <1>3 DEF DeviceIdOf, info
<1>. HIDE DEF n
<1>5. SubSeq(info, 1, n) \in Seq(Unit) /\ Len(SubSeq(info, 1, n)) = n
  <2>1. \A i \in 1..n : info[i] \in Unit
    BY <1>2, <1>4
  <2>2. n \in Int /\ 1 \in Int /\ 1 <= n /\ n - 1 + 1 = n
    BY <1>4
  <2>. QED  BY <2>1, <2>2, SubSeqProperties
<1>6. SubSeq(info, 1, n) # <<>>
  BY <1>4, <1>5
<1>. QED  BY <1>1, <1>4, <1>5, <1>6 DEF Chunk

LEMMA UnitFacts ==
  /\ \A x \in Text : x \in Unit /\ x \notin {"RE", "G:", "comma", "semicolon", "bar", "eol", "blank"}
  /\ Ids \subseteq Seq(Text) /\ <<>> \notin Ids /\ Seq(Text) \subseteq Seq(Unit)
<1>1. Text \subseteq Unit
  BY DEF Unit
<1>2. \A x \in Text : x \in Unit /\ x \notin {"RE", "G:", "comma", "semicolon", "bar", "eol", "blank"}
  <2>. SUFFICES ASSUME NEW x \in Text PROVE x \notin {"RE", "G:", "comma", "semicolon", "bar", "eol", "blank"}
    BY <1>1
  <2>1. Text \cap {"RE", "G:", "comma", "semicolon", "bar", "eol", "blank"} = {}
    BY ChannelAssumption
  <2>. QED  BY <2>1
<1>3. Ids \subseteq Seq(Text) /\ <<>> \notin Ids
  BY ChannelAssumption
<1>4. Seq(Text) \subseteq Seq(Unit)
  BY <1>1, SeqMonotonic
<1>. QED  BY <1>2, <1>3, <1>4

\* What follows the marker in a registration line, but for its end.
Body(id, token) == id \o <<"comma">> \o token \o <<"semicolon">>

LEMMA BodyFacts ==
  ASSUME NEW id \in Ids, NEW token \in {<<>>} \cup {<<x>> : x \in Text}
  PROVE  LET body == Body(id, token) IN
         /\ body \in Seq(Unit) /\ Len(id) \in Nat /\ Len(id) # 0
         /\ Len(body) \in Nat /\ Len(body) > Len(id) + 1
         /\ \A i \in 1..Len(id) : body[i] = id[i] /\ body[i] # "comma"
         /\ body[Len(id) + 1] = "comma" /\ body[Len(body)] = "semicolon"
         /\ \A i \in 1..Len(body) : body[i] \notin {"eol", "bar", "blank"}
<1>1. id \in Seq(Text) /\ token \in Seq(Text) /\ Len(id) \in Nat /\ Len(id) # 0
  <2>1. id \in Seq(Text) /\ id # <<>>
    BY UnitFacts
  <2>2. token \in Seq(Text)
    <3>1. CASE token = <<>>
      BY <3>1, EmptySeq
    <3>2. ASSUME NEW x \in Text, token = <<x>> PROVE token \in Seq(Text)
      BY <3>2
    <3>. QED  BY <3>1, <3>2
  <2>. QED  BY <2>1, <2>2
<1>2. id \in Seq(Unit) /\ token \in Seq(Unit) /\ Len(token) \in Nat
  BY <1>1, UnitFacts
<1>3. "comma" \in Unit /\ "semicolon" \in Unit
  BY DEF Unit
<1>. DEFINE a == id \o <<"comma">>
            b == a \o token
            body == b \o <<"semicolon">>
            n == Len(id)
            k == Len(token)
<1>4. /\ a \in Seq(Unit) /\ Len(a) = n + 1
      /\ \A i \in 1..n : a[i] = id[i]
      /\ a[n + 1] = "comma"
  <2>1. a = Append(id, "comma")
    BY <1>2, <1>3, AppendIsConcat
  <2>. QED  BY <1>2, <1>3, <2>1, AppendProperties
<1>. HIDE DEF a
<1>5. /\ b \in Seq(Unit) /\ Len(b) = Len(a) + k
      /\ \A i \in 1..Len(a) + k : b[i] = IF i <= Len(a) THEN a[i] ELSE token[i - Len(a)]
  <2>1. a \in Seq(Unit) /\ token \in Seq(Unit)
    BY <1>2, <1>4
  <2>. QED  BY <2>1, ConcatProperties
<1>. HIDE DEF b
<1>6. /\ body \in Seq(Unit) /\ Len(body) = Len(b) + 1
      /\ \A i \in 1..Len(b) : body[i] = b[i]
      /\ body[Len(b) + 1] = "semicolon"
  <2>1. b \in Seq(Unit) /\ "semicolon" \in Unit
    BY <1>3, <1>5
  <2>2. body = Append(b, "semicolon")
    BY <2>1, AppendIsConcat
  <2>. QED  BY <2>1, <2>2, AppendProperties
<1>. HIDE DEF body, n, k
<1>7. /\ n \in Nat /\ n # 0 /\ k \in Nat
      /\ Len(a) = n + 1 /\ Len(b) = n + 1 + k /\ Len(body) = n + 1 + k + 1
  <2>1. n \in Nat /\ n # 0 /\ k \in Nat
    BY <1>1, <1>2 DEF n, k
  <2>. QED  BY <1>4, <1>5, <1>6, <2>1
<1>8. ASSUME NEW i \in 1..n PROVE body[i] = id[i] /\ id[i] \in Text
  <2>1. i \in 1..n + 1 + k /\ i <= n + 1
    BY <1>7
  <2>2. id[i] \in Text
    BY <1>1 DEF n
  <2>3. body[i] = b[i] /\ b[i] = a[i] /\ a[i] = id[i]
    BY <1>4, <1>5, <1>6, <1>7, <2>1
  <2>. QED  BY <2>2, <2>3
<1>9. body[n + 1] = "comma"
  <2>1. n + 1 \in 1..n + 1 + k /\ n + 1 <= n + 1
    BY <1>7
  <2>2. body[n + 1] = b[n + 1] /\ b[n + 1] = a[n + 1]
    BY <1>5, <1>6, <1>7, <2>1
  <2>. QED  BY <1>4, <2>2
<1>10. ASSUME NEW i \in n + 2..n + 1 + k PROVE body[i] \in Text
  <2>1. i \in 1..n + 1 + k /\ ~(i <= n + 1) /\ i - (n + 1) \in 1..k
    BY <1>7
  <2>2. token[i - (n + 1)] \in Text
    BY <1>1, <2>1 DEF k
  <2>3. body[i] = b[i] /\ b[i] = token[i - (n + 1)]
    BY <1>5, <1>6, <1>7, <2>1
  <2>. QED  BY <2>2, <2>3
<1>11. body[n + 1 + k + 1] = "semicolon"
  BY <1>6, <1>7
<1>12. ASSUME NEW i \in 1..n + 1 + k + 1 PROVE body[i] \notin {"eol", "bar", "blank"}
  <2>1. i \in 1..n \/ i = n + 1 \/ i \in n + 2..n + 1 + k \/ i = n + 1 + k + 1
    BY <1>7
  <2>2. body[i] \in Text \/ body[i] = "comma" \/ body[i] = "semicolon"
    BY <1>8, <1>9, <1>10, <1>11, <2>1
  <2>. QED  BY <2>2, UnitFacts
<1>13. \A i \in 1..n : body[i] # "comma"
  BY <1>8, UnitFacts
<1>14. Len(body) \in Nat /\ Len(body) > n + 1
  BY <1>7
<1>15. body = Body(id, token)
  BY DEF Body, body, b, a
<1>. QED  BY <1>6, <1>7, <1>8, <1>9, <1>11, <1>12, <1>13, <1>14, <1>15 DEF n

LEMMA LineFacts ==
  ASSUME NEW m, NEW id \in Ids, IsLine(m, id)
  PROVE  IsPrefix(RegStart, m) /\ RegStatus(m) = "OK" /\ DeviceIdOf(m) = id
<1>1. PICK token \in {<<>>} \cup {<<x>> : x \in Text}, end \in {<<>>, <<"eol">>} :
        m = RegStart \o id \o <<"comma">> \o token \o <<"semicolon">> \o end
  BY DEF IsLine
<1>. DEFINE body == Body(id, token)
            t == body \o end
<1>2. /\ body \in Seq(Unit) /\ Len(id) \in Nat /\ Len(id) # 0
      /\ Len(body) \in Nat /\ Len(body) > Len(id) + 1
      /\ \A i \in 1..Len(id) : body[i] = id[i] /\ body[i] # "comma"
      /\ body[Len(id) + 1] = "comma" /\ body[Len(body)] = "semicolon"
      /\ \A i \in 1..Len(body) : body[i] \notin {"eol", "bar", "blank"}
  BY BodyFacts
<1>3. /\ RegStart \in Seq(Unit) /\ Len(RegStart) = 2 /\ id \in Seq(Unit)
      /\ end \in Seq(Unit) /\ Len(end) \in Nat
      /\ \A i \in 1..Len(end) : end[i] = "eol"
  <2>1. RegStart \in Seq(Unit) /\ Len(RegStart) = 2
    BY DEF RegStart, Unit
  <2>2. CASE end = <<>>
    BY <2>1, <2>2, UnitFacts
  <2>3. CASE end = <<"eol">>
    <3>1. <<"eol">> \in Seq(Unit)
      BY DEF Unit
    <3>. QED  BY <2>1, <2>3, <3>1, UnitFacts
  <2>. QED  BY <2>2, <2>3
<1>4. m = RegStart \o t
  <2>1. <<"comma">> \in Seq(Unit) /\ <<"semicolon">> \in Seq(Unit) /\ token \in Seq(Unit)
    <3>1. <<"comma">> \in Seq(Unit) /\ <<"semicolon">> \in Seq(Unit)
      BY DEF Unit
    <3>2. CASE token = <<>>
      BY <3>1, <3>2, EmptySeq
    <3>3. ASSUME NEW x \in Text, token = <<x>> PROVE token \in Seq(Unit)
      <4>1. x \in Unit
        BY UnitFacts
      <4>. QED  BY <3>3, <4>1
    <3>. QED  BY <3>1, <3>2, <3>3
  <2>. DEFINE a == id \o <<"comma">>
              b == a \o token
  <2>2. a \in Seq(Unit)
    BY <1>3, <2>1, ConcatProperties
  <2>3. (RegStart \o id) \o <<"comma">> = RegStart \o a
    BY <1>3, <2>1, ConcatAssociative, SMTT(30)
  <2>. HIDE DEF a
  <2>4. b \in Seq(Unit) /\ (RegStart \o a) \o token = RegStart \o b
    <3>1. RegStart \in Seq(Unit) /\ token \in Seq(Unit)
      BY <1>3, <2>1
    <3>2. b \in Seq(Unit)
      BY <2>2, <3>1, ConcatProperties
    <3>3. (RegStart \o a) \o token = RegStart \o b
      BY <2>2, <3>1, ConcatAssociative, SMTT(30)
    <3>. QED  BY <3>2, <3>3
  <2>. HIDE DEF b
  <2>5. (RegStart \o b) \o <<"semicolon">> = RegStart \o (b \o <<"semicolon">>)
    BY <1>3, <2>1, <2>4, ConcatAssociative, SMTT(30)
  <2>6. body = b \o <<"semicolon">>
    BY DEF Body, b, a
  <2>. HIDE DEF body
  <2>7. (RegStart \o body) \o end = RegStart \o t
    <3>1. RegStart \in Seq(Unit) /\ body \in Seq(Unit) /\ end \in Seq(Unit)
      BY <1>2, <1>3
    <3>. QED  BY <3>1, ConcatAssociative
  <2>. QED  BY <1>1, <2>3, <2>4, <2>5, <2>6, <2>7
<1>. HIDE DEF body
<1>5. /\ t \in Seq(Unit) /\ Len(t) = Len(body) + Len(end)
      /\ \A i \in 1..Len(body) + Len(end) :
           t[i] = IF i <= Len(body) THEN body[i] ELSE end[i - Len(body)]
  BY <1>2, <1>3, ConcatProperties
<1>6. SubSeq(t, 1, Len(body)) = body
  <2>1. 1 \in 1..Len(body) /\ Len(body) \in 1..Len(body)
    BY <1>2
  <2>2. SubSeq(t, 1, Len(body)) = SubSeq(body, 1, Len(body))
    BY <1>2, <1>3, <2>1, SubSeqOfConcat1
  <2>. QED  BY <1>2, <2>2, SubSeqFull
<1>. HIDE DEF t
<1>7. /\ Len(m) = 2 + Len(t) /\ Len(t) \in Nat /\ Len(t) > 0
      /\ m \in Seq(Unit)
  <2>1. m \in Seq(Unit) /\ Len(m) = Len(RegStart) + Len(t)
    BY <1>3, <1>4, <1>5, ConcatProperties
  <2>. QED  BY <1>2, <1>3, <1>5, <2>1
<1>8. IsPrefix(RegStart, m)
  <2>1. 1 \in 1..Len(RegStart) /\ Len(RegStart) \in 1..Len(RegStart)
    BY <1>3
  <2>2. SubSeq(m, 1, Len(RegStart)) = SubSeq(RegStart, 1, Len(RegStart))
    BY <1>3, <1>4, <1>5, <2>1, SubSeqOfConcat1
  <2>3. Len(RegStart) <= Len(m)
    BY <1>3, <1>7
  <2>. QED  BY <2>2, <2>3 DEF IsPrefix
<1>9. SubSeq(m, Len(RegStart) + 1, Len(m)) = t
  <2>. DEFINE p == Len(RegStart) + 1
              q == Len(m)
  <2>1. /\ p \in Len(RegStart) + 1..Len(RegStart) + Len(t)
        /\ q \in Len(RegStart) + 1..Len(RegStart) + Len(t)
        /\ p - Len(RegStart) = 1 /\ q - Len(RegStart) = Len(t)
    BY <1>3, <1>7
  <2>. HIDE DEF p, q
  <2>2. SubSeq(m, p, q) = SubSeq(t, 1, Len(t))
    <3>1. RegStart \in Seq(Unit) /\ t \in Seq(Unit)
      BY <1>3, <1>5
    <3>2. SubSeq(RegStart \o t, p, q) = SubSeq(t, p - Len(RegStart), q - Len(RegStart))
      BY <2>1, <3>1, SubSeqOfConcat2
    <3>. QED  BY <1>4, <2>1, <3>2
  <2>. QED  BY <1>5, <2>2, SubSeqFull DEF p, q
<1>10. Trim(t) = body
  <2>. DEFINE I == {i \in 1..Len(t) : t[i] \notin {"blank", "eol"}}
  <2>1. I = 1..Len(body)
    <3>1. ASSUME NEW i \in 1..Len(body) PROVE i \in I
      <4>1. i \in 1..Len(body) + Len(end) /\ i <= Len(body)
        BY <1>2, <1>3
      <4>. QED  BY <1>2, <1>5, <4>1
    <3>2. ASSUME NEW i \in I PROVE i \in 1..Len(body)
      <4>1. i \in 1..Len(body) + Len(end) /\ t[i] # "eol"
        BY <1>5
      <4>2. ASSUME ~(i <= Len(body)) PROVE FALSE
        <5>1. i - Len(body) \in 1..Len(end)
          BY <1>2, <1>3, <4>1, <4>2
        <5>. QED  BY <1>3, <1>5, <4>1, <4>2, <5>1
      <4>. QED  BY <1>2, <4>1, <4>2
    <3>. QED  BY <3>1, <3>2
  <2>. HIDE DEF I
  <2>2. 1 \in I /\ Len(body) \in I /\ \A i \in I : i \in Nat /\ 1 <= i /\ i <= Len(body)
    BY <1>2, <2>1
  <2>3. /\ Trim(t) = SubSeq(t, Min(I), Max(I))
        /\ Min(I) \in I /\ Max(I) \in I
        /\ \A j \in I : Min(I) <= j /\ j <= Max(I)
    BY <1>5, <2>2, TrimFacts DEF I
  <2>4. Min(I) = 1 /\ Max(I) = Len(body)
    <3>1. Min(I) \in Nat /\ 1 <= Min(I) /\ Min(I) <= 1
      BY <2>2, <2>3
    <3>2. Max(I) \in Nat /\ Max(I) <= Len(body) /\ Len(body) <= Max(I)
      BY <2>2, <2>3
    <3>. QED  BY <1>2, <3>1, <3>2
  <2>. QED  BY <1>6, <2>3, <2>4
<1>11. Clean(body) = body
  <2>. DEFINE f == [i \in 1..Len(body) |-> IF body[i] \in {"eol", "bar"} THEN <<>> ELSE <<body[i]>>]
              g == [i \in 1..Len(body) |-> <<body[i]>>]
  <2>1. f = g
    BY <1>2
  <2>2. Clean(body) = FlattenSeq(f)
    BY DEF Clean
  <2>3. FlattenSeq(g) = body
    BY <1>2, FlattenSingles
  <2>. HIDE DEF f, g
  <2>. QED  BY <2>1, <2>2, <2>3
<1>12. RegInfo(m) = body
  BY <1>9, <1>10, <1>11 DEF RegInfo
<1>13. SplitAt(body) = Len(id) + 1
  <2>1. Len(id) + 1 \in 1..Len(body)
    BY <1>2
  <2>2. /\ SplitAt(body) \in 1..Len(body) /\ body[SplitAt(body)] = "comma"
        /\ SplitAt(body) <= Len(id) + 1
    BY <1>2, <2>1, SplitFacts
  <2>3. SplitAt(body) \notin 1..Len(id)
    BY <1>2, <2>2
  <2>. QED  BY <1>2, <2>2, <2>3
<1>14. RegStatus(m) = "OK"
  <2>1. ~(Len(id) + 1 < 2)
    BY <1>2
  <2>2. Last(body) = "semicolon"
    BY <1>2 DEF Last
  <2>. QED  BY <1>8, <1>12, <1>13, <2>1, <2>2 DEF RegStatus
<1>15. DeviceIdOf(m) = id
  <2>1. DeviceIdOf(m) = SubSeq(body, 1, Len(id))
    <3>1. Len(id) + 1 - 1 = Len(id)
      BY <1>2
    <3>. QED  BY <1>12, <1>13, <3>1 DEF DeviceIdOf
  <2>2. /\ SubSeq(body, 1, Len(id)) \in Seq(Unit) /\ Len(SubSeq(body, 1, Len(id))) = Len(id)
        /\ \A i \in 1..Len(id) : SubSeq(body, 1, Len(id))[i] = body[i]
    <3>1. \A i \in 1..Len(id) : i \in 1..Len(body)
      BY <1>2
    <3>2. \A i \in 1..Len(id) : body[i] \in Unit
      BY <1>2, <3>1
    <3>3. 1 \in Int /\ Len(id) \in Int
      BY <1>2
    <3>. DEFINE w == SubSeq(body, 1, Len(id))
    <3>4. /\ w \in Seq(Unit) /\ Len(w) = IF 1 <= Len(id) THEN Len(id) - 1 + 1 ELSE 0
          /\ \A i \in 1..Len(id) - 1 + 1 : w[i] = body[1 + i - 1]
      BY <3>2, <3>3, SubSeqProperties
    <3>. HIDE DEF w
    <3>5. w \in Seq(Unit) /\ Len(w) = Len(id) /\ \A i \in 1..Len(id) : w[i] = body[i]
      BY <1>2, <3>4
    <3>. QED  BY <3>5 DEF w
  <2>3. SubSeq(body, 1, Len(id)) = id
    BY <1>2, <1>3, <2>2, SeqEqual
  <2>. QED  BY <2>1, <2>3
<1>. QED  BY <1>8, <1>14, <1>15

-----------------------------------------------------------------------------
(* What has been read and what has been published.                         *)

Datum == [dev : {Addr} \cup Chunk, bytes : Chunk]
StatusEvent == [event : {"on", "off"}, dev : {Addr} \cup Chunk]

Alive == chan \in {"new", "open"}

\* Event j has the bytes of chunk k, under the address while the gateway had
\* not registered, with chunk i, and under its id since.
Carries(j, k, i) ==
  data[j].bytes = read[k] /\ data[j].dev = IF j < i THEN Addr ELSE name

\* Every chunk was published, under the address ...
All == Len(data) = Len(read) /\ \A j \in 1..Len(data) : data[j].bytes = read[j] /\ data[j].dev = Addr

\* ... or all but chunk i, and of those that follow all but the last n.
But(i, n) ==
  /\ Len(data) + 1 + n = Len(read)
  /\ \A j \in 1..Len(data) : Carries(j, IF j < i THEN j ELSE j + 1, i)

\* Nothing is missing while the gateway has not registered; once it has, the
\* chunk that registered it is; and the publication of the last chunk may have
\* failed when the connection has ended.
FlowInv ==
  /\ registering => name = Addr
  /\ Alive /\ registering => All
  /\ Alive /\ ~registering => \E i \in 1..Len(read) : IsPrefix(RegStart, read[i]) /\ But(i, 0)
  /\ ~Alive => \/ All
               \/ \E i \in 1..Len(read) : /\ IsPrefix(RegStart, read[i]) \/ i = Len(read)
                                          /\ But(i, 0)
               \/ \E i \in 1..Len(read) - 1 : IsPrefix(RegStart, read[i]) /\ But(i, 1)

\* The handler of the registration stays until the first chunk that begins with
\* the marker, and a line that is that chunk has been accepted.
LineInv ==
  /\ refused => ~Alive
  /\ Alive /\ registering => \A j \in 1..Len(read) : ~IsPrefix(RegStart, read[j])
  /\ ~registering => \E j \in 1..Len(read) : IsPrefix(RegStart, read[j])
  /\ \A i \in 1..Len(read), id \in Ids :
       /\ IsLine(read[i], id)
       /\ \A j \in 1..i-1 : ~IsPrefix(RegStart, read[j])
       => name = id /\ ~refused

ChannelInv == ChannelTypeOK /\ data \in Seq(Datum) /\ status \in Seq(StatusEvent)

Inv == ChannelInv /\ FlowInv /\ LineInv

LEMMA WireType ==
  ASSUME ChannelTypeOK
  PROVE  Wire \in Seq(Unit)
<1>1. Chunk \subseteq Seq(Unit) /\ Messages \subseteq Seq(Unit)
  BY ChannelAssumption DEF Chunk
<1>2. sent \in Seq(Seq(Unit)) /\ read \in Seq(Seq(Unit))
  BY <1>1, SeqMonotonic DEF ChannelTypeOK
<1>3. Bytes(sent) \in Seq(Unit) /\ Bytes(read) \in Seq(Unit)
  BY <1>2, FlattenType DEF Bytes
<1>. DEFINE m == Len(Bytes(read)) + 1
            n == Len(Bytes(sent))
<1>4. m \in Int /\ n \in Int /\ 1 <= m
  BY <1>3
<1>5. \A i \in m..n : Bytes(sent)[i] \in Unit
  BY <1>3, <1>4
<1>. HIDE DEF m, n
<1>6. SubSeq(Bytes(sent), m, n) \in Seq(Unit)
  BY <1>4, <1>5, SubSeqProperties
<1>. QED  BY <1>6 DEF Wire, m, n

\* What channelRead gets, and what it does with it.
LEMMA ReadFacts ==
  ASSUME ChannelInv, ChannelRead
  PROVE  \E chunk \in Chunk :
           /\ chan = "open" /\ read' = Append(read, chunk)
           /\ Registered(chunk) \/ RegError(chunk) \/ Forward(chunk)
           /\ quiet' = FALSE /\ UNCHANGED <<peer, sent, unacked>>
<1>1. PICK n \in 1..Len(Wire) :
        LET chunk == SubSeq(Wire, 1, n) IN
        /\ read' = Append(read, chunk)
        /\ Registered(chunk) \/ RegError(chunk) \/ Forward(chunk)
  BY DEF ChannelRead
<1>2. SubSeq(Wire, 1, n) \in Chunk
  <2>1. Wire \in Seq(Unit)
    BY WireType DEF ChannelInv
  <2>2. \A i \in 1..n : Wire[i] \in Unit
    BY <2>1
  <2>3. n \in Int /\ 1 \in Int /\ 1 <= n /\ n - 1 + 1 = n
    BY <2>1
  <2>4. SubSeq(Wire, 1, n) \in Seq(Unit) /\ Len(SubSeq(Wire, 1, n)) = n
    BY <2>2, <2>3, SubSeqProperties
  <2>5. SubSeq(Wire, 1, n) # <<>>
    BY <2>3, <2>4
  <2>. QED  BY <2>4, <2>5 DEF Chunk
<1>. QED  BY <1>1, <1>2 DEF ChannelRead

-----------------------------------------------------------------------------
(* The type invariant.                                                     *)

LEMMA InitType == Init => ChannelInv
<1>. SUFFICES ASSUME Init PROVE ChannelInv
  OBVIOUS
<1>1. /\ sent \in Seq(Messages) /\ read \in Seq(Chunk)
      /\ data \in Seq(Datum) /\ status \in Seq(StatusEvent)
      /\ Len(data) = 0 /\ Len(status) = 0
  BY EmptySeq DEF Init
<1>2. \A i : i \notin 1..Len(data) /\ i \notin 1..Len(status)
  BY <1>1
<1>. QED  BY <1>1, <1>2 DEF Init, ChannelInv, ChannelTypeOK

LEMMA AnnounceType ==
  ASSUME ChannelInv, NEW e \in {"on", "off"}, NEW id \in {Addr} \cup Chunk, Announce(e, id)
  PROVE  /\ status' \in Seq(StatusEvent)
         /\ \A i \in 1..Len(status') : status'[i].event \in {"on", "off"}
<1>1. [event |-> e, dev |-> id] \in StatusEvent
  BY DEF StatusEvent
<1>2. status' \in Seq(StatusEvent)
  BY <1>1, AppendProperties DEF Announce, ChannelInv
<1>3. \A i \in 1..Len(status') : status'[i] \in StatusEvent
  BY <1>2
<1>. QED  BY <1>2, <1>3 DEF StatusEvent

LEMMA ReadType ==
  ASSUME ChannelInv, ChannelRead
  PROVE  ChannelInv'
<1>1. PICK chunk \in Chunk :
        /\ read' = Append(read, chunk)
        /\ Registered(chunk) \/ RegError(chunk) \/ Forward(chunk)
        /\ quiet' = FALSE /\ UNCHANGED <<peer, sent, unacked>>
  BY ReadFacts
<1>2. read' \in Seq(Chunk)
  BY <1>1, AppendProperties DEF ChannelInv, ChannelTypeOK
<1>3. CASE Registered(chunk)
  <2>1. DeviceIdOf(chunk) \in Chunk
    BY <1>3, AcceptedFacts DEF Registered
  <2>2. /\ status' \in Seq(StatusEvent)
        /\ \A i \in 1..Len(status') : status'[i].event \in {"on", "off"}
    BY <1>3, <2>1, AnnounceType DEF Registered
  <2>. QED  BY <1>1, <1>2, <1>3, <2>1, <2>2 DEF Registered, ChannelInv, ChannelTypeOK
<1>4. CASE RegError(chunk)
  BY <1>1, <1>2, <1>4 DEF RegError, ChannelInv, ChannelTypeOK
<1>5. CASE Forward(chunk)
  <2>1. [dev |-> name, bytes |-> chunk] \in Datum
    BY DEF Datum, ChannelInv, ChannelTypeOK
  <2>2. data' = Append(data, [dev |-> name, bytes |-> chunk]) \/ UNCHANGED data
    BY <1>5 DEF Forward
  <2>3. data' \in Seq(Datum)
    BY <2>1, <2>2, AppendProperties DEF ChannelInv
  <2>4. \A i \in 1..Len(data') : data'[i].bytes \in Chunk
    <3>1. \A i \in 1..Len(data') : data'[i] \in Datum
      BY <2>3
    <3>. QED  BY <3>1 DEF Datum
  <2>5. chan' \in {"new", "open", "closed", "gone"}
    BY <1>5 DEF Forward, ChannelInv, ChannelTypeOK
  <2>. QED  BY <1>1, <1>2, <1>5, <2>3, <2>4, <2>5 DEF Forward, ChannelInv, ChannelTypeOK
<1>. QED  BY <1>1, <1>3, <1>4, <1>5

LEMMA NextType == ChannelInv /\ [Next]_vars => ChannelInv'
<1>. SUFFICES ASSUME ChannelInv, [Next]_vars PROVE ChannelInv'
  OBVIOUS
<1>. USE DEF ChannelInv, ChannelTypeOK
<1>1. CASE Send
  <2>1. sent' \in Seq(Messages)
    BY <1>1, AppendProperties DEF Send
  <2>. QED  BY <1>1, <2>1 DEF Send
<1>2. CASE Leave
  BY <1>2 DEF Leave
<1>3. CASE ChannelActive
  <2>1. /\ status' \in Seq(StatusEvent)
        /\ \A i \in 1..Len(status') : status'[i].event \in {"on", "off"}
    BY <1>3, AnnounceType DEF ChannelActive
  <2>. QED  BY <1>3, <2>1 DEF ChannelActive
<1>4. CASE RecieveCommand \/ Heartbeat
  BY <1>4 DEF RecieveCommand, Heartbeat, Write
<1>5. CASE Idle
  BY <1>5 DEF Idle
<1>6. CASE Broken
  BY <1>6 DEF Broken
<1>7. CASE ChannelInactive
  <2>1. name \in {Addr} \cup Chunk
    OBVIOUS
  <2>2. /\ status' \in Seq(StatusEvent)
        /\ \A i \in 1..Len(status') : status'[i].event \in {"on", "off"}
    BY <1>7, <2>1, AnnounceType DEF ChannelInactive
  <2>. QED  BY <1>7, <2>2 DEF ChannelInactive
<1>8. CASE UNCHANGED vars
  BY <1>8 DEF vars
<1>. QED  BY <1>1, <1>2, <1>3, <1>4, <1>5, <1>6, <1>7, <1>8, ReadType DEF Next

-----------------------------------------------------------------------------
(* Data and registration.                                                  *)

\* Reading and forwarding leave what is behind them alone.
LEMMA ReadGrows ==
  ASSUME ChannelInv, NEW chunk \in Chunk, read' = Append(read, chunk)
  PROVE  /\ Len(read) \in Nat /\ Len(data) \in Nat
         /\ Len(read') = Len(read) + 1 /\ read'[Len(read) + 1] = chunk
         /\ \A i \in 1..Len(read) : read'[i] = read[i]
BY AppendProperties DEF ChannelInv, ChannelTypeOK

LEMMA DataGrows ==
  ASSUME ChannelInv, NEW chunk \in Chunk, data' = Append(data, [dev |-> name, bytes |-> chunk])
  PROVE  /\ Len(data') = Len(data) + 1
         /\ data'[Len(data) + 1].dev = name /\ data'[Len(data) + 1].bytes = chunk
         /\ \A i \in 1..Len(data) : data'[i] = data[i]
<1>1. [dev |-> name, bytes |-> chunk] \in Datum
  BY DEF Datum, ChannelInv, ChannelTypeOK
<1>. QED  BY <1>1, AppendProperties DEF ChannelInv

\* A step that reads and publishes nothing.
LEMMA QuietStep ==
  ASSUME Inv, UNCHANGED <<read, registering, name, data, refused>>,
         Alive' => Alive, UNCHANGED Alive \/ chan = "open"
  PROVE  FlowInv' /\ LineInv'
<1>1. All' = All
  BY DEF All
<1>2. ASSUME NEW i, NEW n PROVE But(i, n)' = But(i, n)
  BY DEF But, Carries
<1>3. FlowInv'
  BY <1>1, <1>2 DEF Inv, FlowInv
<1>4. LineInv'
  BY DEF Inv, LineInv
<1>. QED  BY <1>3, <1>4

\* The line of the gateway registers it, and nothing else does.
LEMMA RegisteredStep ==
  ASSUME Inv, chan = "open", NEW chunk \in Chunk, read' = Append(read, chunk), Registered(chunk)
  PROVE  FlowInv' /\ LineInv'
<1>1. /\ Len(read) \in Nat /\ Len(data) \in Nat
      /\ Len(read') = Len(read) + 1 /\ read'[Len(read) + 1] = chunk
      /\ \A i \in 1..Len(read) : read'[i] = read[i]
  BY ReadGrows DEF Inv
<1>2. Alive /\ registering /\ All /\ \A j \in 1..Len(read) : ~IsPrefix(RegStart, read[j])
  BY DEF Registered, Alive, Inv, FlowInv, LineInv
<1>3. IsPrefix(RegStart, chunk) /\ name' = DeviceIdOf(chunk)
  BY AcceptedFacts DEF Registered
<1>4. ~registering' /\ Alive' /\ UNCHANGED <<data, refused>> /\ ~refused
  BY <1>2 DEF Registered, Alive, Inv, LineInv
<1>0. PICK k \in Nat : k = Len(read) + 1
  BY <1>1
<1>5. k \in 1..Len(read') /\ IsPrefix(RegStart, read'[k])
  BY <1>0, <1>1, <1>3
<1>6. But(k, 0)'
  <2>1. Len(data') + 1 + 0 = Len(read')
    BY <1>1, <1>2, <1>4 DEF All
  <2>2. ASSUME NEW j \in 1..Len(data') PROVE Carries(j, IF j < k THEN j ELSE j + 1, k)'
    <3>1. j \in 1..Len(data) /\ j \in 1..Len(read) /\ j < k
      BY <1>0, <1>1, <1>2, <1>4, <2>2 DEF All
    <3>2. data'[j].bytes = read'[j] /\ data'[j].dev = Addr
      BY <1>1, <1>2, <1>4, <3>1 DEF All
    <3>. QED  BY <3>1, <3>2 DEF Carries
  <2>. QED  BY <2>1, <2>2 DEF But
<1>7. FlowInv'
  <2>1. \E i \in 1..Len(read') : IsPrefix(RegStart, read'[i]) /\ But(i, 0)'
    BY <1>5, <1>6
  <2>. QED  BY <1>4, <2>1 DEF FlowInv
<1>8. ASSUME NEW i \in 1..Len(read'), NEW id \in Ids, IsLine(read'[i], id)
      PROVE  name' = id
  <2>1. IsPrefix(RegStart, read'[i]) /\ DeviceIdOf(read'[i]) = id
    BY <1>8, LineFacts
  <2>2. i = k
    <3>1. i \in 1..Len(read) \/ i = k
      BY <1>0, <1>1
    <3>. QED  BY <1>0, <1>1, <1>2, <2>1, <3>1
  <2>. QED  BY <1>0, <1>1, <1>3, <2>1, <2>2
<1>9. LineInv'
  BY <1>4, <1>5, <1>8 DEF LineInv
<1>. QED  BY <1>7, <1>9

LEMMA RegErrorStep ==
  ASSUME Inv, chan = "open", NEW chunk \in Chunk, read' = Append(read, chunk), RegError(chunk)
  PROVE  FlowInv' /\ LineInv'
<1>1. /\ Len(read) \in Nat /\ Len(data) \in Nat
      /\ Len(read') = Len(read) + 1 /\ read'[Len(read) + 1] = chunk
      /\ \A i \in 1..Len(read) : read'[i] = read[i]
  BY ReadGrows DEF Inv
<1>2. /\ Alive /\ registering /\ All /\ name = Addr
      /\ \A j \in 1..Len(read) : ~IsPrefix(RegStart, read[j])
  BY DEF RegError, Alive, Inv, FlowInv, LineInv
<1>3. IsPrefix(RegStart, chunk) /\ RegStatus(chunk) # "OK"
  BY DEF RegError, RegStatus
<1>4. registering' /\ ~Alive' /\ UNCHANGED <<data, name>>
  BY <1>2 DEF RegError, Alive
<1>0. PICK k \in Nat : k = Len(read) + 1
  BY <1>1
<1>5. k \in 1..Len(read') /\ IsPrefix(RegStart, read'[k])
  BY <1>0, <1>1, <1>3
<1>6. But(k, 0)'
  <2>1. Len(data') + 1 + 0 = Len(read')
    BY <1>1, <1>2, <1>4 DEF All
  <2>2. ASSUME NEW j \in 1..Len(data') PROVE Carries(j, IF j < k THEN j ELSE j + 1, k)'
    <3>1. j \in 1..Len(data) /\ j \in 1..Len(read) /\ j < k
      BY <1>0, <1>1, <1>2, <1>4, <2>2 DEF All
    <3>2. data'[j].bytes = read'[j] /\ data'[j].dev = Addr
      BY <1>1, <1>2, <1>4, <3>1 DEF All
    <3>. QED  BY <3>1, <3>2 DEF Carries
  <2>. QED  BY <2>1, <2>2 DEF But
<1>7. FlowInv'
  <2>1. \E i \in 1..Len(read') : IsPrefix(RegStart, read'[i]) /\ But(i, 0)'
    BY <1>5, <1>6
  <2>. QED  BY <1>2, <1>4, <2>1 DEF FlowInv
<1>8. ASSUME NEW i \in 1..Len(read'), NEW id \in Ids, IsLine(read'[i], id)
      PROVE  FALSE
  <2>1. IsPrefix(RegStart, read'[i]) /\ RegStatus(read'[i]) = "OK"
    BY <1>8, LineFacts
  <2>2. i \in 1..Len(read) \/ i = k
    BY <1>0, <1>1
  <2>. QED  BY <1>0, <1>1, <1>2, <1>3, <2>1, <2>2
<1>9. LineInv'
  BY <1>4, <1>8 DEF LineInv
<1>. QED  BY <1>7, <1>9

LEMMA ForwardStep ==
  ASSUME Inv, chan = "open", NEW chunk \in Chunk, read' = Append(read, chunk), Forward(chunk)
  PROVE  FlowInv' /\ LineInv'
<1>1. /\ Len(read) \in Nat /\ Len(data) \in Nat
      /\ Len(read') = Len(read) + 1 /\ read'[Len(read) + 1] = chunk
      /\ \A i \in 1..Len(read) : read'[i] = read[i]
  BY ReadGrows DEF Inv
<1>2. PICK k \in Nat : k = Len(read) + 1
  BY <1>1
<1>3. k \in 1..Len(read') /\ read'[k] = chunk /\ \A i \in 1..Len(read') : i \in 1..Len(read) \/ i = k
  BY <1>1, <1>2
<1>4. Alive /\ ~refused /\ UNCHANGED <<registering, name, refused>>
  BY DEF Forward, Alive, Inv, LineInv
<1>5. registering => ~IsPrefix(RegStart, chunk)
  BY DEF Forward, RegStatus
<1>6. /\ registering => name = Addr /\ All /\ \A j \in 1..Len(read) : ~IsPrefix(RegStart, read[j])
      /\ ~registering => \E i \in 1..Len(read) : IsPrefix(RegStart, read[i]) /\ But(i, 0)
  BY <1>4 DEF Inv, FlowInv, LineInv
<1>7. LineInv'
  <2>1. CASE registering
    <3>1. \A j \in 1..Len(read') : ~IsPrefix(RegStart, read'[j])
      BY <1>1, <1>3, <1>5, <1>6, <2>1
    <3>2. ASSUME NEW i \in 1..Len(read'), NEW id \in Ids, IsLine(read'[i], id) PROVE FALSE
      BY <3>1, <3>2, LineFacts
    <3>. QED  BY <1>4, <2>1, <3>1, <3>2 DEF LineInv
  <2>2. CASE ~registering
    <3>1. PICK e \in 1..Len(read) : IsPrefix(RegStart, read[e])
      BY <1>6, <2>2
    <3>2. e \in 1..Len(read') /\ IsPrefix(RegStart, read'[e]) /\ e \in 1..k - 1
      BY <1>1, <1>2, <3>1
    <3>3. ASSUME NEW i \in 1..Len(read'), NEW id \in Ids, IsLine(read'[i], id),
                 \A j \in 1..i-1 : ~IsPrefix(RegStart, read'[j])
          PROVE  name = id /\ ~refused
      <4>1. i \in 1..Len(read)
        BY <1>3, <3>2, <3>3
      <4>2. \A j \in 1..i-1 : read'[j] = read[j]
        BY <1>1, <4>1
      <4>3. IsLine(read[i], id) /\ \A j \in 1..i-1 : ~IsPrefix(RegStart, read[j])
        BY <1>1, <3>3, <4>1, <4>2
      <4>. QED  BY <4>1, <4>3 DEF Inv, LineInv
    <3>. QED  BY <1>4, <2>2, <3>2, <3>3 DEF LineInv
  <2>. QED  BY <2>1, <2>2
<1>8. CASE data' = Append(data, [dev |-> name, bytes |-> chunk])
  <2>1. /\ Len(data') = Len(data) + 1
        /\ data'[Len(data) + 1].dev = name /\ data'[Len(data) + 1].bytes = chunk
        /\ \A i \in 1..Len(data) : data'[i] = data[i]
    BY <1>8, DataGrows DEF Inv
  <2>2. CASE registering
    <3>1. Len(data') = Len(read')
      BY <1>1, <1>6, <2>1, <2>2 DEF All
    <3>2. ASSUME NEW j \in 1..Len(data') PROVE data'[j].bytes = read'[j] /\ data'[j].dev = Addr
      <4>1. CASE j \in 1..Len(data)
        <5>1. j \in 1..Len(read) /\ data'[j] = data[j] /\ read'[j] = read[j]
          BY <1>1, <1>6, <2>1, <2>2, <4>1 DEF All
        <5>. QED  BY <1>6, <2>2, <4>1, <5>1 DEF All
      <4>2. CASE j = Len(data) + 1
        BY <1>1, <1>6, <2>1, <2>2, <4>2 DEF All
      <4>3. Len(data) \in Nat
        BY <1>1
      <4>4. j \in 1..Len(data) \/ j = Len(data) + 1
        BY <2>1, <4>3
      <4>. QED  BY <4>1, <4>2, <4>4
    <3>3. All'
      BY <3>1, <3>2 DEF All
    <3>. QED  BY <1>4, <1>6, <1>7, <2>2, <3>3 DEF FlowInv
  <2>3. CASE ~registering
    <3>1. PICK i \in 1..Len(read) : IsPrefix(RegStart, read[i]) /\ But(i, 0)
      BY <1>6, <2>3
    <3>2. i \in 1..Len(read') /\ IsPrefix(RegStart, read'[i]) /\ i <= Len(data) + 1
      BY <1>1, <3>1 DEF But
    <3>3. But(i, 0)'
      <4>1. Len(data') + 1 + 0 = Len(read') /\ Len(data) + 1 = Len(read)
        BY <1>1, <2>1, <3>1 DEF But
      <4>2. ASSUME NEW j \in 1..Len(data') PROVE Carries(j, IF j < i THEN j ELSE j + 1, i)'
        <5>1. CASE j \in 1..Len(data)
          <6>. DEFINE at == IF j < i THEN j ELSE j + 1
          <6>1. PICK m : m = at
            OBVIOUS
          <6>2. m \in 1..Len(read)
            BY <1>1, <4>1, <5>1, <6>1
          <6>3. data[j].bytes = read[m] /\ data[j].dev = IF j < i THEN Addr ELSE name
            BY <3>1, <5>1, <6>1 DEF But, Carries
          <6>4. data'[j] = data[j] /\ read'[m] = read[m]
            BY <1>1, <2>1, <5>1, <6>2
          <6>5. data'[j].bytes = read'[m] /\ data'[j].dev = IF j < i THEN Addr ELSE name'
            BY <1>4, <6>3, <6>4
          <6>. QED  BY <6>1, <6>5 DEF Carries
        <5>2. CASE j = Len(data) + 1
          <6>1. ~(j < i) /\ j + 1 = Len(read) + 1
            BY <1>1, <3>2, <4>1, <5>2
          <6>. QED  BY <1>1, <1>4, <2>1, <5>2, <6>1 DEF Carries
        <5>. QED  BY <1>1, <2>1, <5>1, <5>2
      <4>. QED  BY <4>1, <4>2 DEF But
    <3>4. \E x \in 1..Len(read') : IsPrefix(RegStart, read'[x]) /\ But(x, 0)'
      BY <3>2, <3>3
    <3>. QED  BY <1>4, <1>7, <2>3, <3>4 DEF FlowInv
  <2>. QED  BY <2>2, <2>3
<1>9. CASE chan' = "closed" /\ UNCHANGED data
  <2>0. ~Alive'
    BY <1>9 DEF Alive
  <2>1. CASE registering
    <3>1. But(k, 0)'
      <4>1. Len(data') + 1 + 0 = Len(read')
        BY <1>1, <1>6, <1>9, <2>1 DEF All
      <4>2. ASSUME NEW j \in 1..Len(data') PROVE Carries(j, IF j < k THEN j ELSE j + 1, k)'
        <5>1. j \in 1..Len(data) /\ j \in 1..Len(read) /\ j < k
          BY <1>1, <1>2, <1>6, <1>9, <2>1 DEF All
        <5>2. data'[j].bytes = read'[j] /\ data'[j].dev = Addr
          BY <1>1, <1>6, <1>9, <2>1, <5>1 DEF All
        <5>. QED  BY <5>1, <5>2 DEF Carries
      <4>. QED  BY <4>1, <4>2 DEF But
    <3>2. \E i \in 1..Len(read') : i = Len(read') /\ But(i, 0)'
      BY <1>1, <1>2, <1>3, <3>1
    <3>. QED  BY <1>4, <1>6, <1>7, <2>0, <2>1, <3>2 DEF FlowInv
  <2>2. CASE ~registering
    <3>1. PICK i \in 1..Len(read) : IsPrefix(RegStart, read[i]) /\ But(i, 0)
      BY <1>6, <2>2
    <3>2. i \in 1..Len(read') - 1 /\ IsPrefix(RegStart, read'[i])
      BY <1>1, <3>1
    <3>3. But(i, 1)'
      <4>1. Len(data') + 1 + 1 = Len(read') /\ Len(data) + 1 = Len(read)
        BY <1>1, <1>9, <3>1 DEF But
      <4>2. ASSUME NEW j \in 1..Len(data') PROVE Carries(j, IF j < i THEN j ELSE j + 1, i)'
        <5>. DEFINE at == IF j < i THEN j ELSE j + 1
        <5>0. j \in 1..Len(data)
          BY <1>9
        <5>1. PICK m : m = at
          OBVIOUS
        <5>2. m \in 1..Len(read)
          BY <1>1, <4>1, <5>0, <5>1
        <5>3. data[j].bytes = read[m] /\ data[j].dev = IF j < i THEN Addr ELSE name
          BY <3>1, <5>0, <5>1 DEF But, Carries
        <5>4. data'[j] = data[j] /\ read'[m] = read[m]
          BY <1>1, <1>9, <5>2
        <5>5. data'[j].bytes = read'[m] /\ data'[j].dev = IF j < i THEN Addr ELSE name'
          BY <1>4, <5>3, <5>4
        <5>. QED  BY <5>1, <5>5 DEF Carries
      <4>. QED  BY <4>1, <4>2 DEF But
    <3>4. \E x \in 1..Len(read') - 1 : IsPrefix(RegStart, read'[x]) /\ But(x, 1)'
      BY <3>2, <3>3
    <3>. QED  BY <1>4, <1>7, <2>0, <2>2, <3>4 DEF FlowInv
  <2>. QED  BY <2>1, <2>2
<1>. QED  BY <1>8, <1>9 DEF Forward

LEMMA InitInv == Init => Inv
<1>. SUFFICES ASSUME Init PROVE Inv
  OBVIOUS
<1>1. Len(read) = 0 /\ Len(data) = 0 /\ registering /\ name = Addr /\ ~refused /\ Alive
  BY EmptySeq DEF Init, Alive
<1>2. \A i : i \notin 1..Len(read) /\ i \notin 1..Len(data)
  BY <1>1
<1>3. FlowInv
  BY <1>1, <1>2 DEF FlowInv, All
<1>4. LineInv
  BY <1>1, <1>2 DEF LineInv
<1>. QED  BY <1>3, <1>4, InitType DEF Inv

LEMMA NextInv == Inv /\ [Next]_vars => Inv'
<1>. SUFFICES ASSUME Inv, [Next]_vars PROVE Inv'
  OBVIOUS
<1>1. ChannelInv'
  BY NextType DEF Inv
<1>2. CASE ChannelRead
  <2>1. PICK chunk \in Chunk :
          /\ chan = "open" /\ read' = Append(read, chunk)
          /\ Registered(chunk) \/ RegError(chunk) \/ Forward(chunk)
    BY <1>2, ReadFacts DEF Inv
  <2>. QED  BY <1>1, <2>1, RegisteredStep, RegErrorStep, ForwardStep DEF Inv
<1>3. CASE Send \/ Leave \/ ChannelActive \/ RecieveCommand \/ Heartbeat \/ Idle \/ UNCHANGED vars
  <2>1. UNCHANGED <<read, registering, name, data, refused, Alive>>
    BY <1>3 DEF Send, Leave, ChannelActive, RecieveCommand, Heartbeat, Write, Idle, vars, Alive
  <2>2. Alive' => Alive
    BY <2>1
  <2>3. UNCHANGED Alive \/ chan = "open"
    BY <2>1
  <2>4. FlowInv' /\ LineInv'
    BY <2>1, <2>2, <2>3, QuietStep DEF Inv
  <2>. QED  BY <1>1, <2>4 DEF Inv
<1>4. CASE Broken \/ ChannelInactive
  <2>1. /\ UNCHANGED <<read, registering, name, data, refused>>
    BY <1>4 DEF Broken, ChannelInactive
  <2>2. Alive' => Alive
    BY <1>4 DEF Broken, ChannelInactive, Alive
  <2>3. UNCHANGED Alive \/ chan = "open"
    BY <1>4 DEF Broken, ChannelInactive, Alive
  <2>4. FlowInv' /\ LineInv'
    BY <2>1, <2>2, <2>3, QuietStep DEF Inv
  <2>. QED  BY <1>1, <2>4 DEF Inv
<1>. QED  BY <1>2, <1>3, <1>4 DEF Next

THEOREM ChannelInvariance == Spec => []Inv
<1>. QED  BY InitInv, NextInv, PTL DEF Spec

(***************************************************************************)
(* The three properties.                                                   *)
(***************************************************************************)

LEMMA RemovedIs ==
  ASSUME NEW S, NEW s \in Seq(S), NEW i \in 1..Len(s), NEW t \in Seq(S),
         Len(t) + 1 = Len(s),
         \A j \in 1..Len(t) : t[j] = s[IF j < i THEN j ELSE j + 1]
  PROVE  t = RemoveAt(s, i)
<1>. DEFINE front == SubSeq(s, 1, i - 1)
            back  == SubSeq(s, i + 1, Len(s))
<1>1. Len(s) \in Nat /\ Len(t) \in Nat /\ i \in Int
  OBVIOUS
<1>2. /\ front \in Seq(S) /\ Len(front) = i - 1
      /\ \A j \in 1..i-1 : front[j] = s[j]
  BY SubSeqProperties
<1>3. /\ back \in Seq(S) /\ Len(back) = Len(s) - i
      /\ \A j \in 1..Len(s) - i : back[j] = s[i + j]
  BY SubSeqProperties
<1>4. RemoveAt(s, i) = front \o back
  BY DEF RemoveAt
<1>. HIDE DEF front, back
<1>a. front \in Seq(S) /\ back \in Seq(S)
  BY <1>2, <1>3
<1>b. Len(front) = i - 1 /\ Len(back) = Len(s) - i
  BY <1>2, <1>3
<1>c. Len(front) + Len(back) = Len(t)
  <2>1. (i - 1) + (Len(s) - i) = Len(t)
    BY <1>1
  <2>. QED  BY <1>b, <2>1
<1>5. /\ front \o back \in Seq(S) /\ Len(front \o back) = Len(front) + Len(back)
      /\ \A j \in 1..Len(front) + Len(back) :
           (front \o back)[j] = IF j <= Len(front) THEN front[j] ELSE back[j - Len(front)]
  BY <1>a, ConcatProperties
<1>6. Len(t) = Len(front \o back)
  BY <1>5, <1>c
<1>7. ASSUME NEW j \in 1..Len(t) PROVE t[j] = (front \o back)[j]
  <2>1. CASE j < i
    <3>1. t[j] = s[j]
      BY <2>1
    <3>2. j \in 1..Len(front) + Len(back) /\ j <= Len(front) /\ j \in 1..i-1
      BY <1>1, <1>b, <1>c, <2>1
    <3>. QED  BY <1>2, <1>5, <3>1, <3>2
  <2>2. CASE ~(j < i)
    <3>1. t[j] = s[j + 1]
      BY <2>2
    <3>2. j \in 1..Len(front) + Len(back) /\ ~(j <= Len(front)) /\ j - Len(front) \in 1..Len(s) - i
      BY <1>1, <1>b, <1>c, <2>2
    <3>3. (front \o back)[j] = back[j - Len(front)]
      BY <1>5, <3>2
    <3>4. PICK m \in 1..Len(s) - i : m = j - Len(front)
      BY <3>2
    <3>5. back[m] = s[i + m] /\ i + m = j + 1
      BY <1>1, <1>3, <1>b, <3>4
    <3>. QED  BY <3>1, <3>3, <3>4, <3>5
  <2>. QED  BY <2>1, <2>2
<1>. QED  BY <1>4, <1>5, <1>6, <1>7, SeqEqual

LEMMA PublishedIs ==
  ASSUME ChannelInv
  PROVE  /\ Published \in Seq(Chunk) /\ Len(Published) = Len(data)
         /\ \A j \in 1..Len(data) : Published[j] = data[j].bytes
<1>1. Len(data) \in Nat /\ \A j \in 1..Len(data) : data[j].bytes \in Chunk
  BY DEF ChannelInv, ChannelTypeOK
<1>. QED  BY <1>1 DEF Published

LEMMA TransparentFollows == Inv => Transparent
<1>. SUFFICES ASSUME Inv PROVE Transparent
  OBVIOUS
<1>1. /\ read \in Seq(Chunk) /\ Len(read) \in Nat /\ Len(data) \in Nat
      /\ chan \in {"new", "open", "closed", "gone"}
  BY DEF Inv, ChannelInv, ChannelTypeOK
<1>2. /\ Published \in Seq(Chunk) /\ Len(Published) = Len(data)
      /\ \A j \in 1..Len(data) : Published[j] = data[j].bytes
  BY PublishedIs DEF Inv
<1>3. ASSUME All PROVE Transparent
  <2>1. \A j \in 1..Len(data) : Published[j] = read[j]
    BY <1>2, <1>3 DEF All
  <2>2. Published = read
    BY <1>1, <1>2, <1>3, <2>1, SeqEqual DEF All
  <2>. QED  BY <1>3, <2>2 DEF All, Transparent
<1>4. ASSUME NEW i \in 1..Len(read), But(i, 0), MayBeKept(i) PROVE Transparent
  <2>1. /\ Len(data) + 1 = Len(read)
        /\ \A j \in 1..Len(data) : /\ data[j].bytes = read[IF j < i THEN j ELSE j + 1]
                                   /\ data[j].dev = IF j < i THEN Addr ELSE name
    BY <1>1, <1>4 DEF But, Carries
  <2>2. /\ Len(Published) + 1 = Len(read)
        /\ \A j \in 1..Len(Published) : Published[j] = read[IF j < i THEN j ELSE j + 1]
    BY <1>2, <2>1
  <2>3. Published = RemoveAt(read, i)
    BY <1>1, <1>2, <2>2, RemovedIs
  <2>. QED  BY <1>4, <2>1, <2>3 DEF Transparent
<1>5. ASSUME NEW i \in 1..Len(read) - 1, But(i, 1), IsPrefix(RegStart, read[i]), chan # "open"
      PROVE  Transparent
  <2>1. /\ Len(data) + 2 = Len(read)
        /\ \A j \in 1..Len(data) : /\ data[j].bytes = read[IF j < i THEN j ELSE j + 1]
                                   /\ data[j].dev = IF j < i THEN Addr ELSE name
    BY <1>1, <1>5 DEF But, Carries
  <2>2. /\ Front(read) \in Seq(Chunk) /\ Len(Front(read)) = Len(read) - 1
        /\ \A j \in 1..Len(read) - 1 : Front(read)[j] = read[j]
    <3>1. Front(read) = SubSeq(read, 1, Len(read) - 1)
      BY DEF Front
    <3>2. 1 \in 1..Len(read) + 1 /\ Len(read) - 1 \in 0..Len(read)
      BY <1>1, <1>5
    <3>. QED  BY <1>1, <3>1, <3>2, SubSeqProperties
  <2>3. /\ Len(Published) + 1 = Len(Front(read)) /\ i \in 1..Len(Front(read))
        /\ \A j \in 1..Len(Published) : Published[j] = Front(read)[IF j < i THEN j ELSE j + 1]
    <3>1. ASSUME NEW j \in 1..Len(Published)
          PROVE  Published[j] = Front(read)[IF j < i THEN j ELSE j + 1]
      <4>1. PICK m : m = IF j < i THEN j ELSE j + 1
        OBVIOUS
      <4>2. m \in 1..Len(read) - 1 /\ j \in 1..Len(data)
        BY <1>1, <1>2, <2>1, <4>1
      <4>3. Published[j] = read[m]
        BY <1>2, <2>1, <4>1, <4>2
      <4>. QED  BY <2>2, <4>1, <4>2, <4>3
    <3>. QED  BY <1>1, <1>2, <1>5, <2>1, <2>2, <3>1
  <2>4. Published = RemoveAt(Front(read), i)
    BY <1>2, <2>2, <2>3, RemovedIs
  <2>. QED  BY <1>5, <2>1, <2>4 DEF Transparent
<1>6. CASE Alive /\ registering
  BY <1>3, <1>6 DEF Inv, FlowInv
<1>7. CASE Alive /\ ~registering
  <2>1. PICK i \in 1..Len(read) : IsPrefix(RegStart, read[i]) /\ But(i, 0)
    BY <1>7 DEF Inv, FlowInv
  <2>. QED  BY <1>4, <2>1 DEF MayBeKept
<1>8. CASE ~Alive
  <2>1. chan # "open"
    BY <1>8 DEF Alive
  <2>2. ASSUME NEW i \in 1..Len(read), IsPrefix(RegStart, read[i]) \/ i = Len(read), But(i, 0)
        PROVE  Transparent
    BY <1>4, <2>1, <2>2 DEF MayBeKept
  <2>. QED  BY <1>3, <1>5, <1>8, <2>1, <2>2 DEF Inv, FlowInv
<1>. QED  BY <1>6, <1>7, <1>8

\* The variables of the connection keep their types: whatever TCP delivers,
\* what regByToken cuts out of it as the device id is a sequence of characters
\* and never an empty one.
THEOREM ChannelTypeCorrect == Spec => []ChannelTypeOK
<1>1. Inv => ChannelTypeOK
  BY DEF Inv, ChannelInv
<1>. QED  BY <1>1, ChannelInvariance, PTL

\* The pipeline of a gateway is transparent, however TCP cuts and joins what
\* the gateway sends: channelRead publishes it in order, adds nothing, and
\* keeps back no more than the chunk that registers the gateway and the one
\* that ends the connection.
THEOREM StaysTransparent == Spec => []Transparent
BY ChannelInvariance, TransparentFollows, PTL

\* A registration line that TCP delivers on its own is accepted by regByToken,
\* if it is the first chunk of its gateway that begins with the marker, and the
\* gateway goes by its id from then on.
THEOREM LinesAreTaken == Spec => []LinesRegister
<1>1. Inv => LinesRegister
  BY DEF Inv, LineInv, LinesRegister
<1>. QED  BY <1>1, ChannelInvariance, PTL
=============================================================================
