------------------------ MODULE CaptureThreadProofs ------------------------
(***************************************************************************)
(* Proofs about CaptureThread.tla, for every number of callback slots and  *)
(* either backend.  That every reference is owed once is inductive by      *)
(* itself: a call and a release change Windows' count and one stack by the *)
(* same kind.  The order of the releases needs to know what the stacks     *)
(* look like at each call: a prefix of what the function borrows.          *)
(***************************************************************************)
EXTENDS CaptureThread, FiniteSetTheorems, SequenceTheorems, TLAPS

\* All that the deferred calls of a function come to owe, outermost first; a
\* query by id runs on top of the query for the address.
Stack == [
    process |-> <<"process">>,
    other   |-> <<"process">>,
    url     |-> <<"com", "uia", "root">>,
    find    |-> <<"com", "uia", "root", "bstr", "cond", "found", "text">>,
    field   |-> <<"com", "uia", "focused", "isPassword">>,
    rect    |-> <<"com", "uia", "focused", "isPassword", "rectangle">>,
    open    |-> <<"dxgiDevice", "adapter", "output", "output1">>,
    reopen  |-> <<"dxgiDevice", "adapter", "output", "output1">>,
    frame   |-> <<"resource", "frame", "src", "staging", "mapped">>,
    gdi     |-> <<>>]
SessionStack == <<"device", "ctx", "dupl">>
HandleStack == <<"screenDC", "memDC", "bitmap">>

\* How much of it is there after m calls.
Depth(f, m) ==
    IF f = "find" THEN m + 3
    ELSE IF f = "frame" THEN (IF m = 0 THEN 0 ELSE m + 1)
    ELSE IF f \in {"open", "reopen"} THEN (IF m = 0 THEN 0 ELSE IF m = 6 THEN 4 ELSE m - 1)
    ELSE IF f = "gdi" THEN 0 ELSE m
SessionDepth(m) == IF m = 0 THEN 0 ELSE IF m = 6 THEN 3 ELSE 2
HandleDepth(m) == IF m < 3 THEN m ELSE 3

UpTo(s, t) == Len(s) <= Len(t) /\ \A i \in 1 .. Len(s) : s[i] = t[i]

Opening == {"open", "reopen"}

GotShape ==
    /\ at \notin Functions => got = <<>>
    /\ at \in Functions =>
          /\ UpTo(got, Stack[at])
          /\ n \in 0 .. Len(Calls[at])
          /\ Floor <= Len(got)
          /\ result = "calling" => Len(got) = Depth(at, n)
    /\ result = "lost" => at = "frame"

\* Between two functions a session is whole or not there; an access that was
\* lost, or the end, takes it apart.
SessionShape ==
    /\ UpTo(session, SessionStack)
    /\ at \in Opening /\ result = "calling" => Len(session) = SessionDepth(n)
    /\ at \in Opening /\ result = "ok" => Len(session) = 3
    /\ at \notin Opening \cup {"lost", "returned"} => Len(session) \in {0, 3}
    /\ at # "open" /\ ~dxgi => session = <<>>
    /\ at \in {"frame", "lost", "reopen"} => dxgi
    /\ at = "frame" /\ session = <<>> => n = 0 /\ got = <<>> /\ result = "calling"
    /\ at = "closed" => session = <<>>

HandleShape ==
    /\ UpTo(handles, HandleStack)
    /\ at = "gdi" /\ result = "calling" => Len(handles) = HandleDepth(n)
    /\ at = "gdi" /\ result = "ok" => Len(handles) = 3
    /\ at \notin {"gdi", "stopping"} => Len(handles) \in {0, 3}
    /\ at \in {"returned", "closed"} => handles = <<>>

IInv == TypeOK /\ OwedOnce /\ GotShape /\ SessionShape /\ HandleShape

-----------------------------------------------------------------------------
\* How many of a kind a stack holds.

\* A stack holds finitely many of a kind.
LEMMA CountType ==
    ASSUME NEW S, NEW s \in Seq(S), NEW k
    PROVE  Count(k, s) \in Nat /\ IsFiniteSet({i \in DOMAIN s : s[i] = k})
  <1> DEFINE At == {i \in DOMAIN s : s[i] = k}
  <1>1. IsFiniteSet(1 .. Len(s))
    BY FS_Interval
  <1>2. At \subseteq 1 .. Len(s)
    OBVIOUS
  <1>3. IsFiniteSet(At)
    BY <1>1, <1>2, FS_Subset
  <1>4. QED
    BY <1>3, FS_CardinalityType DEF Count

\* It holds one of them when one of its places is of that kind.
LEMMA CountPositive ==
    ASSUME NEW S, NEW s \in Seq(S), NEW k
    PROVE  Count(k, s) > 0 <=> \E i \in 1 .. Len(s) : s[i] = k
  <1> DEFINE At == {i \in DOMAIN s : s[i] = k}
  <1>1. IsFiniteSet(At) /\ Cardinality(At) \in Nat
    BY CountType DEF Count
  <1>2. Cardinality(At) = 0 <=> At = {}
    BY <1>1, FS_EmptySet
  <1>3. At = {} <=> ~ \E i \in 1 .. Len(s) : s[i] = k
    OBVIOUS
  <1> HIDE DEF At
  <1>4. QED
    BY <1>1, <1>2, <1>3 DEF Count, At

\* It holds at most one when no two places are of that kind.
LEMMA CountAtMostOne ==
    ASSUME NEW S, NEW s \in Seq(S), NEW k,
           \A i, j \in 1 .. Len(s) : s[i] = k /\ s[j] = k => i = j
    PROVE  Count(k, s) <= 1
  <1> DEFINE At == {i \in DOMAIN s : s[i] = k}
  <1>1. Count(k, s) = Cardinality(At)
    BY DEF Count
  <1>2. At = {} \/ \E i : At = {i}
    <2>1. CASE \E i \in 1 .. Len(s) : s[i] = k
      <3>1. PICK i \in 1 .. Len(s) : s[i] = k
        BY <2>1
      <3>2. At = {i}
        BY <3>1
      <3>3. QED
        BY <3>2
    <2>2. CASE ~ \E i \in 1 .. Len(s) : s[i] = k
      BY <2>2
    <2>3. QED
      BY <2>1, <2>2
  <1> HIDE DEF At
  <1>3. CASE At = {}
    BY <1>1, <1>3, FS_EmptySet
  <1>4. CASE \E i : At = {i}
    <2>1. Cardinality(At) = 1
      BY <1>4, FS_Singleton
    <2>2. QED
      BY <1>1, <2>1
  <1>5. QED
    BY <1>2, <1>3, <1>4

\* One more at the top counts for its own kind only.
LEMMA CountAppend ==
    ASSUME NEW S, NEW s \in Seq(S), NEW e \in S, NEW k
    PROVE  Count(k, Append(s, e)) = Count(k, s) + (IF k = e THEN 1 ELSE 0)
  <1> DEFINE At == {i \in DOMAIN s : s[i] = k}
             After == {i \in DOMAIN Append(s, e) : Append(s, e)[i] = k}
  <1>1. IsFiniteSet(At) /\ Count(k, s) = Cardinality(At) /\ Count(k, Append(s, e)) = Cardinality(After)
    BY CountType DEF Count
  <1>2. /\ Len(s) + 1 \notin At
        /\ After = IF k = e THEN At \cup {Len(s) + 1} ELSE At
    OBVIOUS
  <1> HIDE DEF At, After
  <1>3. Cardinality(At) \in Nat
    BY <1>1, FS_CardinalityType
  <1>4. Cardinality(At \cup {Len(s) + 1}) = Cardinality(At) + 1
    BY <1>1, <1>2, FS_AddElement
  <1>5. QED
    BY <1>1, <1>2, <1>3, <1>4

\* What one call gives: none, one or two.
LEMMA CountGiven ==
    ASSUME NEW k, NEW a
    PROVE  /\ Count(k, <<>>) = 0
           /\ Count(k, <<a>>) = IF k = a THEN 1 ELSE 0
  <1>1. Count(k, <<>>) = 0
    <2>1. {i \in DOMAIN <<>> : <<>>[i] = k} = {}
      OBVIOUS
    <2>2. QED
      BY <2>1, FS_EmptySet DEF Count
  <1>2. PICK S : a \in S
    <2>1. a \in {a}
      OBVIOUS
    <2>2. QED
      BY <2>1
  <1>3. <<>> \in Seq(S) /\ <<a>> \in Seq(S)
    BY <1>2
  <1>4. Append(<<>>, a) = <<a>>
    BY <1>2, <1>3, AppendProperties, SeqEqual
  <1>5. Count(k, Append(<<>>, a)) = Count(k, <<>>) + (IF k = a THEN 1 ELSE 0)
    BY <1>2, <1>3, CountAppend
  <1>6. QED
    BY <1>1, <1>4, <1>5

LEMMA CountTwo ==
    ASSUME NEW k, NEW a, NEW b
    PROVE  Count(k, <<a, b>>) = Count(k, <<a>>) + (IF k = b THEN 1 ELSE 0)
  <1>1. PICK S : a \in S /\ b \in S
    <2>1. a \in {a, b} /\ b \in {a, b}
      OBVIOUS
    <2>2. QED
      BY <2>1
  <1>2. <<a>> \in Seq(S) /\ <<a, b>> \in Seq(S)
    BY <1>1
  <1>3. Append(<<a>>, b) = <<a, b>>
    <2>1. /\ Append(<<a>>, b) \in Seq(S) /\ Len(Append(<<a>>, b)) = 2
          /\ Append(<<a>>, b)[1] = a /\ Append(<<a>>, b)[2] = b
      BY <1>1, <1>2, AppendProperties
    <2>2. Len(<<a, b>>) = 2 /\ \A i \in 1 .. 2 : Append(<<a>>, b)[i] = <<a, b>>[i]
      BY <2>1
    <2>3. QED
      BY <1>2, <2>1, <2>2, SeqEqual
  <1>4. Count(k, Append(<<a>>, b)) = Count(k, <<a>>) + (IF k = b THEN 1 ELSE 0)
    BY <1>1, <1>2, CountAppend
  <1>5. QED
    BY <1>3, <1>4

\* One less at the top.
LEMMA CountFront ==
    ASSUME NEW S, NEW s \in Seq(S), s # <<>>
    PROVE  /\ Front(s) \in Seq(S) /\ Last(s) \in S /\ Len(Front(s)) = Len(s) - 1
           /\ \A i \in 1 .. Len(s) - 1 : Front(s)[i] = s[i]
           /\ \A k : Count(k, s) = Count(k, Front(s)) + (IF k = Last(s) THEN 1 ELSE 0)
  <1>1. /\ Front(s) \in Seq(S) /\ Last(s) \in S /\ Len(Front(s)) = Len(s) - 1
        /\ \A i \in 1 .. Len(s) - 1 : Front(s)[i] = s[i]
    <2>1. Len(s) \in Nat \ {0} /\ Last(s) \in S
      BY DEF Last
    <2>2. \A i \in 1 .. Len(s) - 1 : s[i] \in S
      BY <2>1
    <2>3. /\ SubSeq(s, 1, Len(s) - 1) \in Seq(S)
          /\ Len(SubSeq(s, 1, Len(s) - 1)) = Len(s) - 1
          /\ \A i \in 1 .. Len(s) - 1 : SubSeq(s, 1, Len(s) - 1)[i] = s[i]
      <3> DEFINE m == Len(s) - 1
      <3>1. m \in Nat /\ \A i \in 1 .. m : s[i] \in S
        BY <2>1, <2>2
      <3> HIDE DEF m
      <3>2. /\ SubSeq(s, 1, m) \in Seq(S)
            /\ Len(SubSeq(s, 1, m)) = IF 1 <= m THEN m - 1 + 1 ELSE 0
            /\ \A i \in 1 .. m - 1 + 1 : SubSeq(s, 1, m)[i] = s[1 + i - 1]
        BY <3>1, SubSeqProperties
      <3>3. Len(SubSeq(s, 1, m)) = m /\ \A i \in 1 .. m : SubSeq(s, 1, m)[i] = s[i]
        BY <3>1, <3>2
      <3>4. QED
        BY <3>2, <3>3 DEF m
    <2>4. QED
      BY <2>1, <2>3 DEF Front
  <1>2. Append(Front(s), Last(s)) = s
    <2>1. /\ Append(Front(s), Last(s)) \in Seq(S) /\ Len(Append(Front(s), Last(s))) = Len(s)
          /\ \A i \in 1 .. Len(s) - 1 : Append(Front(s), Last(s))[i] = s[i]
          /\ Append(Front(s), Last(s))[Len(s)] = s[Len(s)]
      BY <1>1, AppendProperties DEF Last
    <2>2. \A i \in 1 .. Len(s) : Append(Front(s), Last(s))[i] = s[i]
      BY <2>1
    <2>3. QED
      BY <2>1, <2>2, SeqEqual
  <1>3. ASSUME NEW k
        PROVE  Count(k, s) = Count(k, Front(s)) + (IF k = Last(s) THEN 1 ELSE 0)
    <2>1. Count(k, Append(Front(s), Last(s))) = Count(k, Front(s)) + (IF k = Last(s) THEN 1 ELSE 0)
      BY <1>1, CountAppend
    <2>2. QED
      BY <1>2, <2>1
  <1>4. QED
    BY <1>1, <1>3

-----------------------------------------------------------------------------
\* What Windows gives and takes back.

StacksTyped ==
    /\ got \in Seq(Deferred) /\ session \in Seq(SessionKinds) /\ handles \in Seq(HandleKinds)
    /\ alive \in [Kinds -> Nat]

\* The owners share no kind.
LEMMA OwnersApart ==
    /\ Deferred \cap SessionKinds = {} /\ Deferred \cap HandleKinds = {}
    /\ SessionKinds \cap HandleKinds = {}
  BY DEF Deferred, SessionKinds, HandleKinds

\* What is given goes to the top of a stack.
LEMMA GivenOnTop ==
    ASSUME NEW S, NEW s \in Seq(S), NEW a \in S, NEW b \in S
    PROVE  /\ s \o <<>> = s
           /\ s \o <<a>> = Append(s, a)
           /\ s \o <<a, b>> = Append(Append(s, a), b)
  <1>1. s \o <<>> = s
    BY ConcatEmptySeq
  <1>2. s \o <<a>> = Append(s, a)
    BY AppendIsConcat
  <1>3. s \o <<a, b>> = Append(Append(s, a), b)
    <2>1. Append(s, a) \in Seq(S) /\ Append(Append(s, a), b) \in Seq(S)
      BY AppendProperties
    <2>2. /\ Len(Append(Append(s, a), b)) = Len(s) + 2
          /\ \A i \in 1 .. Len(s) : Append(Append(s, a), b)[i] = s[i]
          /\ Append(Append(s, a), b)[Len(s) + 1] = a
          /\ Append(Append(s, a), b)[Len(s) + 2] = b
      BY <2>1, AppendProperties
    <2>3. <<a, b>> \in Seq(S) /\ Len(<<a, b>>) = 2
      OBVIOUS
    <2>4. /\ s \o <<a, b>> \in Seq(S) /\ Len(s \o <<a, b>>) = Len(s) + 2
          /\ \A i \in 1 .. Len(s) + 2 : (s \o <<a, b>>)[i] = IF i <= Len(s) THEN s[i] ELSE <<a, b>>[i - Len(s)]
      BY <2>3, ConcatProperties
    <2>5. \A i \in 1 .. Len(s) + 2 : (s \o <<a, b>>)[i] = Append(Append(s, a), b)[i]
      BY <2>2, <2>4
    <2>6. QED
      BY <2>1, <2>2, <2>4, <2>5, SeqEqual
  <1>4. QED
    BY <1>1, <1>2, <1>3

LEMMA GivenRange ==
    ASSUME NEW a, NEW b
    PROVE  Range(<<>>) = {} /\ Range(<<a>>) = {a} /\ Range(<<a, b>>) = {a, b}
  <1>1. Range(<<>>) = {}
    BY DEF Range
  <1>2. Range(<<a>>) = {a}
    BY DEF Range
  <1>3. Range(<<a, b>>) = {a, b}
    BY DEF Range
  <1>4. QED
    BY <1>1, <1>2, <1>3

\* A call that gives nothing changes nothing.
LEMMA GiveNone ==
    ASSUME StacksTyped, OwedOnce, Give(<<>>)
    PROVE  /\ got' = got /\ session' = session /\ handles' = handles
           /\ StacksTyped' /\ OwedOnce'
  <1>1. Range(<<>>) = {}
    BY GivenRange
  <1>2. got' = got /\ session' = session /\ handles' = handles
    BY <1>1, ConcatEmptySeq DEF Give, Pushed, StacksTyped
  <1>3. alive' = alive
    <2>1. alive' = [k \in Kinds |-> alive[k] + Count(k, <<>>)]
      BY DEF Give
    <2>2. \A k \in Kinds : Count(k, <<>>) = 0
      BY CountGiven
    <2>3. QED
      BY <2>1, <2>2 DEF StacksTyped
  <1>4. QED
    BY <1>2, <1>3 DEF StacksTyped, OwedOnce

\* One reference: one owner owes one more release, and Windows counts one more.
LEMMA GiveOne ==
    ASSUME StacksTyped, OwedOnce, NEW e \in Kinds, Give(<<e>>)
    PROVE  /\ got' = IF e \in Deferred THEN Append(got, e) ELSE got
           /\ session' = IF e \in SessionKinds THEN Append(session, e) ELSE session
           /\ handles' = IF e \in HandleKinds THEN Append(handles, e) ELSE handles
           /\ StacksTyped' /\ OwedOnce'
  <1>1. Range(<<e>>) = {e}
    BY GivenRange
  <1>2. /\ got' = IF e \in Deferred THEN Append(got, e) ELSE got
        /\ session' = IF e \in SessionKinds THEN Append(session, e) ELSE session
        /\ handles' = IF e \in HandleKinds THEN Append(handles, e) ELSE handles
    BY <1>1, GivenOnTop DEF Give, Pushed, StacksTyped
  <1>3. got' \in Seq(Deferred) /\ session' \in Seq(SessionKinds) /\ handles' \in Seq(HandleKinds)
    BY <1>2, AppendProperties DEF StacksTyped
  <1>4. \A k \in Kinds : alive'[k] = alive[k] + (IF k = e THEN 1 ELSE 0)
    BY CountGiven DEF Give
  <1>5. alive' \in [Kinds -> Nat]
    <2>1. alive' = [k \in Kinds |-> alive'[k]]
      BY DEF Give
    <2>2. \A k \in Kinds : alive'[k] \in Nat
      BY <1>4 DEF StacksTyped
    <2>3. QED
      BY <2>1, <2>2
  <1>6. ASSUME NEW k \in Kinds
        PROVE  alive'[k] = Count(k, got') + Count(k, session') + Count(k, handles')
    <2>1. /\ Count(k, got) \in Nat /\ Count(k, session) \in Nat /\ Count(k, handles) \in Nat
          /\ alive[k] = Count(k, got) + Count(k, session) + Count(k, handles)
      BY CountType DEF StacksTyped, OwedOnce
    <2>2. /\ e \in Deferred => Count(k, got') = Count(k, got) + (IF k = e THEN 1 ELSE 0)
          /\ e \in SessionKinds => Count(k, session') = Count(k, session) + (IF k = e THEN 1 ELSE 0)
          /\ e \in HandleKinds => Count(k, handles') = Count(k, handles) + (IF k = e THEN 1 ELSE 0)
      BY <1>2, CountAppend DEF StacksTyped
    <2>3. QED
      BY <1>2, <1>4, <2>1, <2>2, OwnersApart DEF Kinds
  <1>7. QED
    BY <1>2, <1>3, <1>5, <1>6 DEF StacksTyped, OwedOnce

\* Two references of one owner are given one after the other.
LEMMA GiveTwo ==
    ASSUME StacksTyped, OwedOnce, NEW a, NEW b, a # b, Give(<<a, b>>),
           {a, b} \subseteq Deferred \/ {a, b} \subseteq SessionKinds
    PROVE  /\ got' = IF a \in Deferred THEN Append(Append(got, a), b) ELSE got
           /\ session' = IF a \in SessionKinds THEN Append(Append(session, a), b) ELSE session
           /\ handles' = handles
           /\ StacksTyped' /\ OwedOnce'
  <1>1. Range(<<a, b>>) = {a, b}
    BY GivenRange
  <1>2. /\ got' = IF a \in Deferred THEN Append(Append(got, a), b) ELSE got
        /\ session' = IF a \in SessionKinds THEN Append(Append(session, a), b) ELSE session
        /\ handles' = handles
    <2>1. CASE {a, b} \subseteq Deferred
      <3>1. got \o <<a, b>> = Append(Append(got, a), b)
        BY <2>1, GivenOnTop DEF StacksTyped
      <3>2. QED
        BY <1>1, <2>1, <3>1, OwnersApart DEF Give, Pushed
    <2>2. CASE {a, b} \subseteq SessionKinds
      <3>1. session \o <<a, b>> = Append(Append(session, a), b)
        BY <2>2, GivenOnTop DEF StacksTyped
      <3>2. QED
        BY <1>1, <2>2, <3>1, OwnersApart DEF Give, Pushed
    <2>3. QED
      BY <2>1, <2>2
  <1>3. /\ a \in Deferred => Append(got, a) \in Seq(Deferred)
        /\ a \in SessionKinds => Append(session, a) \in Seq(SessionKinds)
    BY AppendProperties DEF StacksTyped
  <1>4. got' \in Seq(Deferred) /\ session' \in Seq(SessionKinds) /\ handles' \in Seq(HandleKinds)
    BY <1>2, <1>3, AppendProperties, OwnersApart DEF StacksTyped
  <1>5. \A k \in Kinds : alive'[k] = alive[k] + (IF k = a THEN 1 ELSE 0) + (IF k = b THEN 1 ELSE 0)
    <2>1. \A k \in Kinds : alive'[k] = alive[k] + Count(k, <<a, b>>) /\ alive[k] \in Nat
      BY DEF Give, StacksTyped
    <2>2. ASSUME NEW k
          PROVE  Count(k, <<a, b>>) = (IF k = a THEN 1 ELSE 0) + (IF k = b THEN 1 ELSE 0)
      <3>1. Count(k, <<a, b>>) = Count(k, <<a>>) + (IF k = b THEN 1 ELSE 0)
        BY CountTwo
      <3>2. Count(k, <<a>>) = IF k = a THEN 1 ELSE 0
        BY CountGiven
      <3>3. QED
        BY <3>1, <3>2
    <2>3. QED
      BY <2>1, <2>2
  <1>6. alive' \in [Kinds -> Nat]
    <2>1. alive' = [k \in Kinds |-> alive'[k]]
      BY DEF Give
    <2>2. \A k \in Kinds : alive'[k] \in Nat
      BY <1>5 DEF StacksTyped
    <2>3. QED
      BY <2>1, <2>2
  <1>7. ASSUME NEW k \in Kinds
        PROVE  alive'[k] = Count(k, got') + Count(k, session') + Count(k, handles')
    <2>1. /\ Count(k, got) \in Nat /\ Count(k, session) \in Nat /\ Count(k, handles) \in Nat
          /\ alive[k] = Count(k, got) + Count(k, session) + Count(k, handles)
      BY CountType DEF StacksTyped, OwedOnce
    <2>2. CASE {a, b} \subseteq Deferred
      <3>1. Count(k, Append(got, a)) = Count(k, got) + (IF k = a THEN 1 ELSE 0)
        BY <2>2, CountAppend DEF StacksTyped
      <3>2. Count(k, Append(Append(got, a), b)) = Count(k, Append(got, a)) + (IF k = b THEN 1 ELSE 0)
        BY <1>3, <2>2, CountAppend
      <3>3. QED
        BY <1>2, <1>5, <2>1, <2>2, <3>1, <3>2, OwnersApart
    <2>3. CASE {a, b} \subseteq SessionKinds
      <3>1. Count(k, Append(session, a)) = Count(k, session) + (IF k = a THEN 1 ELSE 0)
        BY <2>3, CountAppend DEF StacksTyped
      <3>2. Count(k, Append(Append(session, a), b)) = Count(k, Append(session, a)) + (IF k = b THEN 1 ELSE 0)
        BY <1>3, <2>3, CountAppend
      <3>3. QED
        BY <1>2, <1>5, <2>1, <2>3, <3>1, <3>2, OwnersApart
    <2>4. QED
      BY <2>2, <2>3
  <1>8. QED
    BY <1>2, <1>4, <1>6, <1>7 DEF StacksTyped, OwedOnce

\* A release takes the top of one stack, which Windows still counts.
LEMMA TakenBack ==
    ASSUME StacksTyped, OwedOnce,
           \/ got # <<>> /\ PopGot /\ UNCHANGED <<session, handles>>
           \/ session # <<>> /\ PopSession /\ UNCHANGED <<got, handles>>
           \/ handles # <<>> /\ PopHandles /\ UNCHANGED <<got, session>>
    PROVE  StacksTyped' /\ OwedOnce'
  <1>1. ASSUME NEW S, S \subseteq Kinds, NEW s \in Seq(S), s # <<>>, TakeBack(Last(s)),
               \A k \in Kinds : Count(k, s) <= alive[k]
        PROVE  /\ alive' \in [Kinds -> Nat]
               /\ \A k \in Kinds : alive'[k] = alive[k] - (Count(k, s) - Count(k, Front(s)))
    <2>1. /\ Last(s) \in Kinds /\ Front(s) \in Seq(S)
          /\ \A k : Count(k, s) = Count(k, Front(s)) + (IF k = Last(s) THEN 1 ELSE 0)
      BY <1>1, CountFront
    <2>2. \A k : Count(k, s) \in Nat /\ Count(k, Front(s)) \in Nat
      BY <2>1, CountType
    <2>3. alive[Last(s)] \in Nat \ {0}
      BY <1>1, <2>1, <2>2 DEF StacksTyped
    <2>4. QED
      BY <1>1, <2>1, <2>2, <2>3 DEF TakeBack, StacksTyped
  <1>2. \A k \in Kinds : /\ Count(k, got) \in Nat /\ Count(k, session) \in Nat /\ Count(k, handles) \in Nat
                         /\ alive[k] = Count(k, got) + Count(k, session) + Count(k, handles)
    BY CountType DEF StacksTyped, OwedOnce
  <1>3. Deferred \subseteq Kinds /\ SessionKinds \subseteq Kinds /\ HandleKinds \subseteq Kinds
    BY DEF Kinds
  <1>4. CASE got # <<>> /\ PopGot /\ UNCHANGED <<session, handles>>
    <2>1. got' \in Seq(Deferred) /\ \A k : Count(k, got') \in Nat
      BY <1>4, CountFront, CountType DEF PopGot, StacksTyped
    <2>2. alive' \in [Kinds -> Nat] /\ \A k \in Kinds : alive'[k] = alive[k] - (Count(k, got) - Count(k, got'))
      <3>1. Deferred \subseteq Kinds /\ got \in Seq(Deferred) /\ got # <<>>
        BY <1>3, <1>4 DEF StacksTyped
      <3>2. TakeBack(Last(got)) /\ got' = Front(got)
        BY <1>4 DEF PopGot
      <3>3. \A k \in Kinds : Count(k, got) <= alive[k]
        BY <1>2
      <3>4. QED
        BY <1>1, <3>1, <3>2, <3>3
    <2>3. QED
      BY <1>2, <1>4, <2>1, <2>2 DEF StacksTyped, OwedOnce
  <1>5. CASE session # <<>> /\ PopSession /\ UNCHANGED <<got, handles>>
    <2>1. session' \in Seq(SessionKinds) /\ \A k : Count(k, session') \in Nat
      BY <1>5, CountFront, CountType DEF PopSession, StacksTyped
    <2>2. alive' \in [Kinds -> Nat] /\ \A k \in Kinds : alive'[k] = alive[k] - (Count(k, session) - Count(k, session'))
      <3>1. SessionKinds \subseteq Kinds /\ session \in Seq(SessionKinds) /\ session # <<>>
        BY <1>3, <1>5 DEF StacksTyped
      <3>2. TakeBack(Last(session)) /\ session' = Front(session)
        BY <1>5 DEF PopSession
      <3>3. \A k \in Kinds : Count(k, session) <= alive[k]
        BY <1>2
      <3>4. QED
        BY <1>1, <3>1, <3>2, <3>3
    <2>3. QED
      BY <1>2, <1>5, <2>1, <2>2 DEF StacksTyped, OwedOnce
  <1>6. CASE handles # <<>> /\ PopHandles /\ UNCHANGED <<got, session>>
    <2>1. handles' \in Seq(HandleKinds) /\ \A k : Count(k, handles') \in Nat
      BY <1>6, CountFront, CountType DEF PopHandles, StacksTyped
    <2>2. alive' \in [Kinds -> Nat] /\ \A k \in Kinds : alive'[k] = alive[k] - (Count(k, handles) - Count(k, handles'))
      <3>1. HandleKinds \subseteq Kinds /\ handles \in Seq(HandleKinds) /\ handles # <<>>
        BY <1>3, <1>6 DEF StacksTyped
      <3>2. TakeBack(Last(handles)) /\ handles' = Front(handles)
        BY <1>6 DEF PopHandles
      <3>3. \A k \in Kinds : Count(k, handles) <= alive[k]
        BY <1>2
      <3>4. QED
        BY <1>1, <3>1, <3>2, <3>3
    <2>3. QED
      BY <1>2, <1>6, <2>1, <2>2 DEF StacksTyped, OwedOnce
  <1>7. QED
    BY <1>4, <1>5, <1>6

-----------------------------------------------------------------------------
\* The calls of the functions, one by one.

LEMMA FunctionNames ==
    Functions = {"process", "other", "url", "find", "field", "rect", "open", "reopen", "frame", "gdi"}
  BY DEF Functions, Calls

\* No function makes more than six calls.
LEMMA CallsLength ==
    /\ Len(Calls["process"]) = 1 /\ Len(Calls["other"]) = 1 /\ Len(Calls["url"]) = 3
    /\ Len(Calls["find"]) = 4 /\ Len(Calls["field"]) = 4 /\ Len(Calls["rect"]) = 5
    /\ Len(Calls["open"]) = 6 /\ Len(Calls["reopen"]) = 6 /\ Len(Calls["frame"]) = 4
    /\ Len(Calls["gdi"]) = 5 /\ Len(OpenSession) = 6
    /\ \A f \in Functions : Len(Calls[f]) \in 1 .. 6
  <1>1. /\ Len(Calls["process"]) = 1 /\ Len(Calls["other"]) = 1 /\ Len(Calls["url"]) = 3
        /\ Len(Calls["find"]) = 4 /\ Len(Calls["frame"]) = 4 /\ Len(Calls["gdi"]) = 5
    BY DEF Calls
  <1>2. Len(Calls["field"]) = 4 /\ Len(Calls["rect"]) = 5
    BY DEF Calls, Focused
  <1>3. Len(Calls["open"]) = 6 /\ Len(Calls["reopen"]) = 6 /\ Len(OpenSession) = 6
    BY DEF Calls, OpenSession
  <1>4. QED
    BY <1>1, <1>2, <1>3, FunctionNames

LEMMA StacksOfKinds ==
    /\ SessionStack \in Seq(SessionKinds) /\ HandleStack \in Seq(HandleKinds)
    /\ Len(SessionStack) = 3 /\ Len(HandleStack) = 3
    /\ \A f \in Functions : Stack[f] \in Seq(Deferred)
  <1>1. SessionStack \in Seq(SessionKinds) /\ Len(SessionStack) = 3
    BY DEF SessionStack, SessionKinds
  <1>2. HandleStack \in Seq(HandleKinds) /\ Len(HandleStack) = 3
    BY DEF HandleStack, HandleKinds
  <1>3. /\ Stack["process"] \in Seq(Deferred) /\ Stack["other"] \in Seq(Deferred)
        /\ Stack["url"] \in Seq(Deferred) /\ Stack["find"] \in Seq(Deferred)
        /\ Stack["field"] \in Seq(Deferred) /\ Stack["rect"] \in Seq(Deferred)
    BY DEF Stack, Deferred
  <1>4. /\ Stack["open"] \in Seq(Deferred) /\ Stack["reopen"] \in Seq(Deferred)
        /\ Stack["frame"] \in Seq(Deferred) /\ Stack["gdi"] \in Seq(Deferred)
    BY DEF Stack, Deferred
  <1>5. QED
    BY <1>1, <1>2, <1>3, <1>4, FunctionNames

\* The call after the first m gives what comes next on the stack.
GivesNext(f, m) ==
    /\ Depth(f, m) < Len(Stack[f])
    /\ Depth(f, m + 1) = Depth(f, m) + 1
    /\ Stack[f][Depth(f, m + 1)] \in Deferred
    /\ Calls[f][m + 1] = <<Stack[f][Depth(f, m + 1)]>>

LEMMA NextOfQueries ==
    /\ \A m \in {0} : GivesNext("process", m) /\ GivesNext("other", m)
    /\ \A m \in 0 .. 2 : GivesNext("url", m)
    /\ \A m \in 0 .. 3 : GivesNext("find", m) /\ GivesNext("field", m)
    /\ \A m \in 0 .. 4 : GivesNext("rect", m)
  <1> USE DEF GivesNext, Depth, Deferred, Stack, Calls, Focused
  <1>1. \A m \in {0} : GivesNext("process", m) /\ GivesNext("other", m)
    OBVIOUS
  <1>2. ASSUME NEW m \in 0 .. 2 PROVE GivesNext("url", m)
    <2>1. m \in {0, 1, 2}
      OBVIOUS
    <2>2. QED
      BY <2>1
  <1>3. ASSUME NEW m \in 0 .. 3 PROVE GivesNext("find", m) /\ GivesNext("field", m)
    <2>1. m \in {0, 1, 2, 3}
      OBVIOUS
    <2>2. GivesNext("find", m)
      BY <2>1
    <2>3. GivesNext("field", m)
      BY <2>1
    <2>4. QED
      BY <2>2, <2>3
  <1>4. ASSUME NEW m \in 0 .. 4 PROVE GivesNext("rect", m)
    <2>1. m \in {0, 1, 2, 3, 4}
      OBVIOUS
    <2>2. QED
      BY <2>1
  <1>5. QED
    BY <1>1, <1>2, <1>3, <1>4

\* OpenDXGISession: device and context first, the duplication last.
LEMMA NextOfOpening ==
    ASSUME NEW f \in Opening
    PROVE  /\ Calls[f][1] = <<"device", "ctx">>
           /\ \A m \in 1 .. 4 : GivesNext(f, m)
           /\ Calls[f][6] = <<"dupl">>
  <1>1. Calls[f] = OpenSession
    BY DEF Opening, Calls
  <1>2. Stack[f] = <<"dxgiDevice", "adapter", "output", "output1">>
    BY DEF Opening, Stack
  <1>3. Calls[f][1] = <<"device", "ctx">> /\ Calls[f][6] = <<"dupl">>
    BY <1>1 DEF OpenSession
  <1>4. ASSUME NEW m \in 1 .. 4 PROVE GivesNext(f, m)
    <2>1. m \in {1, 2, 3, 4}
      OBVIOUS
    <2>2. Depth(f, m) = m - 1 /\ Depth(f, m + 1) = m
      BY DEF Depth, Opening
    <2>3. QED
      BY <1>1, <1>2, <2>1, <2>2 DEF GivesNext, OpenSession, Deferred
  <1>5. QED
    BY <1>3, <1>4

LEMMA NextOfFrame ==
    /\ Calls["frame"][1] = <<"resource", "frame">>
    /\ \A m \in 1 .. 3 : GivesNext("frame", m)
  <1>1. Calls["frame"][1] = <<"resource", "frame">>
    BY DEF Calls
  <1>2. ASSUME NEW m \in 1 .. 3 PROVE GivesNext("frame", m)
    <2>1. m \in {1, 2, 3}
      OBVIOUS
    <2>2. QED
      BY <2>1 DEF GivesNext, Depth, Deferred, Stack, Calls
  <1>3. QED
    BY <1>1, <1>2

LEMMA NextOfGDI ==
    /\ \A m \in 0 .. 2 : Calls["gdi"][m + 1] = <<HandleStack[m + 1]>>
    /\ \A m \in 3 .. 4 : Calls["gdi"][m + 1] = <<>>
  <1>1. ASSUME NEW m \in 0 .. 2 PROVE Calls["gdi"][m + 1] = <<HandleStack[m + 1]>>
    <2>1. m \in {0, 1, 2}
      OBVIOUS
    <2>2. QED
      BY <2>1 DEF Calls, HandleStack
  <1>2. ASSUME NEW m \in 3 .. 4 PROVE Calls["gdi"][m + 1] = <<>>
    <2>1. m \in {3, 4}
      OBVIOUS
    <2>2. QED
      BY <2>1 DEF Calls
  <1>3. QED
    BY <1>1, <1>2

\* A stack that grows as foreseen, or shrinks, stays as foreseen.
LEMMA UpToAppend ==
    ASSUME NEW S, NEW s \in Seq(S), NEW t \in Seq(S), UpTo(s, t), Len(s) < Len(t)
    PROVE  /\ t[Len(s) + 1] \in S
           /\ UpTo(Append(s, t[Len(s) + 1]), t)
           /\ Len(Append(s, t[Len(s) + 1])) = Len(s) + 1
  BY DEF UpTo

LEMMA UpToFront ==
    ASSUME NEW S, NEW s \in Seq(S), NEW t \in Seq(S), UpTo(s, t), s # <<>>
    PROVE  /\ UpTo(Front(s), t)
           /\ Len(Front(s)) = Len(s) - 1
  BY CountFront DEF UpTo

-----------------------------------------------------------------------------
\* Every step keeps the invariant.

\* A thread that starts owes nothing (NewWindowsCapturer).
LEMMA InitIInv == Init => IInv
  <1> SUFFICES ASSUME Init PROVE IInv
    OBVIOUS
  <1>1. /\ got = <<>> /\ session = <<>> /\ handles = <<>> /\ n = 0 /\ result = "calling"
        /\ at \in {"open", "waiting"} /\ dxgi = FALSE
    BY DEF Init
  <1>2. TypeOK
    <2>1. tried \in 0 .. 2 /\ slots \in 0 .. Slots
      BY SlotsAssumption DEF Init
    <2>5. dxgi \in BOOLEAN /\ stop \in BOOLEAN
      BY Zenon DEF Init
    <2>2. alive \in [Kinds -> Nat]
      BY DEF Init
    <2>3. at \in Functions \cup Between
      BY <1>1, FunctionNames DEF Between
    <2>4. QED
      BY <1>1, <2>1, <2>2, <2>3, <2>5 DEF TypeOK
  <1>3. OwedOnce
    <2>1. ASSUME NEW k \in Kinds
          PROVE  alive[k] = Count(k, <<>>) + Count(k, <<>>) + Count(k, <<>>)
      <3>1. Count(k, <<>>) = 0
        BY CountGiven
      <3>2. alive[k] = 0
        BY DEF Init
      <3>3. QED
        BY <3>1, <3>2
    <2>2. QED
      BY <1>1, <2>1 DEF OwedOnce
  <1>4. GotShape
    BY <1>1, CallsLength, StacksOfKinds DEF GotShape, UpTo, Depth, Floor
  <1>5. SessionShape /\ HandleShape
    BY <1>1, StacksOfKinds DEF SessionShape, HandleShape, UpTo, SessionDepth, Opening
  <1>6. QED
    BY <1>2, <1>3, <1>4, <1>5 DEF IInv

\* A call that gives one deferred reference.
LEMMA NextKeeps ==
    ASSUME IInv, at \in Functions, result = "calling", n < Len(Calls[at]),
           GivesNext(at, n), Give(Calls[at][n + 1]),
           n' = n + 1, UNCHANGED <<at, result>>
    PROVE  /\ GotShape' /\ StacksTyped' /\ OwedOnce'
           /\ session' = session /\ handles' = handles
  <1> DEFINE e == Stack[at][Depth(at, n + 1)]
  <1>1. /\ StacksTyped /\ OwedOnce /\ UpTo(got, Stack[at]) /\ Len(got) = Depth(at, n)
        /\ n \in Nat /\ Floor <= Len(got) /\ Floor \in Nat /\ Len(Calls[at]) \in Nat
    BY CallsLength DEF IInv, TypeOK, StacksTyped, GotShape, Floor
  <1>2. /\ Calls[at][n + 1] = <<e>> /\ e \in Deferred /\ Len(got) < Len(Stack[at])
        /\ Depth(at, n + 1) = Len(got) + 1
    BY <1>1 DEF GivesNext
  <1>3. e \in Kinds /\ e \notin SessionKinds /\ e \notin HandleKinds
    BY <1>2, OwnersApart DEF Kinds
  <1> HIDE DEF e
  <1>4. /\ got' = Append(got, e) /\ session' = session /\ handles' = handles
        /\ StacksTyped' /\ OwedOnce'
    BY <1>1, <1>2, <1>3, GiveOne
  <1>5. UpTo(got', Stack[at]) /\ Len(got') = Depth(at, n + 1)
    <2>1. e = Stack[at][Len(got) + 1]
      BY <1>2 DEF e
    <2>2. QED
      BY <1>1, <1>2, <1>4, <2>1, UpToAppend, StacksOfKinds DEF StacksTyped
  <1>6. Floor' = Floor
    BY DEF Floor
  <1>7. GotShape'
    BY <1>1, <1>2, <1>5, <1>6 DEF GotShape
  <1>8. QED
    BY <1>4, <1>7

\* What is left of IInv once the stacks are known to be right.
LEMMA Assembled ==
    ASSUME TypeOK, StacksTyped', OwedOnce', GotShape', SessionShape', HandleShape',
           at' \in Functions \cup Between, n' \in 0 .. 6,
           result' \in {"calling", "ok", "failed", "lost"},
           dxgi' \in BOOLEAN, tried' \in 0 .. 2, slots' \in 0 .. Slots, stop' \in BOOLEAN
    PROVE  IInv'
  BY DEF IInv, TypeOK, StacksTyped

\* A call that succeeds.
LEMMA AcquireKeeps ==
    ASSUME IInv, Acquire
    PROVE  IInv'
  <1>1. /\ at \in Functions /\ result = "calling" /\ n < Len(Calls[at]) /\ n' = n + 1
        /\ UNCHANGED <<at, result, dxgi, tried, slots, stop>>
        /\ Give(Calls[at][n + 1])
        /\ at = "frame" => session # <<>>
    BY DEF Acquire
  <1>2. /\ TypeOK /\ StacksTyped /\ OwedOnce /\ GotShape /\ SessionShape /\ HandleShape
        /\ n \in Nat /\ Len(Calls[at]) \in 1 .. 6
    BY <1>1, CallsLength DEF IInv, TypeOK, StacksTyped
  <1>3. n' \in 0 .. 6 /\ n' \in 0 .. Len(Calls[at])
    BY <1>1, <1>2
  <1>4. ASSUME GotShape', StacksTyped', OwedOnce', SessionShape', HandleShape'
        PROVE  IInv'
    BY <1>1, <1>2, <1>3, <1>4, Assembled DEF TypeOK
  <1>5. ASSUME GivesNext(at, n), at \notin Opening \/ n \in 1 .. 4, at # "gdi"
        PROVE  IInv'
    <2>1. GotShape' /\ StacksTyped' /\ OwedOnce' /\ session' = session /\ handles' = handles
      BY <1>1, <1>2, <1>5, NextKeeps
    <2>2. SessionShape'
      BY <1>1, <1>2, <1>5, <2>1 DEF SessionShape, SessionDepth, Opening
    <2>3. HandleShape'
      BY <1>1, <1>2, <1>5, <2>1 DEF HandleShape
    <2>4. QED
      BY <1>4, <2>1, <2>2, <2>3
  <1>6. CASE at \in {"process", "other", "url", "find", "field", "rect"}
    <2>1. GivesNext(at, n)
      <3>1. CASE at \in {"process", "other"}
        BY <1>1, <1>2, <3>1, CallsLength, NextOfQueries
      <3>2. CASE at = "url"
        BY <1>1, <1>2, <3>2, CallsLength, NextOfQueries
      <3>3. CASE at \in {"find", "field"}
        BY <1>1, <1>2, <3>3, CallsLength, NextOfQueries
      <3>4. CASE at = "rect"
        BY <1>1, <1>2, <3>4, CallsLength, NextOfQueries
      <3>5. QED
        BY <1>6, <3>1, <3>2, <3>3, <3>4
    <2>2. QED
      BY <1>5, <1>6, <2>1 DEF Opening
  <1>7. CASE at \in Opening
    <2>1. CASE n \in 1 .. 4
      BY <1>5, <1>7, <2>1, NextOfOpening DEF Opening
    <2>2. CASE n = 0
      <3>1. Give(<<"device", "ctx">>) /\ {"device", "ctx"} \subseteq SessionKinds /\ "device" \notin Deferred
        BY <1>1, <1>7, <2>2, NextOfOpening DEF SessionKinds, Deferred
      <3>2. /\ got' = got /\ session' = Append(Append(session, "device"), "ctx") /\ handles' = handles
            /\ StacksTyped' /\ OwedOnce'
        BY <1>2, <3>1, GiveTwo
      <3>3. session = <<>> /\ got = <<>>
        BY <1>1, <1>2, <1>7, <2>2 DEF SessionShape, SessionDepth, GotShape, Depth, StacksTyped, Opening
      <3>4. session'[1] = "device" /\ session'[2] = "ctx" /\ Len(session') = 2
        BY <3>2, <3>3
      <3>5. SessionShape'
        BY <1>1, <1>2, <1>7, <2>2, <3>2, <3>3, <3>4, StacksOfKinds
           DEF SessionShape, SessionDepth, UpTo, SessionStack, Opening
      <3>6. GotShape' /\ HandleShape'
        BY <1>1, <1>2, <1>3, <1>7, <2>2, <3>2, <3>3
           DEF GotShape, HandleShape, Depth, UpTo, Floor, Opening
      <3>7. QED
        BY <1>4, <3>2, <3>5, <3>6
    <2>3. CASE n = 5
      <3>1. Give(<<"dupl">>) /\ "dupl" \in SessionKinds /\ "dupl" \notin Deferred
            /\ "dupl" \notin HandleKinds /\ "dupl" \in Kinds
        BY <1>1, <1>7, <2>3, NextOfOpening DEF SessionKinds, Deferred, HandleKinds, Kinds
      <3>2. /\ got' = got /\ session' = Append(session, "dupl") /\ handles' = handles
            /\ StacksTyped' /\ OwedOnce'
        BY <1>2, <3>1, GiveOne
      <3>3. Len(session) = 2 /\ Len(got) = 4
        BY <1>1, <1>2, <1>7, <2>3 DEF SessionShape, SessionDepth, GotShape, Depth, Opening
      <3>4. SessionStack[Len(session) + 1] = "dupl"
        BY <3>3 DEF SessionStack
      <3>5. UpTo(session', SessionStack) /\ Len(session') = 3
        <4>1. /\ session \in Seq(SessionKinds) /\ SessionStack \in Seq(SessionKinds)
              /\ UpTo(session, SessionStack) /\ Len(session) < Len(SessionStack)
          BY <1>2, <3>3, StacksOfKinds DEF SessionShape, StacksTyped
        <4>2. /\ UpTo(Append(session, SessionStack[Len(session) + 1]), SessionStack)
              /\ Len(Append(session, SessionStack[Len(session) + 1])) = Len(session) + 1
          BY <4>1, UpToAppend
        <4>3. QED
          BY <3>2, <3>3, <3>4, <4>2
      <3>6. SessionShape'
        BY <1>1, <1>2, <1>7, <2>3, <3>5 DEF SessionShape, SessionDepth, Opening
      <3>7. GotShape' /\ HandleShape'
        BY <1>1, <1>2, <1>3, <1>7, <2>3, <3>2, <3>3
           DEF GotShape, HandleShape, Depth, Floor, Opening
      <3>8. QED
        BY <1>4, <3>2, <3>6, <3>7
    <2>4. n \in 0 .. 5
      <3>1. n < 6
        BY <1>1, <1>7, CallsLength DEF Opening
      <3>2. QED
        BY <1>2, <3>1
    <2>5. QED
      BY <2>1, <2>2, <2>3, <2>4
  <1>8. CASE at = "frame"
    <2>1. CASE n \in 1 .. 3
      BY <1>5, <1>8, <2>1, NextOfFrame DEF Opening
    <2>2. CASE n = 0
      <3>1. Give(<<"resource", "frame">>) /\ {"resource", "frame"} \subseteq Deferred
            /\ "resource" \notin SessionKinds
        BY <1>1, <1>8, <2>2, NextOfFrame DEF SessionKinds, Deferred
      <3>2. /\ got' = Append(Append(got, "resource"), "frame") /\ session' = session /\ handles' = handles
            /\ StacksTyped' /\ OwedOnce'
        BY <1>2, <3>1, GiveTwo
      <3>3. got = <<>>
        BY <1>1, <1>2, <1>8, <2>2 DEF GotShape, Depth, StacksTyped
      <3>4. got'[1] = "resource" /\ got'[2] = "frame" /\ Len(got') = 2
        BY <3>2, <3>3
      <3>5. UpTo(got', Stack["frame"])
        BY <3>4 DEF UpTo, Stack
      <3>6. GotShape'
        BY <1>1, <1>2, <1>3, <1>8, <2>2, <3>4, <3>5 DEF GotShape, Depth, Floor
      <3>7. SessionShape' /\ HandleShape'
        BY <1>1, <1>2, <1>8, <3>2 DEF SessionShape, HandleShape, Opening
      <3>8. QED
        BY <1>4, <3>2, <3>6, <3>7
    <2>3. QED
      BY <1>1, <1>2, <1>8, <2>1, <2>2, CallsLength
  <1>9. CASE at = "gdi"
    <2>1. CASE n \in 0 .. 2
      <3> DEFINE e == HandleStack[n + 1]
      <3>1. Len(handles) = n
        BY <1>1, <1>2, <1>9, <2>1 DEF HandleShape, HandleDepth
      <3>2. e \in HandleKinds /\ UpTo(Append(handles, e), HandleStack) /\ Len(Append(handles, e)) = n + 1
        <4>1. /\ handles \in Seq(HandleKinds) /\ HandleStack \in Seq(HandleKinds)
              /\ UpTo(handles, HandleStack) /\ Len(handles) < Len(HandleStack)
          BY <1>2, <2>1, <3>1, StacksOfKinds DEF HandleShape, StacksTyped
        <4>2. /\ HandleStack[Len(handles) + 1] \in HandleKinds
              /\ UpTo(Append(handles, HandleStack[Len(handles) + 1]), HandleStack)
              /\ Len(Append(handles, HandleStack[Len(handles) + 1])) = Len(handles) + 1
          BY <4>1, UpToAppend
        <4>3. QED
          BY <3>1, <4>2
      <3>3. Give(<<e>>)
        BY <1>1, <1>9, <2>1, NextOfGDI
      <3> HIDE DEF e
      <3>4. /\ got' = got /\ session' = session /\ handles' = Append(handles, e)
            /\ StacksTyped' /\ OwedOnce'
        BY <1>2, <3>2, <3>3, GiveOne, OwnersApart DEF Kinds
      <3>5. HandleShape'
        BY <1>1, <1>2, <1>9, <2>1, <3>2, <3>4 DEF HandleShape, HandleDepth
      <3>6. GotShape' /\ SessionShape'
        BY <1>1, <1>2, <1>3, <1>9, <3>4 DEF GotShape, SessionShape, Depth, Floor, Opening
      <3>7. QED
        BY <1>4, <3>4, <3>5, <3>6
    <2>2. CASE n \in 3 .. 4
      <3>1. Give(<<>>)
        BY <1>1, <1>9, <2>2, NextOfGDI
      <3>2. got' = got /\ session' = session /\ handles' = handles /\ StacksTyped' /\ OwedOnce'
        BY <1>2, <3>1, GiveNone
      <3>3. HandleShape'
        BY <1>1, <1>2, <1>9, <2>2, <3>2 DEF HandleShape, HandleDepth
      <3>4. GotShape' /\ SessionShape'
        BY <1>1, <1>2, <1>3, <1>9, <3>2 DEF GotShape, SessionShape, Depth, Floor, Opening
      <3>5. QED
        BY <1>4, <3>2, <3>3, <3>4
    <2>3. QED
      BY <1>1, <1>2, <1>9, <2>1, <2>2, CallsLength
  <1>10. QED
    BY <1>1, <1>6, <1>7, <1>8, <1>9, FunctionNames DEF Opening

\* Steps that borrow nothing and give nothing back.
LEMMA StacksStay ==
    ASSUME TypeOK, OwedOnce, UNCHANGED <<got, session, handles, alive>>
    PROVE  StacksTyped' /\ OwedOnce'
  BY DEF TypeOK, StacksTyped, OwedOnce

\* A call that ends its function, or the thread.
LEMMA CallEndsKeeps ==
    ASSUME IInv, Complete \/ Refuse \/ NullCall
    PROVE  IInv'
  <1>1. /\ TypeOK /\ OwedOnce /\ GotShape /\ SessionShape /\ HandleShape
        /\ at \in Functions => Len(Calls[at]) \in 1 .. 6
    BY CallsLength DEF IInv
  <1>2. /\ at \in Functions /\ result = "calling"
        /\ UNCHANGED <<n, got, session, handles, dxgi, tried, slots, alive, stop>>
    BY FunctionNames DEF Complete, Refuse, NullCall
  <1>3. StacksTyped' /\ OwedOnce'
    BY <1>1, <1>2, StacksStay
  <1>4. CASE Complete
    <2>1. at' = at /\ result' = "ok" /\ n = Len(Calls[at])
      BY <1>4 DEF Complete
    <2>2. GotShape'
      BY <1>1, <1>2, <2>1 DEF GotShape, Floor
    <2>3. SessionShape'
      <3>1. at \in Opening => n = 6
        BY <2>1, CallsLength DEF Opening
      <3>2. at = "frame" => n = 4
        BY <2>1, CallsLength
      <3>3. /\ SessionShape /\ at' = at /\ result = "calling" /\ result' = "ok"
            /\ n' = n /\ got' = got /\ session' = session /\ dxgi' = dxgi
        BY <1>1, <1>2, <2>1
      <3>4. CASE at \in Opening
        <4>1. Len(session) = 3
          BY <3>1, <3>3, <3>4 DEF SessionShape, SessionDepth
        <4>2. QED
          BY <3>3, <3>4, <4>1 DEF SessionShape, Opening
      <3>5. CASE at \notin Opening
        <4>1. at # "frame" \/ session # <<>>
          BY <3>2, <3>3 DEF SessionShape
        <4>2. QED
          BY <3>3, <3>5, <4>1 DEF SessionShape
      <3>6. QED
        BY <3>4, <3>5
    <2>4. HandleShape'
      <3>1. at = "gdi" => n = 5
        BY <2>1, CallsLength
      <3>2. QED
        <4>1. at = "gdi" => Len(handles) = 3
          BY <1>1, <1>2, <3>1 DEF HandleShape, HandleDepth
        <4>2. QED
          BY <1>1, <1>2, <2>1, <4>1 DEF HandleShape
    <2>5. QED
      BY <1>1, <1>2, <1>3, <2>1, <2>2, <2>3, <2>4, Assembled DEF TypeOK
  <1>5. CASE Refuse
    <2>1. /\ at' = at /\ result' \in {"failed", "lost"} /\ (at = "frame" => session # <<>>)
          /\ (result' = "lost" => at = "frame")
      BY <1>5 DEF Refuse
    <2>2. GotShape'
      BY <1>1, <1>2, <2>1 DEF GotShape, Floor
    <2>3. SessionShape' /\ HandleShape'
      BY <1>1, <1>2, <2>1 DEF SessionShape, HandleShape
    <2>4. QED
      BY <1>1, <1>2, <1>3, <2>1, <2>2, <2>3, Assembled DEF TypeOK
  <1>6. CASE NullCall
    <2>1. at = "frame" /\ n = 0 /\ at' = "crashed" /\ result' = result
      BY <1>6 DEF NullCall
    <2>2. got = <<>>
      BY <1>1, <1>2, <2>1 DEF GotShape, Depth, TypeOK
    <2>3. GotShape' /\ SessionShape' /\ HandleShape'
      BY <1>1, <1>2, <2>1, <2>2, FunctionNames DEF GotShape, SessionShape, HandleShape, Opening
    <2>4. QED
      BY <1>1, <1>2, <1>3, <2>1, <2>3, Assembled DEF TypeOK, Between
  <1>7. QED
    BY <1>4, <1>5, <1>6

\* What a release leaves is typed, owed once and shorter by one.
LEMMA ReleaseTyped ==
    ASSUME IInv,
           \/ got # <<>> /\ PopGot /\ UNCHANGED <<session, handles>>
           \/ session # <<>> /\ PopSession /\ UNCHANGED <<got, handles>>
           \/ handles # <<>> /\ PopHandles /\ UNCHANGED <<got, session>>
    PROVE  /\ StacksTyped' /\ OwedOnce'
           /\ UpTo(session', SessionStack) /\ Len(session') <= Len(session) /\ Len(session') \in Nat
           /\ UpTo(handles', HandleStack) /\ Len(handles') <= Len(handles) /\ Len(handles') \in Nat
  <1>1. StacksTyped /\ OwedOnce /\ UpTo(session, SessionStack) /\ UpTo(handles, HandleStack)
    BY DEF IInv, TypeOK, StacksTyped, SessionShape, HandleShape
  <1>2. StacksTyped' /\ OwedOnce'
    BY <1>1, TakenBack
  <1>3. session # <<>> /\ session' = Front(session) => UpTo(session', SessionStack) /\ Len(session') = Len(session) - 1
    BY <1>1, StacksOfKinds, UpToFront DEF StacksTyped
  <1>4. handles # <<>> /\ handles' = Front(handles) => UpTo(handles', HandleStack) /\ Len(handles') = Len(handles) - 1
    BY <1>1, StacksOfKinds, UpToFront DEF StacksTyped
  <1>5. Len(session) \in Nat /\ Len(handles) \in Nat /\ Len(session') \in Nat /\ Len(handles') \in Nat
    BY <1>1, <1>2 DEF StacksTyped
  <1>6. QED
    BY <1>1, <1>2, <1>3, <1>4, <1>5 DEF PopSession, PopHandles

\* Releases on the way out of a function.
LEMMA WayOutKeeps ==
    ASSUME IInv, Undo \/ Unwind
    PROVE  IInv'
  <1>1. /\ TypeOK /\ GotShape /\ SessionShape /\ HandleShape
        /\ UNCHANGED <<at, n, result, dxgi, tried, slots, stop>>
    BY DEF IInv, Undo, Unwind
  <1>2. CASE Undo
    <2>1. /\ StacksTyped' /\ OwedOnce'
          /\ UpTo(session', SessionStack) /\ UpTo(handles', HandleStack)
      BY <1>2, ReleaseTyped DEF Undo
    <2>2. /\ got' = got /\ result = "failed"
          /\ \/ at \in Opening /\ handles' = handles /\ session # <<>>
             \/ at = "gdi" /\ session' = session
      BY <1>2 DEF Undo, Opening
    <2>3. GotShape'
      BY <1>1, <2>2 DEF GotShape, Floor
    <2>4. SessionShape'
      BY <1>1, <2>1, <2>2 DEF SessionShape, Opening
    <2>5. HandleShape'
      BY <1>1, <2>1, <2>2 DEF HandleShape, Opening
    <2>6. QED
      BY <1>1, <2>1, <2>3, <2>4, <2>5, Assembled DEF TypeOK
  <1>3. CASE Unwind
    <2>1. /\ at \in Functions /\ result # "calling" /\ Len(got) > Floor /\ PopGot
          /\ UNCHANGED <<session, handles>>
      BY <1>3 DEF Unwind
    <2>2. got # <<>> /\ got \in Seq(Deferred) /\ Floor \in Nat
      BY <1>1, <2>1, CallsLength DEF TypeOK, Floor
    <2>3. StacksTyped' /\ OwedOnce'
      BY <2>1, <2>2, ReleaseTyped
    <2>4. UpTo(got', Stack[at]) /\ Len(got') = Len(got) - 1
      BY <1>1, <2>1, <2>2, StacksOfKinds, UpToFront DEF PopGot, GotShape
    <2>5. Floor' = Floor
      BY <1>1 DEF Floor
    <2>6. GotShape'
      BY <1>1, <2>1, <2>2, <2>4, <2>5 DEF GotShape
    <2>7. SessionShape' /\ HandleShape'
      BY <1>1, <2>1 DEF SessionShape, HandleShape
    <2>8. QED
      BY <1>1, <2>3, <2>6, <2>7, Assembled DEF TypeOK
  <1>4. QED
    BY <1>2, <1>3

\* A function that is entered with nothing on its stack.
LEMMA EnterKeeps ==
    ASSUME IInv, got = <<>>, UNCHANGED <<got, session, handles, alive, stop>>,
           NEW place \in (Functions \ {"find"}) \cup Between, Enter(place),
           place # "stopping" => Len(handles) \in {0, 3},
           place \in {"returned", "closed"} => handles = <<>>,
           place \notin {"lost", "returned"} => Len(session) \in {0, 3},
           place \in Opening \cup {"closed"} => session = <<>>,
           ~dxgi' => session = <<>>,
           place \in {"frame", "lost", "reopen"} => dxgi',
           dxgi' \in BOOLEAN, tried' \in 0 .. 2, slots' \in 0 .. Slots
    PROVE  IInv'
  <1>1. /\ TypeOK /\ OwedOnce /\ at' = place /\ result' = "calling"
        /\ n' = IF place = "gdi" THEN Len(handles) ELSE 0
        /\ UpTo(session, SessionStack) /\ UpTo(handles, HandleStack)
    BY DEF IInv, Enter, SessionShape, HandleShape
  <1>2. n' \in 0 .. 6
    BY <1>1
  <1>3. StacksTyped' /\ OwedOnce'
    BY <1>1, StacksStay
  <1>4. GotShape'
    <2>1. ASSUME place \in Functions
          PROVE  /\ UpTo(<<>>, Stack[place]) /\ n' \in 0 .. Len(Calls[place])
                 /\ Depth(place, n') = 0
      <3>1. UpTo(<<>>, Stack[place])
        BY <2>1, StacksOfKinds DEF UpTo
      <3>2. n' \in 0 .. Len(Calls[place])
        <4>1. Len(Calls["gdi"]) = 5 /\ Len(Calls[place]) \in 1 .. 6
          BY <2>1, CallsLength
        <4>2. CASE place = "gdi"
          <5>1. n' = Len(handles) /\ Len(handles) \in {0, 3}
            BY <1>1, <4>2
          <5>2. Len(Calls[place]) = 5
            BY <4>1, <4>2
          <5>3. QED
            BY <5>1, <5>2
        <4>3. CASE place # "gdi"
          BY <1>1, <4>1, <4>3
        <4>4. QED
          BY <4>2, <4>3
      <3>3. Depth(place, n') = 0
        <4>1. place = "gdi" \/ n' = 0
          BY <1>1
        <4>2. place # "find"
          BY FunctionNames DEF Between
        <4>3. QED
          BY <4>1, <4>2 DEF Depth
      <3>4. QED
        BY <3>1, <3>2, <3>3
    <2>2. Floor' = 0
      BY <1>1 DEF Floor, Between
    <2>3. QED
      BY <1>1, <2>1, <2>2 DEF GotShape
  <1>5. SessionShape'
    BY <1>1 DEF SessionShape, SessionDepth, Opening
  <1>6. HandleShape'
    BY <1>1 DEF HandleShape, HandleDepth
  <1>7. QED
    BY <1>1, <1>2, <1>3, <1>4, <1>5, <1>6, Assembled DEF TypeOK

\* A function other than a query by id ends with nothing on its stack, and
\* with its fields whole or zero.
LEMMA OverLeaves ==
    ASSUME IInv, NEW f \in Functions \ {"find"}, Over(f)
    PROVE  /\ at = f /\ got = <<>> /\ result \in {"ok", "failed", "lost"}
           /\ result = "lost" => f = "frame"
           /\ Len(session) \in {0, 3} /\ Len(handles) \in {0, 3}
           /\ f \in Opening => (result = "ok" <=> session # <<>>)
           /\ f # "open" /\ ~dxgi => session = <<>>
           /\ f \in {"frame", "reopen"} => dxgi
  <1>1. /\ at = f /\ result # "calling" /\ Undone /\ Len(got) = 0 /\ got = <<>>
        /\ TypeOK /\ GotShape /\ SessionShape /\ HandleShape
        /\ session \in Seq(SessionKinds) /\ handles \in Seq(HandleKinds)
    BY DEF Over, Floor, IInv, TypeOK
  <1>2. f = "gdi" \/ f \in Opening \/ f \notin Opening \cup {"gdi"}
    OBVIOUS
  <1>3. f \in Opening => /\ result \in {"ok", "failed"}
                         /\ result = "ok" => Len(session) = 3
                         /\ result = "failed" => session = <<>>
    BY <1>1 DEF Undone, GotShape, SessionShape, TypeOK, Opening
  <1>4. f = "gdi" => Len(handles) \in {0, 3}
    BY <1>1 DEF Undone, GotShape, HandleShape, TypeOK
  <1>5. /\ f # "gdi" => Len(handles) \in {0, 3}
        /\ f \notin Opening => Len(session) \in {0, 3}
        /\ f # "open" /\ ~dxgi => session = <<>>
        /\ f \in {"frame", "reopen"} => dxgi
    BY <1>1, FunctionNames DEF SessionShape, HandleShape, Opening
  <1>6. result \in {"ok", "failed", "lost"} /\ (result = "lost" => f = "frame")
    BY <1>1 DEF TypeOK, GotShape
  <1>7. Len(session) \in {0, 3} /\ (Len(session) = 3 => session # <<>>)
    BY <1>1, <1>3, <1>5
  <1>8. QED
    BY <1>1, <1>3, <1>4, <1>5, <1>6, <1>7

\* What a function, or a place between two, goes on to keeps the invariant.
LEMMA GoesOnKeeps ==
    ASSUME IInv, UNCHANGED <<got, session, handles, dxgi, alive, stop>>,
           \/ at \in {"waiting", "enumerate", "windows"}
           \/ \E f \in Functions \ {"find", "open"} : Over(f),
           NEW place \in {"waiting", "enumerate", "windows", "lost", "stopping", "crashed",
                          "process", "other", "url", "field", "rect", "frame", "gdi"},
           Enter(place), place \in {"frame", "lost"} => dxgi,
           tried' \in 0 .. 2, slots' \in 0 .. Slots
    PROVE  IInv'
  <1>1. TypeOK /\ dxgi \in BOOLEAN /\ GotShape /\ SessionShape /\ HandleShape
    BY DEF IInv, TypeOK
  <1>2. got = <<>> /\ Len(session) \in {0, 3} /\ Len(handles) \in {0, 3} /\ (~dxgi => session = <<>>)
    <2>1. CASE at \in {"waiting", "enumerate", "windows"}
      BY <1>1, <2>1, FunctionNames DEF GotShape, SessionShape, HandleShape, Opening
    <2>2. CASE \E f \in Functions \ {"find", "open"} : Over(f)
      BY <2>2, OverLeaves
    <2>3. QED
      BY <2>1, <2>2
  <1>3. place \in (Functions \ {"find"}) \cup Between /\ place \notin Opening \cup {"closed", "returned"}
    BY FunctionNames DEF Between, Opening
  <1>4. QED
    BY <1>1, <1>2, <1>3, EnterKeeps

\* The gate.
LEMMA GateKeeps ==
    ASSUME IInv, Gate \/ Tick
    PROVE  IInv'
  <1>1. /\ TypeOK /\ GotShape /\ SessionShape /\ HandleShape /\ OwedOnce
        /\ tried \in 0 .. 2 /\ slots \in 0 .. Slots /\ Slots \in Nat /\ dxgi \in BOOLEAN
    BY SlotsAssumption DEF IInv, TypeOK
  <1>2. ASSUME Tick PROVE IInv'
    <2>1. at = "waiting" /\ Enter("process")
          /\ UNCHANGED <<got, session, handles, dxgi, alive, stop, tried, slots>>
      BY <1>2 DEF Tick, Rest
    <2>2. QED
      BY <1>1, <2>1, GoesOnKeeps
  <1>3. ASSUME AskBrowser PROVE IInv'
    <2>1. PICK next \in {"url", "field"} : Enter(next)
      BY <1>3 DEF AskBrowser
    <2>2. Over("process") /\ tried' = 0 /\ slots' = slots
          /\ UNCHANGED <<got, session, handles, dxgi, alive, stop>>
      BY <1>3 DEF AskBrowser, Rest
    <2>3. QED
      BY <1>1, <2>1, <2>2, GoesOnKeeps, FunctionNames
  <1>4. ASSUME AskById PROVE IInv'
    <2>1. /\ at = "url" /\ result = "calling" /\ n = 3 /\ tried < 2 /\ tried' = tried + 1
          /\ at' = "find" /\ n' = 0 /\ result' = "calling"
          /\ UNCHANGED <<got, session, handles, alive, stop, dxgi, slots>>
      BY <1>4, CallsLength DEF AskById, Enter, Rest
    <2>2. Len(got) = 3 /\ UpTo(got, Stack["url"])
      BY <1>1, <2>1, FunctionNames DEF GotShape, Depth
    <2>3. UpTo(got, Stack["find"])
      BY <2>2 DEF UpTo, Stack
    <2>4. Floor' = 3 /\ Depth("find", 0) = 3
      BY <2>1, CallsLength DEF Floor, Depth
    <2>5. GotShape'
      BY <1>1, <2>1, <2>2, <2>3, <2>4, CallsLength, FunctionNames DEF GotShape
    <2>6. SessionShape' /\ HandleShape'
      BY <1>1, <2>1 DEF SessionShape, HandleShape, Opening
    <2>7. QED
      BY <1>1, <2>1, <2>5, <2>6, StacksStay, Assembled, FunctionNames DEF TypeOK
  <1>5. ASSUME AskedById PROVE IInv'
    <2>1. /\ at = "find" /\ result # "calling" /\ Len(got) = 3
          /\ at' = "url" /\ n' = 3 /\ result' \in {"ok", "calling"}
          /\ UNCHANGED <<got, session, handles, alive, stop, dxgi, tried, slots>>
      BY <1>5, CallsLength DEF AskedById, Over, Floor, Rest
    <2>2. UpTo(got, Stack["find"])
      BY <1>1, <2>1, FunctionNames DEF GotShape
    <2>3. UpTo(got, Stack["url"])
      BY <2>1, <2>2 DEF UpTo, Stack
    <2>4. Floor' = 0 /\ Depth("url", 3) = 3
      BY <2>1 DEF Floor, Depth, Opening
    <2>5. GotShape'
      BY <1>1, <2>1, <2>3, <2>4, CallsLength, FunctionNames DEF GotShape
    <2>6. SessionShape' /\ HandleShape'
      BY <1>1, <2>1 DEF SessionShape, HandleShape, Opening
    <2>7. QED
      BY <1>1, <2>1, <2>5, <2>6, StacksStay, Assembled, FunctionNames DEF TypeOK
  <1>6. ASSUME AskField PROVE IInv'
    <2>1. Over("url") /\ Enter("field")
          /\ UNCHANGED <<got, session, handles, dxgi, alive, stop, tried, slots>>
      BY <1>6 DEF AskField, Rest
    <2>2. QED
      BY <1>1, <2>1, GoesOnKeeps, FunctionNames
  <1>7. ASSUME AskedField PROVE IInv'
    <2>1. PICK next \in {"enumerate", "waiting"} : Enter(next)
      BY <1>7 DEF AskedField
    <2>2. Over("field") /\ UNCHANGED <<got, session, handles, dxgi, alive, stop, tried, slots>>
      BY <1>7 DEF AskedField, Rest
    <2>3. QED
      BY <1>1, <2>1, <2>2, GoesOnKeeps, FunctionNames
  <1>8. ASSUME Enumerate PROVE IInv'
    <2>1. PICK next \in {"crashed", "windows"} : Enter(next)
      BY <1>8 DEF Enumerate
    <2>2. /\ at = "enumerate" /\ slots' \in 0 .. Slots
          /\ UNCHANGED <<got, session, handles, dxgi, alive, stop, tried>>
      BY <1>1, <1>8 DEF Enumerate, Rest
    <2>3. QED
      BY <1>1, <2>1, <2>2, GoesOnKeeps
  <1>9. ASSUME LookUp PROVE IInv'
    <2>1. PICK next \in {"other", "waiting", IF dxgi THEN "frame" ELSE "gdi"} : Enter(next)
      BY <1>9 DEF LookUp
    <2>2. at = "windows" /\ UNCHANGED <<got, session, handles, dxgi, alive, stop, tried, slots>>
      BY <1>9 DEF LookUp, Rest
    <2>3. QED
      BY <1>1, <2>1, <2>2, GoesOnKeeps
  <1>10. ASSUME LookedUp PROVE IInv'
    <2>1. Over("other") /\ Enter("windows")
          /\ UNCHANGED <<got, session, handles, dxgi, alive, stop, tried, slots>>
      BY <1>10 DEF LookedUp, Rest
    <2>2. QED
      BY <1>1, <2>1, GoesOnKeeps, FunctionNames
  <1>11. QED
    BY <1>2, <1>3, <1>4, <1>5, <1>6, <1>7, <1>8, <1>9, <1>10 DEF Gate

\* The session and the pixels.
LEMMA PixelsKeep ==
    ASSUME IInv, Opened \/ Pixels
    PROVE  IInv'
  <1>1. /\ TypeOK /\ GotShape /\ SessionShape /\ HandleShape /\ OwedOnce
        /\ tried \in 0 .. 2 /\ slots \in 0 .. Slots /\ dxgi \in BOOLEAN
    BY DEF IInv, TypeOK
  <1>2. ASSUME Opened PROVE IInv'
    <2>1. /\ Over("open") /\ dxgi' = (result = "ok") /\ Enter("waiting")
          /\ UNCHANGED <<got, session, handles, alive, stop, tried, slots>>
      BY <1>2 DEF Opened, Rest
    <2>2. /\ got = <<>> /\ Len(session) \in {0, 3} /\ Len(handles) \in {0, 3}
          /\ dxgi' \in BOOLEAN /\ (~dxgi' => session = <<>>)
      BY <2>1, OverLeaves, FunctionNames DEF Opening
    <2>3. "waiting" \in Between /\ "waiting" \notin Opening
      BY DEF Between, Opening
    <2>4. QED
      BY <1>1, <2>1, <2>2, <2>3, EnterKeeps
  <1>3. ASSUME Framed PROVE IInv'
    <2>1. /\ Over("frame")
          /\ UNCHANGED <<got, session, handles, dxgi, alive, stop, tried, slots>>
      BY <1>3 DEF Framed, Rest
    <2>2. dxgi /\ result \in {"ok", "failed", "lost"}
      BY <2>1, OverLeaves, FunctionNames
    <2>3. \E next \in {"rect", "gdi", "lost"} : Enter(next)
      BY <1>3, <2>2 DEF Framed
    <2>4. QED
      BY <1>1, <2>1, <2>2, <2>3, GoesOnKeeps, FunctionNames
  <1>4. ASSUME Reopen PROVE IInv'
    <2>1. /\ at = "lost" /\ UNCHANGED <<got, handles, dxgi, tried, slots, stop>>
          /\ got = <<>> /\ Len(handles) \in {0, 3} /\ dxgi
      BY <1>1, <1>4, FunctionNames DEF Reopen, GotShape, HandleShape, SessionShape
    <2>2. CASE session # <<>>
      <3>1. PopSession /\ UNCHANGED <<at, n, result>>
        BY <1>4, <2>2 DEF Reopen
      <3>2. StacksTyped' /\ OwedOnce' /\ UpTo(session', SessionStack)
        BY <2>1, <2>2, <3>1, ReleaseTyped
      <3>3. SessionShape'
        BY <1>1, <2>1, <3>1, <3>2 DEF SessionShape, Opening
      <3>4. GotShape' /\ HandleShape'
        BY <1>1, <2>1, <3>1, FunctionNames DEF GotShape, HandleShape
      <3>5. QED
        BY <1>1, <2>1, <3>1, <3>2, <3>3, <3>4, Assembled DEF TypeOK
    <2>3. CASE session = <<>>
      <3>1. Enter("reopen") /\ UNCHANGED <<session, alive>>
        BY <1>4, <2>3 DEF Reopen
      <3>2. "reopen" \in Functions \ {"find"} /\ "reopen" \in Opening /\ Len(session) = 0
        BY <2>3, FunctionNames DEF Opening
      <3>3. QED
        BY <1>1, <2>1, <2>3, <3>1, <3>2, EnterKeeps
    <2>4. QED
      BY <2>2, <2>3
  <1>5. ASSUME Reopened PROVE IInv'
    <2>1. Over("reopen") /\ Enter("gdi")
          /\ UNCHANGED <<got, session, handles, dxgi, alive, stop, tried, slots>>
      BY <1>5 DEF Reopened, Rest
    <2>2. QED
      BY <1>1, <2>1, GoesOnKeeps, FunctionNames
  <1>6. ASSUME Copied PROVE IInv'
    <2>1. /\ Over("gdi") /\ \E next \in {"rect", "waiting"} : Enter(next)
          /\ UNCHANGED <<got, session, handles, dxgi, alive, stop, tried, slots>>
      BY <1>6 DEF Copied, Rest
    <2>2. QED
      BY <1>1, <2>1, GoesOnKeeps, FunctionNames
  <1>7. ASSUME Masked PROVE IInv'
    <2>1. Over("rect") /\ Enter("waiting")
          /\ UNCHANGED <<got, session, handles, dxgi, alive, stop, tried, slots>>
      BY <1>7 DEF Masked, Rest
    <2>2. QED
      BY <1>1, <2>1, GoesOnKeeps, FunctionNames
  <1>8. QED
    BY <1>2, <1>3, <1>4, <1>5, <1>6, <1>7 DEF Pixels

\* The end.
LEMMA EndingKeeps ==
    ASSUME IInv, Finish \/ Ending
    PROVE  IInv'
  <1>1. /\ TypeOK /\ GotShape /\ SessionShape /\ HandleShape /\ OwedOnce
        /\ tried \in 0 .. 2 /\ slots \in 0 .. Slots /\ dxgi \in BOOLEAN
    BY DEF IInv, TypeOK
  <1>2. ASSUME Finish PROVE IInv'
    <2>1. at = "waiting" /\ Enter("stopping")
          /\ UNCHANGED <<got, session, handles, dxgi, alive, stop, tried, slots>>
      BY <1>2 DEF Finish, Rest
    <2>2. QED
      BY <1>1, <2>1, GoesOnKeeps
  <1>3. ASSUME ReleaseHandles PROVE IInv'
    <2>1. /\ at = "stopping" /\ UNCHANGED <<got, session, dxgi, tried, slots, stop>>
          /\ got = <<>> /\ Len(session) \in {0, 3} /\ (~dxgi => session = <<>>)
      BY <1>1, <1>3, FunctionNames DEF ReleaseHandles, GotShape, SessionShape, Opening
    <2>2. CASE handles # <<>>
      <3>1. PopHandles /\ UNCHANGED <<at, n, result>>
        BY <1>3, <2>2 DEF ReleaseHandles
      <3>2. StacksTyped' /\ OwedOnce' /\ UpTo(handles', HandleStack)
        BY <2>1, <2>2, <3>1, ReleaseTyped
      <3>3. HandleShape'
        BY <1>1, <2>1, <3>1, <3>2 DEF HandleShape
      <3>4. GotShape' /\ SessionShape'
        BY <1>1, <2>1, <3>1, FunctionNames DEF GotShape, SessionShape
      <3>5. QED
        BY <1>1, <2>1, <3>1, <3>2, <3>3, <3>4, Assembled DEF TypeOK
    <2>3. CASE handles = <<>>
      <3>1. Enter("returned") /\ UNCHANGED <<handles, alive>>
        BY <1>3, <2>3 DEF ReleaseHandles
      <3>2. "returned" \in Between /\ "returned" \notin Opening /\ Len(handles) = 0
        BY <2>3 DEF Between, Opening
      <3>3. QED
        BY <1>1, <2>1, <2>3, <3>1, <3>2, EnterKeeps
    <2>4. QED
      BY <2>2, <2>3
  <1>4. ASSUME Close PROVE IInv'
    <2>1. /\ at = "returned" /\ UNCHANGED <<got, handles, tried, slots, stop>>
          /\ got = <<>> /\ handles = <<>> /\ Len(handles) = 0 /\ (~dxgi => session = <<>>)
      BY <1>1, <1>4, FunctionNames DEF Close, GotShape, SessionShape, HandleShape
    <2>2. CASE dxgi /\ session # <<>>
      <3>1. PopSession /\ UNCHANGED <<at, n, result, dxgi>>
        BY <1>4, <2>2 DEF Close
      <3>2. StacksTyped' /\ OwedOnce' /\ UpTo(session', SessionStack)
        BY <2>1, <2>2, <3>1, ReleaseTyped
      <3>3. SessionShape'
        BY <1>1, <2>1, <2>2, <3>1, <3>2 DEF SessionShape, Opening
      <3>4. GotShape' /\ HandleShape'
        BY <1>1, <2>1, <3>1, FunctionNames DEF GotShape, HandleShape
      <3>5. QED
        BY <1>1, <2>1, <3>1, <3>2, <3>3, <3>4, Assembled DEF TypeOK
    <2>3. CASE ~(dxgi /\ session # <<>>)
      <3>1. Enter("closed") /\ dxgi' = FALSE /\ UNCHANGED <<session, alive>>
        BY <1>4, <2>3 DEF Close
      <3>2. "closed" \in Between /\ "closed" \notin Opening /\ session = <<>> /\ Len(session) = 0
        BY <2>1, <2>3 DEF Between, Opening
      <3>3. QED
        BY <1>1, <2>1, <3>1, <3>2, EnterKeeps
    <2>4. QED
      BY <2>2, <2>3
  <1>5. QED
    BY <1>2, <1>3, <1>4 DEF Ending

\* A stop, and a step that changes nothing.
LEMMA StopKeeps ==
    ASSUME IInv, StopDaemon \/ UNCHANGED vars
    PROVE  IInv'
  <1>1. /\ UNCHANGED <<at, n, result, got, session, handles, dxgi, tried, slots, alive>>
        /\ stop' \in BOOLEAN
        /\ TypeOK /\ OwedOnce /\ GotShape /\ SessionShape /\ HandleShape
    BY DEF IInv, StopDaemon, vars, TypeOK
  <1>2. GotShape' /\ SessionShape' /\ HandleShape'
    BY <1>1 DEF GotShape, SessionShape, HandleShape, Floor
  <1>3. QED
    BY <1>1, <1>2, StacksStay, Assembled DEF TypeOK

LEMMA NextIInv == IInv /\ [Next]_vars => IInv'
  BY AcquireKeeps, CallEndsKeeps, WayOutKeeps, GateKeeps, PixelsKeep, EndingKeeps, StopKeeps
     DEF Next, Call

\* The stacks and fields of the thread have the shape that the calls give
\* them: what a function has borrowed, and nothing else, in that order.
THEOREM Shapes == Spec => []IInv
  BY InitIInv, NextIInv, PTL DEF Spec

\* TypeOK holds for every number of slots and either backend.
THEOREM TypeCorrect == Spec => []TypeOK
  <1>1. IInv => TypeOK
    BY DEF IInv
  <1>2. QED
    BY <1>1, Shapes, PTL

\* Whatever fails, and whenever the stop comes, each reference that Windows
\* counts is on one stack, once for each time that it was given: it will be
\* released as often as it was borrowed (the defers of uia_windows.go and
\* dxgi_windows.go, releaseHandles, Close).
THEOREM ReferencesOwedOnce == Spec => []OwedOnce
  <1>1. IInv => OwedOnce
    BY DEF IInv
  <1>2. QED
    BY <1>1, Shapes, PTL

-----------------------------------------------------------------------------
\* What the shapes say of what Windows counts.

\* Windows counts a kind when its owner's stack has it.
LEMMA HeldOnStack ==
    ASSUME IInv, NEW k \in Kinds
    PROVE  /\ k \in Deferred => (alive[k] > 0 <=> \E i \in 1 .. Len(got) : got[i] = k)
           /\ k \in SessionKinds => (alive[k] > 0 <=> \E i \in 1 .. Len(session) : session[i] = k)
           /\ k \in HandleKinds => (alive[k] > 0 <=> \E i \in 1 .. Len(handles) : handles[i] = k)
           /\ k \in Deferred => alive[k] = Count(k, got)
           /\ k \in SessionKinds => alive[k] = Count(k, session)
  <1>1. /\ got \in Seq(Deferred) /\ session \in Seq(SessionKinds) /\ handles \in Seq(HandleKinds)
        /\ alive[k] = Count(k, got) + Count(k, session) + Count(k, handles)
    BY DEF IInv, TypeOK, OwedOnce
  <1>2. /\ Count(k, got) \in Nat /\ Count(k, session) \in Nat /\ Count(k, handles) \in Nat
    BY <1>1, CountType
  <1>3. /\ Count(k, got) > 0 <=> \E i \in 1 .. Len(got) : got[i] = k
        /\ Count(k, session) > 0 <=> \E i \in 1 .. Len(session) : session[i] = k
        /\ Count(k, handles) > 0 <=> \E i \in 1 .. Len(handles) : handles[i] = k
    BY <1>1, CountPositive
  <1>4. /\ k \notin Deferred => ~ \E i \in 1 .. Len(got) : got[i] = k
        /\ k \notin SessionKinds => ~ \E i \in 1 .. Len(session) : session[i] = k
        /\ k \notin HandleKinds => ~ \E i \in 1 .. Len(handles) : handles[i] = k
    BY <1>1
  <1>5. /\ k \in Deferred => k \notin SessionKinds /\ k \notin HandleKinds
        /\ k \in SessionKinds => k \notin Deferred /\ k \notin HandleKinds
        /\ k \in HandleKinds => k \notin Deferred /\ k \notin SessionKinds
    BY OwnersApart
  <1>6. QED
    BY <1>1, <1>2, <1>3, <1>4, <1>5

\* The deferred releases of a query, of a frame and of both fields start with
\* what the rest of them needs.
LEMMA NeededFirst ==
    /\ \A f \in Functions : \A i \in 1 .. Len(Stack[f]) :
          /\ Stack[f][i] \in {"uia", "root", "focused", "cond", "found"} => Stack[f][1] = "com"
          /\ Stack[f][i] \in {"frame", "mapped"} => f = "frame"
    /\ \A i \in 1 .. Len(Stack["frame"]) :
          /\ Stack["frame"][i] = "mapped" => i = 5 /\ Stack["frame"][4] = "staging"
          /\ Stack["frame"][i] = "frame" => i = 2
    /\ \A i \in 1 .. 3 : HandleStack[i] = "memDC" => i = 2 /\ HandleStack[1] = "screenDC"
    /\ SessionStack[2] = "ctx" /\ SessionStack[3] = "dupl"
    /\ \A i \in 1 .. 3 : SessionStack[i] = "dupl" => i = 3
  <1>1. ASSUME NEW f \in Functions, NEW i \in 1 .. Len(Stack[f])
        PROVE  /\ Stack[f][i] \in {"uia", "root", "focused", "cond", "found"} => Stack[f][1] = "com"
               /\ Stack[f][i] \in {"frame", "mapped"} => f = "frame"
    <2>1. CASE f \in {"url", "find"}
      <3>1. CASE f = "url"
        BY <1>1, <3>1 DEF Stack
      <3>2. CASE f = "find"
        BY <1>1, <3>2 DEF Stack
      <3>3. QED
        BY <2>1, <3>1, <3>2
    <2>2. CASE f \in {"field", "rect"}
      <3>1. CASE f = "field"
        BY <1>1, <3>1 DEF Stack
      <3>2. CASE f = "rect"
        BY <1>1, <3>2 DEF Stack
      <3>3. QED
        BY <2>2, <3>1, <3>2
    <2>3. CASE f \in {"process", "other", "gdi"}
      <3>1. CASE f \in {"process", "other"}
        <4>1. Stack[f] = <<"process">>
          BY <3>1 DEF Stack
        <4>2. QED
          BY <1>1, <4>1
      <3>2. CASE f = "gdi"
        BY <1>1, <3>2 DEF Stack
      <3>3. QED
        BY <2>3, <3>1, <3>2
    <2>4. CASE f \in {"open", "reopen"}
      <3>1. Stack[f] = <<"dxgiDevice", "adapter", "output", "output1">>
        BY <2>4 DEF Stack
      <3>2. QED
        BY <1>1, <3>1
    <2>5. CASE f = "frame"
      BY <1>1, <2>5 DEF Stack
    <2>6. QED
      BY <2>1, <2>2, <2>3, <2>4, <2>5, FunctionNames
  <1>2. ASSUME NEW i \in 1 .. Len(Stack["frame"])
        PROVE  /\ Stack["frame"][i] = "mapped" => i = 5 /\ Stack["frame"][4] = "staging"
               /\ Stack["frame"][i] = "frame" => i = 2
    BY <1>2 DEF Stack
  <1>3. \A i \in 1 .. 3 : HandleStack[i] = "memDC" => i = 2 /\ HandleStack[1] = "screenDC"
    BY DEF HandleStack
  <1>4. /\ SessionStack[2] = "ctx" /\ SessionStack[3] = "dupl"
        /\ \A i \in 1 .. 3 : SessionStack[i] = "dupl" => i = 3
    BY DEF SessionStack
  <1>5. QED
    BY <1>1, <1>2, <1>3, <1>4

\* Places that are in use have the kinds of the stack they are a part of.
LEMMA PlacesInUse ==
    ASSUME IInv
    PROVE  /\ Len(got) \in Nat /\ Len(session) \in 0 .. 3 /\ Len(handles) \in 0 .. 3
           /\ \A i \in 1 .. Len(got) : at \in Functions /\ i \in 1 .. Len(Stack[at]) /\ got[i] = Stack[at][i]
           /\ \A i \in 1 .. Len(session) : session[i] = SessionStack[i]
           /\ \A i \in 1 .. Len(handles) : handles[i] = HandleStack[i]
  <1>1. /\ got \in Seq(Deferred) /\ session \in Seq(SessionKinds) /\ handles \in Seq(HandleKinds)
        /\ GotShape /\ UpTo(session, SessionStack) /\ UpTo(handles, HandleStack)
    BY DEF IInv, TypeOK, SessionShape, HandleShape
  <1>2. /\ Len(session) \in 0 .. 3 /\ Len(handles) \in 0 .. 3
        /\ \A i \in 1 .. Len(session) : session[i] = SessionStack[i]
        /\ \A i \in 1 .. Len(handles) : handles[i] = HandleStack[i]
    <2>1. Len(session) \in Nat /\ Len(handles) \in Nat
      BY <1>1
    <2>2. Len(SessionStack) = 3 /\ Len(HandleStack) = 3 /\ UpTo(session, SessionStack) /\ UpTo(handles, HandleStack)
      BY <1>1, StacksOfKinds
    <2>3. Len(session) <= 3 /\ Len(handles) <= 3
      BY <2>2 DEF UpTo
    <2>4. /\ \A i \in 1 .. Len(session) : session[i] = SessionStack[i]
          /\ \A i \in 1 .. Len(handles) : handles[i] = HandleStack[i]
      BY <2>2 DEF UpTo
    <2>5. Len(session) \in 0 .. 3 /\ Len(handles) \in 0 .. 3
      <3>1. \A m \in Nat : m <= 3 => m \in 0 .. 3
        OBVIOUS
      <3>2. QED
        BY <2>1, <2>3, <3>1
    <2>6. QED
      BY <2>4, <2>5
  <1>3. ASSUME NEW i \in 1 .. Len(got)
        PROVE  at \in Functions /\ i \in 1 .. Len(Stack[at]) /\ got[i] = Stack[at][i]
    <2>1. at \in Functions
      BY <1>1, <1>3 DEF GotShape
    <2>2. UpTo(got, Stack[at]) /\ Stack[at] \in Seq(Deferred)
      BY <1>1, <2>1, StacksOfKinds DEF GotShape
    <2>3. QED
      BY <1>1, <1>3, <2>1, <2>2 DEF UpTo
  <1>4. QED
    BY <1>1, <1>2, <1>3

\* A frame is held on a whole session only.
LEMMA FrameOnSession ==
    ASSUME IInv, at = "frame", got # <<>>
    PROVE  Len(session) = 3
  <1>1. Len(session) \in {0, 3} /\ session # <<>> /\ session \in Seq(SessionKinds)
    BY DEF IInv, TypeOK, SessionShape, Opening
  <1>2. QED
    BY <1>1

LEMMA IInvDependentsFirst ==
    ASSUME IInv
    PROVE  DependentsFirst
  <1>1. ASSUME NEW k \in {"uia", "root", "focused", "cond", "found"}, alive[k] > 0
        PROVE  alive["com"] > 0
    <2>1. k \in Deferred /\ "com" \in Deferred /\ k \in Kinds /\ "com" \in Kinds
      BY DEF Deferred, Kinds
    <2>2. PICK i \in 1 .. Len(got) : got[i] = k
      BY <1>1, <2>1, HeldOnStack
    <2>3. 1 \in 1 .. Len(got)
      BY <2>2, PlacesInUse
    <2>4. got[1] = "com"
      BY <2>2, <2>3, PlacesInUse, NeededFirst
    <2>5. QED
      BY <2>1, <2>3, <2>4, HeldOnStack
  <1>2. ASSUME NEW k \in {"frame", "mapped"}, alive[k] > 0
        PROVE  /\ alive["dupl"] > 0 /\ alive["ctx"] > 0
               /\ k = "mapped" => alive["staging"] > 0
    <2>1. /\ k \in Deferred /\ "staging" \in Deferred /\ "dupl" \in SessionKinds /\ "ctx" \in SessionKinds
          /\ k \in Kinds /\ "staging" \in Kinds /\ "dupl" \in Kinds /\ "ctx" \in Kinds
      BY DEF Deferred, SessionKinds, Kinds
    <2>2. PICK i \in 1 .. Len(got) : got[i] = k
      BY <1>2, <2>1, HeldOnStack
    <2>3. at = "frame" /\ got[i] = Stack["frame"][i] /\ i \in 1 .. Len(Stack["frame"])
      BY <2>2, PlacesInUse, NeededFirst
    <2>4. Len(session) = 3
      BY <2>2, <2>3, FrameOnSession
    <2>5. session[3] = "dupl" /\ session[2] = "ctx"
      BY <2>4, PlacesInUse, NeededFirst
    <2>6. alive["dupl"] > 0 /\ alive["ctx"] > 0
      BY <2>1, <2>4, <2>5, HeldOnStack
    <2>7. ASSUME k = "mapped" PROVE alive["staging"] > 0
      <3>1. i = 5 /\ Stack["frame"][4] = "staging"
        BY <2>2, <2>3, <2>7, NeededFirst
      <3>2. 4 \in 1 .. Len(got)
        BY <2>2, <3>1, PlacesInUse
      <3>3. got[4] = "staging"
        BY <2>3, <3>1, <3>2, PlacesInUse
      <3>4. QED
        BY <2>1, <3>2, <3>3, HeldOnStack
    <2>8. QED
      BY <2>6, <2>7
  <1>3. ASSUME alive["memDC"] > 0
        PROVE  alive["screenDC"] > 0
    <2>1. "memDC" \in HandleKinds /\ "screenDC" \in HandleKinds /\ "memDC" \in Kinds /\ "screenDC" \in Kinds
      BY DEF HandleKinds, Kinds
    <2>2. PICK i \in 1 .. Len(handles) : handles[i] = "memDC"
      BY <1>3, <2>1, HeldOnStack
    <2>3. 1 \in 1 .. Len(handles) /\ handles[1] = "screenDC"
      BY <2>2, PlacesInUse, NeededFirst
    <2>4. QED
      BY <2>1, <2>3, HeldOnStack
  <1>4. ASSUME NEW p \in Outlives, alive[p[2]] > 0
        PROVE  alive[p[1]] > 0
    <2>1. \/ p[1] = "com" /\ p[2] \in {"uia", "root", "focused", "cond", "found"}
          \/ p = <<"dupl", "frame">> \/ p = <<"staging", "mapped">> \/ p = <<"ctx", "mapped">>
          \/ p = <<"screenDC", "memDC">>
      BY <1>4 DEF Outlives
    <2>2. QED
      BY <1>1, <1>2, <1>3, <1>4, <2>1
  <1>5. QED
    BY <1>4 DEF DependentsFirst

LEMMA IInvOneAtATime ==
    ASSUME IInv
    PROVE  OneAtATime
  <1>1. /\ "dupl" \in SessionKinds /\ "frame" \in Deferred /\ "dupl" \in Kinds /\ "frame" \in Kinds
        /\ got \in Seq(Deferred) /\ session \in Seq(SessionKinds) /\ alive \in [Kinds -> Nat] /\ n \in 0 .. 6
    BY DEF SessionKinds, Deferred, Kinds, IInv, TypeOK
  <1>2. alive["dupl"] <= 1
    <2>1. \A i, j \in 1 .. Len(session) : session[i] = "dupl" /\ session[j] = "dupl" => i = j
      BY PlacesInUse, NeededFirst
    <2>2. Count("dupl", session) <= 1
      BY <1>1, <2>1, CountAtMostOne
    <2>3. QED
      BY <1>1, <2>2, HeldOnStack
  <1>3. alive["frame"] <= 1
    <2>1. \A i \in 1 .. Len(got) : got[i] = "frame" => i = 2
      BY PlacesInUse, NeededFirst
    <2>2. Count("frame", got) <= 1
      BY <1>1, <2>1, CountAtMostOne
    <2>3. QED
      BY <1>1, <2>2, HeldOnStack
  <1>4. ASSUME at \in Opening, result = "calling", n < Len(OpenSession)
        PROVE  alive["dupl"] = 0
    <2>1. Len(session) < 3
      <3>1. Len(session) = SessionDepth(n)
        BY <1>4 DEF IInv, SessionShape
      <3>2. n # 6
        BY <1>1, <1>4, CallsLength
      <3>3. QED
        BY <3>1, <3>2 DEF SessionDepth
    <2>2. ~ \E i \in 1 .. Len(session) : session[i] = "dupl"
      BY <2>1, PlacesInUse, NeededFirst
    <2>3. QED
      BY <1>1, <2>2, HeldOnStack
  <1>5. ASSUME at = "frame", n = 0, result = "calling"
        PROVE  alive["frame"] = 0
    <2>1. Len(got) = 0
      BY <1>5, FunctionNames DEF IInv, GotShape, Depth
    <2>2. ~ \E i \in 1 .. Len(got) : got[i] = "frame"
      BY <2>1
    <2>3. QED
      BY <1>1, <2>2, HeldOnStack
  <1>6. QED
    BY <1>2, <1>3, <1>4, <1>5 DEF OneAtATime, Opening

\* Nothing is released while something that needs it is held: not on the way
\* out of a query, of OpenDXGISession or of captureGDI, not when the session
\* is closed under a frame (the order of the defers, and of Close).
THEOREM ReleasedInOrder == Spec => []DependentsFirst
  <1>1. IInv => DependentsFirst
    BY IInvDependentsFirst
  <1>2. QED
    BY <1>1, Shapes, PTL

\* One duplication and one frame at a time: captureFrame closes the session
\* that lost its access before it asks for a new one, and gives a frame back
\* before the next.
THEOREM OneDuplication == Spec => []OneAtATime
  <1>1. IInv => OneAtATime
    BY IInvOneAtATime
  <1>2. QED
    BY <1>1, Shapes, PTL

\* Between two functions Windows counts only what the fields keep for the next
\* tick, a whole session and all three handles or none; once the capturer is
\* closed, it counts nothing.
KeptForNextTick ==
    /\ at \notin Functions => \A k \in Deferred : alive[k] = 0
    /\ at = "waiting" => /\ \A j, k \in SessionKinds : alive[j] > 0 <=> alive[k] > 0
                         /\ \A j, k \in HandleKinds : alive[j] > 0 <=> alive[k] > 0
    /\ at = "closed" => \A k \in Kinds : alive[k] = 0

\* A field's kind is there exactly when all three of its owner are.
LEMMA WholeOrAbsent ==
    ASSUME IInv, at = "waiting"
    PROVE  /\ \A k \in SessionKinds : alive[k] > 0 <=> Len(session) = 3
           /\ \A k \in HandleKinds : alive[k] > 0 <=> Len(handles) = 3
  <1>1. /\ Len(session) \in {0, 3} /\ UpTo(session, SessionStack)
        /\ Len(handles) \in {0, 3} /\ UpTo(handles, HandleStack)
    BY DEF IInv, SessionShape, HandleShape, Opening
  <1>2. \A k \in SessionKinds : (\E i \in 1 .. Len(session) : session[i] = k) <=> Len(session) = 3
    <2>1. CASE Len(session) = 3
      <3>1. session[1] = "device" /\ session[2] = "ctx" /\ session[3] = "dupl"
        BY <1>1, <2>1 DEF UpTo, SessionStack
      <3>2. QED
        BY <2>1, <3>1 DEF SessionKinds
    <2>2. QED
      BY <1>1, <2>1
  <1>3. \A k \in HandleKinds : (\E i \in 1 .. Len(handles) : handles[i] = k) <=> Len(handles) = 3
    <2>1. CASE Len(handles) = 3
      <3>1. handles[1] = "screenDC" /\ handles[2] = "memDC" /\ handles[3] = "bitmap"
        BY <1>1, <2>1 DEF UpTo, HandleStack
      <3>2. QED
        BY <2>1, <3>1 DEF HandleKinds
    <2>2. QED
      BY <1>1, <2>1
  <1>4. QED
    BY <1>2, <1>3, HeldOnStack DEF Kinds

\* No tick leaves anything behind but the fields, and the end leaves nothing,
\* whichever calls failed: the safety half of AllGivenBack (releaseHandles,
\* DXGISession.Close and the defers of every function).
THEOREM NothingLeftBehind == Spec => []KeptForNextTick
  <1>1. ASSUME IInv PROVE KeptForNextTick
    <2>1. ASSUME at \notin Functions, NEW k \in Deferred PROVE alive[k] = 0
      <3>1. got = <<>> /\ alive \in [Kinds -> Nat] /\ k \in Kinds
        BY <1>1, <2>1 DEF IInv, GotShape, TypeOK, Kinds
      <3>2. ~ (alive[k] > 0)
        BY <1>1, <3>1, HeldOnStack
      <3>3. QED
        BY <3>1, <3>2
    <2>2. ASSUME at = "closed", NEW k \in Kinds PROVE alive[k] = 0
      <3>1. session = <<>> /\ handles = <<>> /\ alive \in [Kinds -> Nat]
        BY <1>1, <2>2 DEF IInv, SessionShape, HandleShape, TypeOK
      <3>2. CASE k \in Deferred
        BY <2>1, <2>2, <3>2, FunctionNames
      <3>3. CASE k \in SessionKinds \cup HandleKinds
        BY <1>1, <3>1, <3>3, HeldOnStack
      <3>4. QED
        BY <3>2, <3>3 DEF Kinds
    <2>3. QED
      BY <1>1, <2>1, <2>2, WholeOrAbsent DEF KeptForNextTick
  <1>2. QED
    BY <1>1, Shapes, PTL
=============================================================================
