------------------------- MODULE SessionStoreProofs -------------------------
(***************************************************************************)
(* Theorems about SessionStore, for any number of sessions, rows, writes   *)
(* and messages of a page.                                                 *)
(***************************************************************************)
EXTENDS SessionStore, NumberLemmas

(***************************************************************************)
(* Histories without gaps                                                  *)
(***************************************************************************)
\* A history is a function from 1..n.
LEMMA DenseIs ==
  ASSUME NEW n \in Nat, NEW f \in [1..n -> Role]
  PROVE  Dense(f) /\ DOMAIN f = 1..n /\ Cardinality(DOMAIN f) = n
<1>1. IsFiniteSet(1..n) /\ Cardinality(1..n) = n
  BY FS_Interval
<1> QED
  BY <1>1 DEF Dense

\* A history has a length.
LEMMA DenseSize ==
  ASSUME NEW f, Dense(f)
  PROVE  \E n \in Nat : n = Cardinality(DOMAIN f) /\ f \in [1..n -> Role]
<1>1. Cardinality(DOMAIN f) \in Nat
  BY FS_CardinalityType DEF Dense
<1> QED
  BY <1>1 DEF Dense

\* Top is the greatest of some seqs.
LEMMA TopIsGreatest ==
  ASSUME NEW b \in Nat, NEW S \in SUBSET (1..b)
  PROVE  /\ Top(S) \in Nat /\ Top(S) <= b
         /\ S # {} => Top(S) \in S /\ \A p \in S : p <= Top(S)
         /\ S = {} => Top(S) = 0
<1>1. CASE S = {}
  BY <1>1 DEF Top, NoSeq
<1>2. CASE S # {}
  <2>1. S \in SUBSET Nat /\ \A p \in S : p <= b
    OBVIOUS
  <2>2. \E q \in S : \A p \in S : p <= q
    BY <1>2, <2>1, GreatestNumber
  <2>3. Top(S) = CHOOSE q \in S : \A p \in S : p <= q
    BY <1>2 DEF Top
  <2>4. Top(S) \in S /\ \A p \in S : p <= Top(S)
    BY <2>2, <2>3
  <2> QED
    BY <1>2, <2>1, <2>4
<1> QED
  BY <1>1, <1>2

\* The seq of a message to come.
LEMMA NextSeqOfDense ==
  ASSUME NEW f, NEW n \in Nat, f \in [1..n -> Role]
  PROVE  Top(DOMAIN f) = n
<1>1. DOMAIN f = 1..n
  OBVIOUS
<1>2. CASE n = 0
  <2>1. DOMAIN f = {}
    BY <1>1, <1>2
  <2> QED
    BY <1>2, <2>1 DEF Top, NoSeq
<1>3. CASE n # 0
  <2>1. n \in DOMAIN f
    BY <1>1, <1>3
  <2>2. Top(DOMAIN f) \in DOMAIN f /\ n <= Top(DOMAIN f)
    BY <1>1, <2>1, TopIsGreatest
  <2> QED
    BY <1>1, <2>2
<1> QED
  BY <1>2, <1>3

\* The rows numbered anew: those from a to b, at seqs from 1 on.
LEMMA CopyShifts ==
  ASSUME NEW f, NEW S, NEW a \in Nat \ {0}, NEW b \in Nat, a <= b + 1,
         DOMAIN f \cap S = a..b
  PROVE  Copy(f, S) = [n \in 1..(b - a + 1) |-> f[a + n - 1]]
<1> DEFINE D == DOMAIN f \cap S
<1>1. Cardinality(D) = b - a + 1
  <2>1. Cardinality(a..b) = IF a > b THEN 0 ELSE b - a + 1
    BY FS_Interval
  <2>2. (IF a > b THEN 0 ELSE b - a + 1) = b - a + 1
    OBVIOUS
  <2>3. D = a..b
    OBVIOUS
  <2> QED
    BY <2>1, <2>2, <2>3
<1>2. ASSUME NEW q \in a..b PROVE RowNumber(D, q) = q - a + 1
  <2>1. {p \in D : p <= q} = a..q
    BY <1>2
  <2>2. Cardinality(a..q) = q - a + 1
    BY <1>2, FS_Interval
  <2> QED
    BY <2>1, <2>2 DEF RowNumber
<1>3. ASSUME NEW n \in 1..(b - a + 1)
      PROVE  (CHOOSE q \in D : RowNumber(D, q) = n) = a + n - 1
  <2>1. a + n - 1 \in D /\ RowNumber(D, a + n - 1) = n
    BY <1>2, <1>3
  <2>2. \A q \in D : RowNumber(D, q) = n => q = a + n - 1
    BY <1>2
  <2> QED
    BY <2>1, <2>2
<1>4. Copy(f, S) = [n \in 1..Cardinality(D) |-> f[CHOOSE q \in D : RowNumber(D, q) = n]]
  BY DEF Copy
<1> HIDE DEF D
<1> QED
  BY <1>1, <1>3, <1>4

\* What the calls do with a history of n messages gives a history again.
LEMMA Histories ==
  ASSUME NEW n \in Nat, NEW f \in [1..n -> Role]
  PROVE  /\ \A t \in 1..n :
              /\ Rest(f, Below(t)) \in [1..(t - 1) -> Role]
              /\ Copy(f, Below(t)) = Rest(f, Below(t))
         /\ \E k \in Nat : Copy(f, Window(f)) \in [1..k -> Role]
<1>1. ASSUME NEW t \in 1..n
      PROVE  /\ Rest(f, Below(t)) \in [1..(t - 1) -> Role]
             /\ Copy(f, Below(t)) = Rest(f, Below(t))
  <2>1. DOMAIN f \cap Below(t) = 1..(t - 1)
    BY <1>1 DEF Below
  <2>2. Rest(f, Below(t)) = [q \in 1..(t - 1) |-> f[q]]
    BY <2>1 DEF Rest
  <2>3. Copy(f, Below(t)) = [q \in 1..((t - 1) - 1 + 1) |-> f[1 + q - 1]]
    BY <2>1, CopyShifts
  <2>4. (t - 1) - 1 + 1 = t - 1 /\ \A q \in 1..(t - 1) : 1 + q - 1 = q /\ f[q] \in Role
    BY <1>1
  <2> QED
    BY <2>2, <2>3, <2>4
<1>2. \E k \in Nat : Copy(f, Window(f)) \in [1..k -> Role]
  <2> DEFINE top == Top(Seqs(f, "summary"))
             a == IF top = 0 THEN 1 ELSE top
  <2>1. top \in Nat /\ top <= n
    <3>1. Seqs(f, "summary") \in SUBSET (1..n)
      BY DEF Seqs
    <3> QED
      BY <3>1, TopIsGreatest
  <2>2. a \in Nat \ {0} /\ a <= n + 1
    BY <2>1
  <2>3. DOMAIN f \cap Window(f) = a..n
    BY <2>1 DEF Window
  <2> HIDE DEF a, top
  <2>4. Copy(f, Window(f)) = [q \in 1..(n - a + 1) |-> f[a + q - 1]]
    BY <2>2, <2>3, CopyShifts
  <2>5. n - a + 1 \in Nat /\ \A q \in 1..(n - a + 1) : f[a + q - 1] \in Role
    BY <2>2
  <2> QED
    BY <2>4, <2>5
<1> QED
  BY <1>1, <1>2

(***************************************************************************)
(* Counts                                                                  *)
(***************************************************************************)
\* Every count of a history is a number.
LEMMA CountsAreNumbers ==
  ASSUME NEW n \in Nat, NEW f \in [1..n -> Role]
  PROVE  /\ \A role : IsFiniteSet(Seqs(f, role)) /\ Cardinality(Seqs(f, role)) \in Nat
         /\ \A role : Top(Seqs(f, role)) \in Nat /\ Seqs(f, role) \in SUBSET (1..n)
         /\ IsFiniteSet(DOMAIN f \ Seqs(f, "summary")) /\ Messages(f) \in Nat
         /\ Tools(f) \in Nat /\ Tokens(f) \in Nat
<1>1. DOMAIN f = 1..n /\ IsFiniteSet(1..n)
  BY FS_Interval
<1>2. ASSUME NEW role
      PROVE  /\ Seqs(f, role) \in SUBSET (1..n) /\ IsFiniteSet(Seqs(f, role))
             /\ Cardinality(Seqs(f, role)) \in Nat /\ Top(Seqs(f, role)) \in Nat
  <2>1. Seqs(f, role) \in SUBSET (1..n)
    BY <1>1 DEF Seqs
  <2>2. IsFiniteSet(Seqs(f, role))
    BY <1>1, <2>1, FS_Subset
  <2> QED
    BY <2>1, <2>2, FS_CardinalityType, TopIsGreatest
<1>3. IsFiniteSet(DOMAIN f \ Seqs(f, "summary")) /\ Messages(f) \in Nat
  <2>1. DOMAIN f \ Seqs(f, "summary") \in SUBSET (1..n)
    BY <1>1
  <2>2. IsFiniteSet(DOMAIN f \ Seqs(f, "summary"))
    BY <1>1, <2>1, FS_Subset
  <2> QED
    BY <2>2, FS_CardinalityType DEF Messages
<1> QED
  BY <1>2, <1>3 DEF Tools, Tokens

\* A rollback can only take tokens away.
LEMMA RestHasFewer ==
  ASSUME NEW n \in Nat, NEW f \in [1..n -> Role], NEW t \in 1..n
  PROVE  Tokens(Rest(f, Below(t))) <= Tokens(f)
<1>1. Seqs(Rest(f, Below(t)), "assistant") \in SUBSET Seqs(f, "assistant")
  BY DEF Seqs, Rest
<1>2. IsFiniteSet(Seqs(f, "assistant"))
  BY CountsAreNumbers
<1> QED
  BY <1>1, <1>2, FS_Subset DEF Tokens

\* The history with one message more.
Longer(f, n, role) ==
  [q \in DOMAIN f \cup {n + 1} |-> IF q = n + 1 THEN role ELSE f[q]]

\* One message more is counted where it belongs.
LEMMA LongerCounts ==
  ASSUME NEW n \in Nat, NEW f \in [1..n -> Role], NEW role \in Role
  PROVE  LET g == Longer(f, n, role)
         IN  /\ g \in [1..(n + 1) -> Role]
             /\ \A r : Seqs(g, r) = Seqs(f, r) \cup (IF r = role THEN {n + 1} ELSE {})
             /\ Messages(g) = Messages(f) + (IF role = "summary" THEN 0 ELSE 1)
             /\ Tools(g) = Tools(f) + (IF role = "tool" THEN 1 ELSE 0)
             /\ Tokens(g) = Tokens(f) + (IF role = "assistant" THEN 1 ELSE 0)
<1> DEFINE g == Longer(f, n, role)
<1>1. DOMAIN f = 1..n /\ DOMAIN g = 1..(n + 1) /\ g \in [1..(n + 1) -> Role]
  BY DEF Longer
<1>2. ASSUME NEW r
      PROVE  Seqs(g, r) = Seqs(f, r) \cup (IF r = role THEN {n + 1} ELSE {})
  BY DEF Longer, Seqs
<1>3. ASSUME NEW r
      PROVE  Cardinality(Seqs(g, r)) = Cardinality(Seqs(f, r)) + (IF r = role THEN 1 ELSE 0)
  <2>1. IsFiniteSet(Seqs(f, r)) /\ Cardinality(Seqs(f, r)) \in Nat
    BY CountsAreNumbers
  <2>2. CASE r = role
    <3>1. n + 1 \notin Seqs(f, r)
      BY <1>1 DEF Seqs
    <3> QED
      BY <1>2, <2>1, <2>2, <3>1, FS_AddElement
  <2>3. CASE r # role
    <3>1. Seqs(g, r) = Seqs(f, r)
      BY <1>2, <2>3
    <3> QED
      BY <2>1, <2>3, <3>1
  <2> QED
    BY <2>2, <2>3
<1>4. Messages(g) = Messages(f) + (IF role = "summary" THEN 0 ELSE 1)
  <2> DEFINE S == DOMAIN f \ Seqs(f, "summary")
  <2>1. IsFiniteSet(S) /\ Cardinality(S) \in Nat
    <3>1. IsFiniteSet(S)
      BY CountsAreNumbers
    <3> QED
      BY <3>1, FS_CardinalityType
  <2>2. CASE role = "summary"
    <3>1. DOMAIN g \ Seqs(g, "summary") = S
      BY <1>1, <1>2, <2>2
    <3> QED
      BY <2>1, <2>2, <3>1 DEF Messages
  <2>3. CASE role # "summary"
    <3>1. n + 1 \notin Seqs(f, "summary")
      BY <1>1 DEF Seqs
    <3>2. DOMAIN g \ Seqs(g, "summary") = S \cup {n + 1}
      BY <1>1, <1>2, <2>3, <3>1
    <3>3. Cardinality(S \cup {n + 1}) = Cardinality(S) + 1
      <4>1. n + 1 \notin S
        BY <1>1
      <4> QED
        BY <2>1, <4>1, FS_AddElement
    <3> QED
      BY <2>3, <3>2, <3>3 DEF Messages
  <2> QED
    BY <2>2, <2>3
<1> QED
  BY <1>1, <1>2, <1>3, <1>4 DEF Tools, Tokens

\* Columns keep their type when numbers are put into them.
LEMMA ColumnTypes ==
  ASSUME NEW m \in Meta, NEW a \in Nat, NEW b \in Nat, NEW c \in Nat
  PROVE  /\ [m EXCEPT !.compressions = a, !.last = b] \in Meta
         /\ [m EXCEPT !.messages = a, !.tools = b, !.spent = c] \in Meta
BY DEF Meta

\* The columns the calls compute are numbers.
LEMMA MetaTypes ==
  ASSUME NEW n \in Nat, NEW f \in [1..n -> Role], NEW m \in Meta
  PROVE  /\ NewMeta \in Meta /\ CopiedCounts(f) \in Meta
         /\ Recount(m, f) \in Meta /\ Boundary(m, f) \in Meta
<1>1. /\ Messages(f) \in Nat /\ Tools(f) \in Nat /\ Tokens(f) \in Nat
      /\ Cardinality(Seqs(f, "summary")) \in Nat /\ Top(Seqs(f, "summary")) \in Nat
  BY CountsAreNumbers
<1> QED
  BY <1>1 DEF NewMeta, Meta, CopiedCounts, Recount, Boundary, NoSeq

(***************************************************************************)
(* When the columns agree with the rows                                    *)
(***************************************************************************)
\* They do where all of them are computed anew.
LEMMA ComputedAgrees ==
  ASSUME NEW f, NEW p, NEW m \in Meta
  PROVE  /\ Agrees(Recount(m, f), f, p)
         /\ Agrees(Boundary(CopiedCounts(f), f), f, p)
         /\ Agrees(NewMeta, NoMessages, p)
<1>1. Seqs(f, "summary") \ {} = Seqs(f, "summary") /\ {} \in {{}, {1}}
  OBVIOUS
<1>2. Agrees(Recount(m, f), f, p)
  BY <1>1 DEF Agrees, Recount, Boundary, Meta
<1>3. Agrees(Boundary(CopiedCounts(f), f), f, p)
  BY <1>1 DEF Agrees, CopiedCounts, Boundary, NewMeta
<1>4. Agrees(NewMeta, NoMessages, p)
  <2>1. \A r : Seqs(NoMessages, r) = {}
    BY DEF Seqs, NoMessages
  <2>2. Seqs(NoMessages, "summary") \ {} = {} /\ DOMAIN NoMessages \ Seqs(NoMessages, "summary") = {}
    BY <2>1 DEF NoMessages
  <2>3. Cardinality({}) = 0 /\ Top({}) = 0
    BY FS_EmptySet DEF Top, NoSeq
  <2> QED
    BY <1>1, <2>1, <2>2, <2>3 DEF Agrees, NewMeta, Messages, Tools, NoSeq
<1> QED
  BY <1>2, <1>3, <1>4

\* They do in a child that begins with the window of another session.
LEMMA ChildAgrees ==
  ASSUME NEW n \in Nat, NEW f \in [1..n -> Role], NEW p, p # NoSid
  PROVE  LET g == Copy(f, Window(f)) IN Agrees(CopiedCounts(g), g, p)
<1> DEFINE top == Top(Seqs(f, "summary"))
           a == IF top = 0 THEN 1 ELSE top
           g == Copy(f, Window(f))
<1>1. /\ top \in Nat /\ top <= n
      /\ \A q \in Seqs(f, "summary") : q \in 1..n /\ q <= top /\ top # 0
  <2>1. Seqs(f, "summary") \in SUBSET (1..n)
    BY DEF Seqs
  <2>2. /\ top \in Nat /\ top <= n
        /\ Seqs(f, "summary") # {} => top \in Seqs(f, "summary") /\ \A q \in Seqs(f, "summary") : q <= top
    BY <2>1, TopIsGreatest
  <2> QED
    BY <2>1, <2>2
<1>2. a \in Nat \ {0} /\ a <= n + 1
  BY <1>1
<1>3. DOMAIN f \cap Window(f) = a..n
  BY <1>1 DEF Window
<1>4. \A q \in Seqs(f, "summary") : q <= a
  BY <1>1
<1> HIDE DEF a, top
<1>5. g = [q \in 1..(n - a + 1) |-> f[a + q - 1]]
  BY <1>2, <1>3, CopyShifts
<1>6. Seqs(g, "summary") \ {1} = {}
  <2>1. SUFFICES ASSUME NEW q \in 1..(n - a + 1), f[a + q - 1] = "summary" PROVE q = 1
    BY <1>5 DEF Seqs
  <2>2. a + q - 1 \in 1..n
    BY <1>2
  <2>3. a + q - 1 \in Seqs(f, "summary")
    BY <2>1, <2>2 DEF Seqs
  <2>4. a + q - 1 <= a
    BY <1>4, <2>3
  <2> QED
    BY <1>2, <2>4
<1>7. Cardinality({}) = 0 /\ Top({}) = 0
  BY FS_EmptySet DEF Top, NoSeq
<1> HIDE DEF g
<1> SUFFICES Agrees(CopiedCounts(g), g, p)
  BY DEF g
<1>8. /\ CopiedCounts(g).messages = Messages(g) /\ CopiedCounts(g).tools = Tools(g)
      /\ CopiedCounts(g).compressions = 0 /\ CopiedCounts(g).last = 0
  BY DEF CopiedCounts, NewMeta, NoSeq
<1> QED
  BY <1>6, <1>7, <1>8 DEF Agrees

\* They still do after a message is counted.
LEMMA CountedAgrees ==
  ASSUME NEW n \in Nat, NEW f \in [1..n -> Role], NEW p, NEW m \in Meta, Agrees(m, f, p),
         NEW role \in Role \ {"summary"}
  PROVE  /\ Counted(m, role) \in Meta
         /\ Counted(m, role).spent = m.spent + (IF role = "assistant" THEN 1 ELSE 0)
         /\ Agrees(Counted(m, role), Longer(f, n, role), p)
<1> DEFINE g == Longer(f, n, role)
<1>1. /\ Messages(g) = Messages(f) + 1
      /\ Tools(g) = Tools(f) + (IF role = "tool" THEN 1 ELSE 0)
  BY LongerCounts
<1>2. Seqs(g, "summary") = Seqs(f, "summary")
  <2>1. Seqs(g, "summary") = Seqs(f, "summary") \cup (IF "summary" = role THEN {n + 1} ELSE {})
    BY LongerCounts
  <2> QED
    BY <2>1
<1> HIDE DEF g
<1>3. /\ Counted(m, role).messages = m.messages + 1
      /\ Counted(m, role).tools = m.tools + (IF role = "tool" THEN 1 ELSE 0)
      /\ Counted(m, role).compressions = m.compressions /\ Counted(m, role).last = m.last
      /\ Counted(m, role).spent = m.spent + (IF role = "assistant" THEN 1 ELSE 0)
      /\ Counted(m, role) \in Meta
  <2>1. /\ m.messages \in Nat /\ m.tools \in Nat /\ m.spent \in Nat
        /\ m.compressions \in Nat /\ m.last \in Nat
        /\ DOMAIN m = {"messages", "tools", "spent", "compressions", "last"}
    BY DEF Meta
  <2>2. Counted(m, role) \in Meta
    <3>1. /\ m.messages + 1 \in Nat
          /\ (IF role = "tool" THEN m.tools + 1 ELSE m.tools) \in Nat
          /\ (IF role = "assistant" THEN m.spent + 1 ELSE m.spent) \in Nat
      BY <2>1
    <3> QED
      BY <3>1, ColumnTypes DEF Counted
  <2>3. /\ Counted(m, role).messages = m.messages + 1
        /\ Counted(m, role).compressions = m.compressions /\ Counted(m, role).last = m.last
    BY <2>1 DEF Counted
  <2>4. Counted(m, role).tools = m.tools + (IF role = "tool" THEN 1 ELSE 0)
    BY <2>1 DEF Counted
  <2>5. Counted(m, role).spent = m.spent + (IF role = "assistant" THEN 1 ELSE 0)
    BY <2>1 DEF Counted
  <2> QED
    BY <2>2, <2>3, <2>4, <2>5
<1>4. Agrees(Counted(m, role), g, p)
  BY <1>1, <1>2, <1>3 DEF Agrees
<1> QED
  BY <1>3, <1>4 DEF g

\* They still do after a compaction: where the session was empty nothing is
\* inherited any more.
LEMMA CompactionAgrees ==
  ASSUME NEW n \in Nat, NEW f \in [1..n -> Role], NEW p, NEW m \in Meta, Agrees(m, f, p)
  PROVE  LET m2 == [m EXCEPT !.compressions = @ + 1, !.last = n + 1]
         IN  m2 \in Meta /\ m2.spent = m.spent /\ Agrees(m2, Longer(f, n, "summary"), p)
<1> DEFINE g == Longer(f, n, "summary")
           m2 == [m EXCEPT !.compressions = @ + 1, !.last = n + 1]
           S == Seqs(f, "summary")
<1>1. Messages(g) = Messages(f) /\ Tools(g) = Tools(f) /\ Messages(f) \in Nat /\ Tools(f) \in Nat
  <2>1. "summary" \in Role
    BY DEF Role
  <2>2. /\ Messages(g) = Messages(f) + (IF "summary" = "summary" THEN 0 ELSE 1)
        /\ Tools(g) = Tools(f) + (IF "summary" = "tool" THEN 1 ELSE 0)
    BY <2>1, LongerCounts
  <2>3. Messages(f) \in Nat /\ Tools(f) \in Nat
    BY CountsAreNumbers
  <2> QED
    BY <2>2, <2>3
<1>2. Seqs(g, "summary") = S \cup {n + 1}
  <2>1. "summary" \in Role
    BY DEF Role
  <2>2. Seqs(g, "summary") = S \cup (IF "summary" = "summary" THEN {n + 1} ELSE {})
    BY <2>1, LongerCounts
  <2> QED
    BY <2>2
<1>3. S \in SUBSET (1..n) /\ IsFiniteSet(S)
  BY CountsAreNumbers
<1>4. PICK old \in {{}, {1}} :
        /\ old # {} => p # NoSid
        /\ m.compressions = Cardinality(S \ old) /\ m.last = Top(S \ old)
  BY DEF Agrees
<1> DEFINE inherited == IF n = 0 THEN {} ELSE old
<1>5. Seqs(g, "summary") \ inherited = (S \ old) \cup {n + 1}
  <2>1. n = 0 => S = {}
    BY <1>3
  <2> QED
    BY <1>2, <1>3, <2>1
<1>6. Cardinality((S \ old) \cup {n + 1}) = m.compressions + 1
  <2>1. IsFiniteSet(S \ old) /\ n + 1 \notin S \ old
    <3>1. IsFiniteSet(S \ old)
      BY <1>3, FS_Subset
    <3> QED
      BY <1>3, <3>1
  <2> QED
    BY <1>4, <2>1, FS_AddElement
<1>7. Top((S \ old) \cup {n + 1}) = n + 1
  <2> DEFINE T == (S \ old) \cup {n + 1}
  <2>1. T \in SUBSET (1..(n + 1)) /\ n + 1 \in T
    BY <1>3
  <2>2. Top(T) \in T /\ n + 1 <= Top(T)
    BY <2>1, TopIsGreatest
  <2> QED
    BY <2>1, <2>2
<1>8. /\ m2 \in Meta /\ m2.spent = m.spent /\ m2.compressions = m.compressions + 1
      /\ m2.last = n + 1 /\ m2.messages = m.messages /\ m2.tools = m.tools
  <2>1. /\ m.compressions \in Nat
        /\ DOMAIN m = {"messages", "tools", "spent", "compressions", "last"}
    BY DEF Meta
  <2>2. m2 \in Meta
    <3>1. m.compressions + 1 \in Nat /\ n + 1 \in Nat
      BY <2>1
    <3> QED
      BY <3>1, ColumnTypes
  <2>3. m2.compressions = m.compressions + 1 /\ m2.last = n + 1
    BY <2>1
  <2>4. m2.spent = m.spent /\ m2.messages = m.messages /\ m2.tools = m.tools
    BY <2>1
  <2> QED
    BY <2>2, <2>3, <2>4
<1>9. inherited \in {{}, {1}} /\ (inherited # {} => p # NoSid)
  BY <1>4
<1> HIDE DEF g, m2, S, inherited
<1>10. Agrees(m2, g, p)
  BY <1>1, <1>5, <1>6, <1>7, <1>8, <1>9 DEF Agrees
<1> QED
  BY <1>8, <1>10 DEF g, m2

(***************************************************************************)
(* The invariant                                                           *)
(***************************************************************************)
\* A session the engine runs or loads has a row, or was deleted meanwhile.
Known == \A s \in Sid : live[s] # "off" => s \in stored \cup torn

\* Children have no children, and only ids that were given have any.
Family ==
  \A s \in Sid : parent[s] # NoSid => parent[s] \in given /\ parent[parent[s]] = NoSid

\* Nothing was refunded to a session that is not there.
Unspent == \A s \in Sid \ stored : refunded[s] = 0

IInv ==
  /\ TypeOK /\ Known /\ Family /\ Unspent
  /\ OrphansAreTorn /\ Ledger /\ CountsAreRows

\* A new session has an empty history.
LEMMA NoMessagesDense ==
  NoMessages \in [1..0 -> Role] /\ Dense(NoMessages) /\ Tokens(NoMessages) = 0
<1>1. NoMessages \in [1..0 -> Role]
  BY DEF NoMessages
<1>2. Seqs(NoMessages, "assistant") = {}
  BY DEF Seqs, NoMessages
<1>3. 0 \in Nat /\ Cardinality({}) = 0
  BY FS_EmptySet
<1>4. Dense(NoMessages)
  BY <1>1, <1>3, DenseIs
<1> QED
  BY <1>1, <1>2, <1>3, <1>4 DEF Tokens

\* The empty tables satisfy the invariant.
LEMMA InitIInv == Init => IInv
<1> SUFFICES ASSUME Init PROVE IInv
  OBVIOUS
<1>1. NewMeta \in Meta
  BY DEF NewMeta, Meta, NoSeq
<1>2. TypeOK
  BY <1>1, NoMessagesDense DEF Init, TypeOK, NoSeq
<1>3. Known /\ Family /\ Unspent
  BY DEF Init, Known, Family, Unspent
<1>4. OrphansAreTorn /\ Ledger /\ CountsAreRows
  BY DEF Init, OrphansAreTorn, Ledger, CountsAreRows
<1> QED
  BY <1>2, <1>3, <1>4 DEF IInv

\* Steps that leave the tables alone.
LEMMA QuietKeeps ==
  ASSUME IInv, UNCHANGED <<tables, refunded, torn>>, writes' \in Nat,
         anchor' \in [Sid -> Nat], live' \in [Sid -> {"off", "loading", "on"}],
         \A s \in Sid : live'[s] # "off" => live[s] # "off" \/ s \in stored
  PROVE  IInv'
<1>1. TypeOK'
  BY DEF IInv, TypeOK, tables
<1>2. Known' /\ Family' /\ Unspent'
  BY DEF IInv, Known, Family, Unspent, tables
<1>3. OrphansAreTorn' /\ Ledger' /\ CountsAreRows'
  BY DEF IInv, OrphansAreTorn, Ledger, CountsAreRows, tables
<1> QED
  BY <1>1, <1>2, <1>3 DEF IInv

\* A session that begins with the history f.
LEMMA NewSessionKeeps ==
  ASSUME IInv, NEW n \in Sid, NEW p,
         p # NoSid => p \in Sid /\ p \in stored \cup torn /\ parent[p] = NoSid,
         NEW k \in Nat, NEW f \in [1..k -> Role], NEW m \in Meta,
         m.spent = Tokens(f), Agrees(m, f, p), NewSession(n, p, f, m),
         anchor' \in [Sid -> Nat], live' \in [Sid -> {"off", "loading", "on"}],
         \A s \in Sid : live'[s] # "off" => live[s] # "off" \/ s = n
  PROVE  IInv'
<1>1. /\ n \notin given /\ n \notin stored /\ given' = given \cup {n} /\ stored' = stored \cup {n}
      /\ parent' = [parent EXCEPT ![n] = p] /\ rows' = [rows EXCEPT ![n] = f]
      /\ meta' = [meta EXCEPT ![n] = m]
      /\ UNCHANGED <<todos, snaps, refunded, torn, writes>>
  BY DEF NewSession, IInv, TypeOK
<1>2. Dense(f)
  BY DenseIs
<1>3. TypeOK'
  BY <1>1, <1>2 DEF IInv, TypeOK
<1>4. Known' /\ Unspent'
  BY <1>1 DEF IInv, TypeOK, Known, Unspent
<1>5. p # n /\ (p # NoSid => p \in given)
  BY <1>1, StoreAssumption DEF IInv, TypeOK
<1>6. Family'
  BY <1>1, <1>5, StoreAssumption DEF IInv, TypeOK, Family
<1>7. OrphansAreTorn'
  BY <1>1 DEF IInv, TypeOK, OrphansAreTorn
<1>8. Ledger'
  <2>1. refunded[n] = 0
    BY <1>1 DEF IInv, Unspent
  <2>2. meta'[n].spent = Tokens(rows'[n]) + refunded'[n]
    <3>1. Tokens(f) \in Nat
      BY CountsAreNumbers
    <3>2. meta'[n] = m /\ rows'[n] = f
      BY <1>1 DEF IInv, TypeOK
    <3> QED
      BY <1>1, <2>1, <3>1, <3>2
  <2>3. \A s \in stored : meta'[s] = meta[s] /\ rows'[s] = rows[s]
    BY <1>1 DEF IInv, TypeOK
  <2> QED
    BY <1>1, <2>2, <2>3 DEF IInv, Ledger
<1>9. CountsAreRows'
  <2>1. \A s \in stored : meta'[s] = meta[s] /\ rows'[s] = rows[s] /\ parent'[s] = parent[s]
    BY <1>1 DEF IInv, TypeOK
  <2>2. meta'[n] = m /\ rows'[n] = f /\ parent'[n] = p
    BY <1>1 DEF IInv, TypeOK
  <2> QED
    BY <1>1, <2>1, <2>2 DEF IInv, CountsAreRows
<1> QED
  BY <1>3, <1>4, <1>6, <1>7, <1>8, <1>9 DEF IInv

\* The history and the columns of one session change.
LEMMA RowsKeep ==
  ASSUME IInv, NEW s \in stored, NEW k \in Nat, NEW f \in [1..k -> Role],
         NEW m \in Meta, NEW r \in Nat, m.spent = Tokens(f) + r, Agrees(m, f, parent[s]),
         rows' = [rows EXCEPT ![s] = f], meta' = [meta EXCEPT ![s] = m],
         refunded' = [refunded EXCEPT ![s] = r],
         snaps' \in [Sid -> SUBSET Nat], \A x \in Sid : snaps'[x] # {} => snaps[x] # {},
         UNCHANGED <<stored, given, parent, todos, torn, live>>,
         anchor' \in [Sid -> Nat], writes' \in Nat
  PROVE  IInv'
<1>1. Dense(f) /\ s \in Sid
  BY DenseIs DEF IInv, TypeOK
<1>2. TypeOK'
  BY <1>1 DEF IInv, TypeOK
<1>3. Known' /\ Family' /\ Unspent'
  BY <1>1 DEF IInv, TypeOK, Known, Family, Unspent
<1>4. OrphansAreTorn'
  BY DEF IInv, OrphansAreTorn
<1>5. /\ meta'[s] = m /\ rows'[s] = f /\ refunded'[s] = r
      /\ \A x \in stored \ {s} : /\ meta'[x] = meta[x] /\ rows'[x] = rows[x]
                                /\ refunded'[x] = refunded[x]
  BY <1>1 DEF IInv, TypeOK
<1>6. Ledger'
  BY <1>5 DEF IInv, Ledger
<1>7. CountsAreRows'
  BY <1>5 DEF IInv, CountsAreRows
<1> QED
  BY <1>2, <1>3, <1>4, <1>6, <1>7 DEF IInv

(***************************************************************************)
(* Steps                                                                   *)
(***************************************************************************)
\* A history of the invariant has a length.
LEMMA HistoryOf ==
  ASSUME IInv, NEW s \in Sid
  PROVE  \E n \in Nat : n = Cardinality(DOMAIN rows[s]) /\ rows[s] \in [1..n -> Role]
<1>1. Dense(rows[s])
  BY DEF IInv, TypeOK
<1> QED
  BY <1>1, DenseSize

\* Sessions that begin empty.
LEMMA EmptySessions ==
  ASSUME IInv, NEW n \in Sid, NEW p \in Sid, CreateSession(n) \/ CreateChild(p, n)
  PROVE  IInv'
<1>1. /\ anchor' \in [Sid -> Nat] /\ live' \in [Sid -> {"off", "loading", "on"}]
      /\ \A s \in Sid : live'[s] # "off" => live[s] # "off" \/ s = n
  BY DEF CreateSession, CreateChild, Loading, IInv, TypeOK
<1>2. NewMeta \in Meta /\ NewMeta.spent = 0
  BY DEF NewMeta, Meta, NoSeq
<1>3. \A x : Agrees(NewMeta, NoMessages, x)
  BY <1>2, ComputedAgrees
<1>4. NoMessages \in [1..0 -> Role] /\ Tokens(NoMessages) = NewMeta.spent /\ 0 \in Nat
  BY <1>2, NoMessagesDense
<1>5. CASE CreateSession(n)
  <2>1. NewSession(n, NoSid, NoMessages, NewMeta)
    BY <1>5 DEF CreateSession
  <2>2. Agrees(NewMeta, NoMessages, NoSid)
    BY <1>3
  <2> QED
    BY <1>1, <1>2, <1>4, <2>1, <2>2, NewSessionKeeps
<1>6. CASE CreateChild(p, n)
  <2>1. NewSession(n, p, NoMessages, NewMeta)
    BY <1>6 DEF CreateChild
  <2>2. p \in stored \cup torn /\ parent[p] = NoSid
    BY <1>6 DEF CreateChild, HasSubagentTool, IInv, Known
  <2> QED
    BY <1>1, <1>2, <1>3, <1>4, <2>1, <2>2, NewSessionKeeps
<1> QED
  BY <1>5, <1>6

\* Forks: the counts of a copy are those of its rows.
LEMMA ForkVisibleKeeps ==
  ASSUME IInv, NEW p \in Sid, NEW s \in Sid, NEW n \in Sid, ForkVisible(p, s, n)
  PROVE  IInv'
<1> DEFINE f == Copy(rows[s], Window(rows[s]))
<1>1. PICK k \in Nat : rows[s] \in [1..k -> Role]
  BY HistoryOf
<1>2. PICK j \in Nat : f \in [1..j -> Role]
  BY <1>1, Histories
<1>3. p # NoSid
  BY StoreAssumption
<1>4. Agrees(CopiedCounts(f), f, p)
  BY <1>1, <1>3, ChildAgrees
<1>5. NewSession(n, p, f, CopiedCounts(f)) /\ Loading(n) /\ HasSubagentTool(p)
  BY DEF ForkVisible
<1> HIDE DEF f
<1>6. NewMeta \in Meta
  BY DEF NewMeta, Meta, NoSeq
<1>7. CopiedCounts(f) \in Meta /\ CopiedCounts(f).spent = Tokens(f)
  <2>1. CopiedCounts(f) \in Meta
    BY <1>2, <1>6, MetaTypes
  <2> QED
    BY <2>1 DEF CopiedCounts, NewMeta
<1>8. /\ anchor' \in [Sid -> Nat] /\ live' \in [Sid -> {"off", "loading", "on"}]
      /\ \A x \in Sid : live'[x] # "off" => live[x] # "off" \/ x = n
  BY <1>5 DEF Loading, IInv, TypeOK
<1>9. p \in stored \cup torn /\ parent[p] = NoSid
  BY <1>5 DEF HasSubagentTool, IInv, Known
<1> QED
  BY <1>2, <1>4, <1>5, <1>7, <1>8, <1>9, NewSessionKeeps

\* A fork at a message is a main session of its own.
LEMMA ForkToKeeps ==
  ASSUME IInv, NEW s \in Sid, NEW t, NEW n \in Sid, ForkTo(s, t, n)
  PROVE  IInv'
<1> DEFINE f == Copy(rows[s], Below(t))
<1>1. PICK k \in Nat : rows[s] \in [1..k -> Role]
  BY HistoryOf
<1>2. t \in 1..k
  BY <1>1 DEF ForkTo, CutTarget, Seqs
<1>3. f \in [1..(t - 1) -> Role] /\ t - 1 \in Nat
  <2>1. Rest(rows[s], Below(t)) \in [1..(t - 1) -> Role] /\ f = Rest(rows[s], Below(t))
    BY <1>1, <1>2, Histories
  <2>2. t - 1 \in Nat
    BY <1>2
  <2> HIDE DEF f
  <2> QED
    BY <2>1, <2>2
<1>4. NewSession(n, NoSid, f, Boundary(CopiedCounts(f), f)) /\ UNCHANGED tasks
  BY DEF ForkTo
<1> HIDE DEF f
<1>5. NewMeta \in Meta
  BY DEF NewMeta, Meta, NoSeq
<1>6. CopiedCounts(f) \in Meta /\ Boundary(CopiedCounts(f), f) \in Meta
  <2>1. CopiedCounts(f) \in Meta
    BY <1>3, <1>5, MetaTypes
  <2> QED
    BY <1>3, <2>1, MetaTypes
<1>7. Boundary(CopiedCounts(f), f).spent = Tokens(f)
  <2>1. CopiedCounts(f).spent = Tokens(f)
    BY DEF CopiedCounts, NewMeta
  <2>2. Boundary(CopiedCounts(f), f).spent = CopiedCounts(f).spent
    BY <1>6 DEF Boundary, Meta
  <2> QED
    BY <2>1, <2>2
<1>8. Agrees(Boundary(CopiedCounts(f), f), f, NoSid)
  BY <1>5, ComputedAgrees
<1>9. /\ anchor' \in [Sid -> Nat] /\ live' \in [Sid -> {"off", "loading", "on"}]
      /\ \A x \in Sid : live'[x] # "off" => live[x] # "off" \/ x = n
  BY <1>4 DEF tasks, IInv, TypeOK
<1> QED
  BY <1>3, <1>4, <1>6, <1>7, <1>8, <1>9, NewSessionKeeps

\* What Appended does, as the history with one message more.
LEMMA AppendedLonger ==
  ASSUME IInv, NEW s \in Sid, NEW n \in Nat, rows[s] \in [1..n -> Role],
         NEW role \in Role, Appended(s, role)
  PROVE  /\ NextSeq(s) = n + 1 /\ writes' \in Nat
         /\ rows' = [rows EXCEPT ![s] = Longer(rows[s], n, role)]
<1>1. NextSeq(s) = n + 1
  BY NextSeqOfDense DEF NextSeq
<1> QED
  BY <1>1 DEF Appended, Longer, IInv, TypeOK

\* A message of a turn.
LEMMA InsertKeeps ==
  ASSUME IInv, NEW s \in Sid, NEW role \in Role \ {"summary"}, InsertMessage(s, role)
  PROVE  IInv'
<1>1. PICK n \in Nat : rows[s] \in [1..n -> Role]
  BY HistoryOf
<1> DEFINE f == Longer(rows[s], n, role)
           m == Counted(meta[s], role)
<1>2. s \in stored /\ Appended(s, role) /\ meta[s] \in Meta
  BY DEF InsertMessage, IInv, TypeOK
<1>3. NextSeq(s) = n + 1 /\ writes' \in Nat /\ rows' = [rows EXCEPT ![s] = f]
  BY <1>1, <1>2, AppendedLonger
<1>4. /\ f \in [1..(n + 1) -> Role] /\ n + 1 \in Nat
      /\ Tokens(f) = Tokens(rows[s]) + (IF role = "assistant" THEN 1 ELSE 0)
  BY <1>1, LongerCounts
<1>5. /\ m \in Meta /\ m.spent = meta[s].spent + (IF role = "assistant" THEN 1 ELSE 0)
      /\ Agrees(m, f, parent[s])
  <2>1. Agrees(meta[s], rows[s], parent[s])
    BY <1>2 DEF IInv, CountsAreRows
  <2> QED
    BY <1>1, <1>2, <2>1, CountedAgrees
<1>6. m.spent = Tokens(f) + refunded[s]
  <2>1. meta[s].spent = Tokens(rows[s]) + refunded[s]
    BY <1>2 DEF IInv, Ledger
  <2>2. Tokens(rows[s]) \in Nat /\ refunded[s] \in Nat
    BY <1>1, CountsAreNumbers DEF IInv, TypeOK
  <2> HIDE DEF m, f
  <2> QED
    BY <1>4, <1>5, <2>1, <2>2
<1>7. /\ meta' = [meta EXCEPT ![s] = m] /\ refunded' = [refunded EXCEPT ![s] = refunded[s]]
      /\ refunded[s] \in Nat
      /\ snaps' \in [Sid -> SUBSET Nat] /\ \A x \in Sid : snaps'[x] # {} => snaps[x] # {}
      /\ anchor' \in [Sid -> Nat]
      /\ UNCHANGED <<stored, given, parent, todos, torn, live>>
  BY <1>3 DEF InsertMessage, IInv, TypeOK
<1> HIDE DEF m, f
<1> QED
  BY <1>2, <1>3, <1>4, <1>5, <1>6, <1>7, RowsKeep

\* A compaction, which costs nothing.
LEMMA CompactionKeeps ==
  ASSUME IInv, NEW s \in Sid, MarkCompaction(s)
  PROVE  IInv'
<1>1. PICK n \in Nat : rows[s] \in [1..n -> Role]
  BY HistoryOf
<1> DEFINE f == Longer(rows[s], n, "summary")
           m == [meta[s] EXCEPT !.compressions = @ + 1, !.last = n + 1]
<1>2. s \in stored /\ Appended(s, "summary") /\ meta[s] \in Meta /\ "summary" \in Role
  BY DEF MarkCompaction, IInv, TypeOK, Role
<1>3. NextSeq(s) = n + 1 /\ writes' \in Nat /\ rows' = [rows EXCEPT ![s] = f]
  BY <1>1, <1>2, AppendedLonger
<1>4. f \in [1..(n + 1) -> Role] /\ n + 1 \in Nat /\ Tokens(f) = Tokens(rows[s])
  <2>1. /\ f \in [1..(n + 1) -> Role]
        /\ Tokens(f) = Tokens(rows[s]) + (IF "summary" = "assistant" THEN 1 ELSE 0)
    BY <1>1, <1>2, LongerCounts
  <2>2. Tokens(rows[s]) \in Nat
    BY <1>1, CountsAreNumbers
  <2> QED
    BY <2>1, <2>2
<1>5. m \in Meta /\ m.spent = meta[s].spent /\ Agrees(m, f, parent[s])
  <2>1. Agrees(meta[s], rows[s], parent[s])
    BY <1>2 DEF IInv, CountsAreRows
  <2> QED
    BY <1>1, <1>2, <2>1, CompactionAgrees
<1>6. m.spent = Tokens(f) + refunded[s]
  BY <1>2, <1>4, <1>5 DEF IInv, Ledger
<1>7. /\ meta' = [meta EXCEPT ![s] = m] /\ refunded' = [refunded EXCEPT ![s] = refunded[s]]
      /\ refunded[s] \in Nat
      /\ snaps' \in [Sid -> SUBSET Nat] /\ \A x \in Sid : snaps'[x] # {} => snaps[x] # {}
      /\ anchor' \in [Sid -> Nat]
      /\ UNCHANGED <<stored, given, parent, todos, torn, live>>
  BY <1>3 DEF MarkCompaction, tasks, IInv, TypeOK
<1> HIDE DEF m, f
<1> QED
  BY <1>2, <1>3, <1>4, <1>5, <1>6, <1>7, RowsKeep

\* A rollback: what the deleted rows cost stays spent.
LEMMA RollbackKeeps ==
  ASSUME IInv, NEW s \in Sid, NEW t, RollbackTo(s, t)
  PROVE  IInv'
<1>1. PICK n \in Nat : rows[s] \in [1..n -> Role]
  BY HistoryOf
<1> DEFINE f == Rest(rows[s], Below(t))
           m == Recount(meta[s], f)
           r == refunded[s] + (Tokens(rows[s]) - Tokens(f))
<1>2. t \in 1..n /\ s \in stored
  BY <1>1 DEF RollbackTo, CutTarget, Seqs
<1>3. f \in [1..(t - 1) -> Role] /\ t - 1 \in Nat
  <2>1. t - 1 \in Nat
    BY <1>2
  <2> QED
    BY <1>1, <1>2, <2>1, Histories
<1>4. /\ Tokens(f) \in Nat /\ Tokens(rows[s]) \in Nat /\ refunded[s] \in Nat
      /\ Tokens(f) <= Tokens(rows[s])
  <2>1. Tokens(f) <= Tokens(rows[s])
    BY <1>1, <1>2, RestHasFewer
  <2>2. Tokens(rows[s]) \in Nat /\ refunded[s] \in Nat
    BY <1>1, CountsAreNumbers DEF IInv, TypeOK
  <2>3. Tokens(f) \in Nat
    BY <1>3, CountsAreNumbers
  <2> QED
    BY <2>1, <2>2, <2>3
<1>5. /\ rows' = [rows EXCEPT ![s] = f] /\ meta' = [meta EXCEPT ![s] = m]
      /\ refunded' = [refunded EXCEPT ![s] = r]
      /\ snaps' = [snaps EXCEPT ![s] = @ \cap Below(t)]
      /\ UNCHANGED <<stored, given, parent, todos, tasks, torn, writes>>
  BY DEF RollbackTo
<1> HIDE DEF f
<1>6. r \in Nat
  BY <1>4
<1>7. meta[s] \in Meta /\ meta[s].spent = Tokens(rows[s]) + refunded[s]
  BY <1>2 DEF IInv, TypeOK, Ledger
<1>8. m \in Meta /\ Agrees(m, f, parent[s])
  BY <1>3, <1>7, MetaTypes, ComputedAgrees
<1>9. m.spent = Tokens(f) + r
  <2>1. m.spent = meta[s].spent
    BY <1>7 DEF Recount, Boundary, Meta
  <2> QED
    BY <1>4, <1>7, <2>1
<1>10. /\ snaps' \in [Sid -> SUBSET Nat] /\ \A x \in Sid : snaps'[x] # {} => snaps[x] # {}
       /\ anchor' \in [Sid -> Nat] /\ writes' \in Nat
       /\ UNCHANGED <<stored, given, parent, todos, torn, live>>
  BY <1>5 DEF tasks, IInv, TypeOK
<1> HIDE DEF m, r
<1> QED
  BY <1>2, <1>3, <1>5, <1>6, <1>8, <1>9, <1>10, RowsKeep

\* Rows without a foreign key are written by sessions that run.
LEMMA WritesKeep ==
  ASSUME IInv, NEW s \in Sid,
         InsertFileSnapshot(s) \/ \E some \in BOOLEAN : WriteTodos(s, some)
  PROVE  IInv'
<1>1. /\ s \in stored \cup torn /\ anchor[s] \in Nat
      /\ UNCHANGED <<stored, given, parent, meta, rows, live, anchor, refunded, torn, writes>>
  BY DEF InsertFileSnapshot, WriteTodos, tasks, IInv, TypeOK, Known
<1>2. /\ snaps' \in [Sid -> SUBSET Nat] /\ \A x \in Sid \ {s} : snaps'[x] = snaps[x]
      /\ todos' \subseteq todos \cup {s}
  <2>1. CASE InsertFileSnapshot(s)
    BY <1>1, <2>1 DEF InsertFileSnapshot, IInv, TypeOK
  <2>2. CASE \E some \in BOOLEAN : WriteTodos(s, some)
    BY <2>2 DEF WriteTodos, IInv, TypeOK
  <2> QED
    BY <2>1, <2>2
<1>3. TypeOK'
  BY <1>1, <1>2 DEF IInv, TypeOK
<1>4. Known' /\ Family' /\ Unspent' /\ Ledger' /\ CountsAreRows'
  BY <1>1 DEF IInv, Known, Family, Unspent, Ledger, CountsAreRows
<1>5. OrphansAreTorn'
  BY <1>1, <1>2 DEF IInv, OrphansAreTorn
<1> QED
  BY <1>3, <1>4, <1>5 DEF IInv

\* A deletion takes the children along: a child of a deleted child there is none.
LEMMA DeleteKeeps ==
  ASSUME IInv, NEW s \in Sid, Delete(s)
  PROVE  IInv'
<1> DEFINE G == Group(s)
<1>1. /\ stored' = stored \ G /\ todos' = todos \ G
      /\ meta' = [x \in Sid |-> IF x \in G THEN NewMeta ELSE meta[x]]
      /\ rows' = [x \in Sid |-> IF x \in G THEN NoMessages ELSE rows[x]]
      /\ snaps' = [x \in Sid |-> IF x \in G THEN {} ELSE snaps[x]]
      /\ torn' = torn \cup {x \in G : live[x] # "off"}
      /\ refunded' = [x \in Sid |-> IF x \in G THEN 0 ELSE refunded[x]]
      /\ UNCHANGED <<given, parent, live, anchor, writes>>
  BY DEF Delete, tasks
<1>2. G \subseteq stored /\ \A x \in G : x = s \/ parent[x] = s
  BY DEF Group
<1>3. \A x \in stored : parent[x] \in G => x \in G
  <2>1. SUFFICES ASSUME NEW x \in stored, parent[x] \in G, parent[x] # s PROVE FALSE
    BY DEF Group
  <2>2. parent[parent[x]] = s
    BY <1>2, <2>1
  <2>3. parent[x] # NoSid /\ x \in Sid
    BY <1>2, <2>1, StoreAssumption DEF IInv, TypeOK
  <2>4. parent[parent[x]] = NoSid
    BY <2>3 DEF IInv, Family
  <2> QED
    BY <2>2, <2>4, StoreAssumption
<1> HIDE DEF G
<1>4. NewMeta \in Meta
  BY DEF NewMeta, Meta, NoSeq
<1>5. TypeOK'
  BY <1>1, <1>2, <1>4, NoMessagesDense DEF IInv, TypeOK
<1>6. Known' /\ Family' /\ Unspent'
  BY <1>1, <1>2 DEF IInv, TypeOK, Known, Family, Unspent
<1>7. OrphansAreTorn'
  BY <1>1, <1>2, <1>3 DEF IInv, TypeOK, OrphansAreTorn
<1>8. \A x \in stored' : /\ x \in stored /\ meta'[x] = meta[x] /\ rows'[x] = rows[x]
                        /\ refunded'[x] = refunded[x] /\ parent'[x] = parent[x]
  BY <1>1 DEF IInv, TypeOK
<1>9. Ledger' /\ CountsAreRows'
  BY <1>8 DEF IInv, Ledger, CountsAreRows
<1> QED
  BY <1>5, <1>6, <1>7, <1>9 DEF IInv

\* Tasks that come and go, and clients that read, leave the tables alone.
LEMMA QuietSteps ==
  ASSUME IInv, NEW s \in Sid,
         \/ Resume(s) \/ Mount(s) \/ EndTurn(s) \/ FirstPage(s) \/ NextPage \/ CloseReader
         \/ \E S \in SUBSET Sid : Leave(S)
         \/ UNCHANGED vars
  PROVE  IInv'
<1>1. /\ anchor \in [Sid -> Nat] /\ live \in [Sid -> {"off", "loading", "on"}] /\ writes \in Nat
  BY DEF IInv, TypeOK
<1>2. CASE Resume(s) \/ Mount(s) \/ EndTurn(s)
  <2>1. UNCHANGED <<tables, refunded, torn, writes>>
    BY <1>2 DEF Resume, Mount, EndTurn
  <2>2. /\ anchor' \in [Sid -> Nat] /\ live' \in [Sid -> {"off", "loading", "on"}]
        /\ \A x \in Sid : live'[x] # "off" => live[x] # "off" \/ x \in stored
    BY <1>1, <1>2 DEF Resume, Loading, Mount, EndTurn, NoSeq
  <2> QED
    BY <1>1, <2>1, <2>2, QuietKeeps
<1>3. CASE FirstPage(s) \/ NextPage \/ CloseReader
  <2>1. UNCHANGED <<tables, tasks, refunded, torn, writes>>
    BY <1>3 DEF FirstPage, NextPage, CloseReader, ShowPage
  <2> QED
    BY <1>1, <2>1, QuietKeeps DEF tasks
<1>4. CASE \E S \in SUBSET Sid : Leave(S)
  <2>1. PICK S \in SUBSET Sid : Leave(S)
    BY <1>4
  <2>2. UNCHANGED <<tables, refunded, torn, writes>>
    BY <2>1 DEF Leave
  <2>3. /\ anchor' \in [Sid -> Nat] /\ live' \in [Sid -> {"off", "loading", "on"}]
        /\ \A x \in Sid : live'[x] # "off" => live[x] # "off"
    BY <1>1, <2>1 DEF Leave, NoSeq
  <2> QED
    BY <1>1, <2>2, <2>3, QuietKeeps
<1>5. CASE UNCHANGED vars
  BY <1>1, <1>5, QuietKeeps DEF vars, tasks
<1> QED
  BY <1>2, <1>3, <1>4, <1>5

\* Every step keeps the invariant.
LEMMA StepKeeps == IInv /\ [Next]_vars => IInv'
<1> SUFFICES ASSUME IInv, [Next]_vars PROVE IInv'
  OBVIOUS
<1>1. ASSUME NEW s \in Sid, TaskStep(s) PROVE IInv'
  <2>1. CASE Mount(s) \/ EndTurn(s)
    BY <2>1, QuietSteps
  <2>2. CASE MarkCompaction(s)
    BY <2>2, CompactionKeeps
  <2>3. CASE InsertFileSnapshot(s) \/ \E some \in BOOLEAN : WriteTodos(s, some)
    BY <2>3, WritesKeep
  <2>4. CASE \E role \in Role \ {"summary"} : InsertMessage(s, role)
    BY <2>4, InsertKeeps
  <2>5. CASE \E n \in Sid : CreateChild(s, n)
    BY <2>5, EmptySessions
  <2>6. CASE \E n \in Sid : \E x \in Sid : ForkVisible(s, x, n)
    BY <2>6, ForkVisibleKeeps
  <2> QED
    BY <1>1, <2>1, <2>2, <2>3, <2>4, <2>5, <2>6 DEF TaskStep
<1>2. ASSUME NEW s \in Sid, AppStep(s) PROVE IInv'
  <2>1. CASE CreateSession(s)
    BY <2>1, EmptySessions
  <2>2. CASE Resume(s) \/ Leave({s}) \/ FirstPage(s)
    <3>1. {s} \in SUBSET Sid
      OBVIOUS
    <3> QED
      BY <2>2, <3>1, QuietSteps
  <2>3. CASE Delete(s)
    BY <2>3, DeleteKeeps
  <2>4. CASE \E t \in 1..MaxRows : RollbackTo(s, t)
    BY <2>4, RollbackKeeps
  <2>5. CASE \E t \in 1..MaxRows : \E n \in Sid : ForkTo(s, t, n)
    BY <2>5, ForkToKeeps
  <2> QED
    BY <1>2, <2>1, <2>2, <2>3, <2>4, <2>5 DEF AppStep
<1>3. CASE Leave(Sid) \/ NextPage \/ CloseReader \/ UNCHANGED vars
  <2>1. CASE Sid = {}
    <3>1. ~Leave(Sid)
      BY <2>1 DEF Leave
    <3>2. UNCHANGED <<tables, tasks, refunded, torn, writes>>
      BY <1>3, <3>1 DEF NextPage, CloseReader, ShowPage, vars
    <3> QED
      BY <3>2, QuietKeeps DEF tasks, IInv, TypeOK
  <2>2. CASE Sid # {}
    <3>1. PICK s \in Sid : TRUE
      BY <2>2
    <3> QED
      BY <1>3, QuietSteps
  <2> QED
    BY <2>1, <2>2
<1> QED
  BY <1>1, <1>2, <1>3 DEF Next

(***************************************************************************)
(* Paging through a history                                                *)
(***************************************************************************)
LEMMA IntervalSize ==
  ASSUME NEW a \in Nat, NEW b \in Nat, a <= b + 1
  PROVE  IsFiniteSet(a..b) /\ Cardinality(a..b) = b - a + 1
<1>1. IsFiniteSet(a..b) /\ Cardinality(a..b) = IF a > b THEN 0 ELSE b - a + 1
  BY FS_Interval
<1> QED
  BY <1>1

\* A page is the newest messages before the cursor: a full one goes down to its oldest
\* message, one that is not full down to the first.
LEMMA PageIs ==
  ASSUME NEW n \in Nat, NEW f \in [1..n -> Role], NEW before \in 0..n,
         NEW m \in Nat, m = IF before = NoSeq THEN n ELSE before - 1
  PROVE  LET page == Page(f, before) IN
         /\ IsFiniteSet(page) /\ Cardinality(page) \in Nat
         /\ Full(page) => Oldest(page) \in 1..m /\ page = Oldest(page)..m
         /\ ~Full(page) => page = 1..m
<1> DEFINE page == Page(f, before)
           low == m - PageSize + 1
<1>1. PageSize \in Nat /\ PageSize >= 1
  BY StoreAssumption
<1>2. page = {q \in 1..m : m - q < PageSize}
  <2>1. {q \in DOMAIN f : before = NoSeq \/ q < before} = 1..m
    BY DEF NoSeq
  <2>2. ASSUME NEW q \in 1..m PROVE Cardinality({p \in 1..m : q < p}) = m - q
    <3>1. {p \in 1..m : q < p} = (q + 1)..m
      OBVIOUS
    <3>2. q + 1 \in Nat /\ q + 1 <= m + 1 /\ m - (q + 1) + 1 = m - q
      OBVIOUS
    <3>3. Cardinality((q + 1)..m) = m - (q + 1) + 1
      BY <3>2, IntervalSize
    <3> QED
      BY <3>1, <3>2, <3>3
  <2> QED
    BY <2>1, <2>2 DEF Page
<1> HIDE DEF page
<1>3. CASE m >= PageSize
  <2>1. page = low..m /\ low \in 1..m
    BY <1>1, <1>2, <1>3
  <2>2. IsFiniteSet(page) /\ Cardinality(page) = PageSize
    <3>1. low \in Nat /\ low <= m + 1 /\ m - low + 1 = PageSize
      BY <1>1, <2>1
    <3> HIDE DEF low
    <3>2. IsFiniteSet(low..m) /\ Cardinality(low..m) = m - low + 1
      BY <3>1, IntervalSize
    <3> QED
      BY <2>1, <3>1, <3>2
  <2>3. Oldest(page) = low
    <3>1. low \in page /\ \A q \in page : low <= q
      BY <2>1
    <3>2. \A q \in page : (\A p \in page : q <= p) => q = low
      BY <2>1
    <3> HIDE DEF low
    <3> QED
      BY <3>1, <3>2 DEF Oldest
  <2> QED
    BY <1>1, <2>1, <2>2, <2>3 DEF Full, page
<1>4. CASE m < PageSize
  <2>1. page = 1..m
    BY <1>1, <1>2, <1>4
  <2>2. IsFiniteSet(page) /\ Cardinality(page) = m
    <3>1. 1 \in Nat /\ 1 <= m + 1 /\ m - 1 + 1 = m
      OBVIOUS
    <3>2. IsFiniteSet(1..m) /\ Cardinality(1..m) = m - 1 + 1
      BY <3>1, IntervalSize
    <3> QED
      BY <2>1, <3>1, <3>2
  <2> QED
    BY <1>4, <2>1, <2>2 DEF Full, page
<1> QED
  BY <1>1, <1>3, <1>4

\* The reader has shown the messages from the newest of its first page down to its cursor,
\* and they are still there.
Reading ==
  /\ reader.sid \in stored /\ reader.top \in Nat /\ reader.cursor \in Nat
  /\ 1..reader.top \subseteq DOMAIN rows[reader.sid]
  /\ reader.more => reader.cursor \in 1..reader.top
  /\ reader.shown = {q \in 1..reader.top : reader.cursor <= q}
  /\ IsFiniteSet(reader.shown) /\ reader.items = Cardinality(reader.shown)
ReaderInv == reader = NoReader \/ Reading

\* A page that follows what was shown.
LEMMA ShowsOn ==
  ASSUME IInv, NEW s \in stored, NEW n \in Nat, rows[s] \in [1..n -> Role],
         NEW top \in 0..n, NEW before \in 0..n, before = NoSeq => top = n,
         NEW m \in Nat, m = IF before = NoSeq THEN n ELSE before - 1, m <= top,
         NEW shown, IsFiniteSet(shown), shown = (m + 1)..top,
         reader.items = Cardinality(shown),
         ShowPage(s, top, Page(rows[s], before), shown)
  PROVE  ReaderInv'
<1> DEFINE page == Page(rows[s], before)
           cursor == IF Full(page) THEN Oldest(page) ELSE NoSeq
<1>1. /\ IsFiniteSet(page) /\ Cardinality(page) \in Nat
      /\ Full(page) => Oldest(page) \in 1..m /\ page = Oldest(page)..m
      /\ ~Full(page) => page = 1..m
  BY PageIs
<1>2. /\ reader' = [sid |-> s, top |-> top, more |-> Full(page), shown |-> shown \cup page,
                    cursor |-> cursor, items |-> reader.items + Cardinality(page)]
      /\ stored' = stored /\ rows' = rows
  BY DEF ShowPage, tables
<1> HIDE DEF page
<1>3. cursor \in Nat /\ (Full(page) => cursor \in 1..top)
  BY <1>1 DEF NoSeq
<1>4. shown \cup page = {q \in 1..top : cursor <= q}
  <2>1. CASE Full(page)
    BY <1>1, <2>1
  <2>2. CASE ~Full(page)
    BY <1>1, <2>2 DEF NoSeq
  <2> QED
    BY <2>1, <2>2
<1>5. IsFiniteSet(shown \cup page)
      /\ Cardinality(shown \cup page) = Cardinality(shown) + Cardinality(page)
  <2>1. shown \cap page = {}
    BY <1>1
  <2>2. Cardinality({}) = 0 /\ Cardinality(shown) \in Nat
    BY FS_EmptySet, FS_CardinalityType
  <2>3. /\ IsFiniteSet(shown \cup page)
        /\ Cardinality(shown \cup page) = Cardinality(shown) + Cardinality(page)
                                         - Cardinality(shown \cap page)
    BY <1>1, FS_Union
  <2>4. Cardinality(shown \cap page) = 0
    BY <2>1, <2>2, Zenon
  <2>5. \A a, b \in Nat : a + b - 0 = a + b
    OBVIOUS
  <2> QED
    BY <1>1, <2>2, <2>3, <2>4, <2>5
<1>6. 1..top \subseteq DOMAIN rows[s]
  OBVIOUS
<1> HIDE DEF cursor
<1> QED
  BY <1>2, <1>3, <1>4, <1>5, <1>6 DEF ReaderInv, Reading

\* Rows of a history in which somebody reads are only added.
LEMMA ReadingGoesOn ==
  ASSUME ReaderInv,
         \/ reader' = NoReader
         \/ /\ reader' = reader
            /\ reader = NoReader \/
                 (reader.sid \in stored' /\ DOMAIN rows[reader.sid] \subseteq DOMAIN rows'[reader.sid])
  PROVE  ReaderInv'
BY DEF ReaderInv, Reading

LEMMA ReaderWrites ==
  ASSUME IInv, ReaderInv, NEW s \in Sid, NEW role \in Role, Appended(s, role),
         UNCHANGED <<stored, reader>>
  PROVE  ReaderInv'
<1>1. DOMAIN rows = Sid
  BY DEF IInv, TypeOK
<1>2. \A x \in Sid : DOMAIN rows[x] \subseteq DOMAIN rows'[x]
  BY <1>1 DEF Appended
<1>3. stored \subseteq Sid
  BY DEF IInv, TypeOK
<1> QED
  BY <1>2, <1>3, ReadingGoesOn DEF ReaderInv, Reading

LEMMA ReaderNewSession ==
  ASSUME IInv, ReaderInv, NEW n, NEW p, NEW f, NEW m, NewSession(n, p, f, m)
  PROVE  ReaderInv'
<1>1. /\ DOMAIN rows = Sid /\ stored \subseteq given /\ given \subseteq Sid
      /\ n \notin given /\ stored' = stored \cup {n} /\ rows' = [rows EXCEPT ![n] = f]
      /\ reader' = reader
  BY DEF NewSession, IInv, TypeOK
<1>2. \A x \in stored : rows'[x] = rows[x]
  BY <1>1
<1> QED
  BY <1>1, <1>2, ReadingGoesOn DEF ReaderInv, Reading

\* Who takes rows away makes the reader of that history begin again.
LEMMA ReaderDeletes ==
  ASSUME IInv, ReaderInv, NEW s \in Sid, Delete(s) \/ \E t \in 1..MaxRows : RollbackTo(s, t)
  PROVE  ReaderInv'
<1>1. DOMAIN rows = Sid /\ stored \subseteq Sid
  BY DEF IInv, TypeOK
<1>2. CASE Delete(s)
  <2>1. /\ reader' = IF reader.sid \in Group(s) THEN NoReader ELSE reader
        /\ stored' = stored \ Group(s)
        /\ rows' = [x \in Sid |-> IF x \in Group(s) THEN NoMessages ELSE rows[x]]
    BY <1>2 DEF Delete, Reloaded
  <2> QED
    BY <1>1, <2>1, ReadingGoesOn DEF ReaderInv, Reading
<1>3. CASE \E t \in 1..MaxRows : RollbackTo(s, t)
  <2>1. PICK f : /\ reader' = IF reader.sid \in {s} THEN NoReader ELSE reader
                 /\ stored' = stored /\ rows' = [rows EXCEPT ![s] = f]
    BY <1>3 DEF RollbackTo, Reloaded
  <2>2. \A x \in Sid \ {s} : rows'[x] = rows[x]
    BY <1>1, <2>1
  <2> QED
    BY <1>1, <2>1, <2>2, ReadingGoesOn DEF ReaderInv, Reading
<1> QED
  BY <1>2, <1>3

LEMMA ReaderPages ==
  ASSUME IInv, ReaderInv, (\E s \in Sid : FirstPage(s)) \/ NextPage
  PROVE  ReaderInv'
<1>1. CASE \E s \in Sid : FirstPage(s)
  <2>1. PICK s \in Sid : FirstPage(s)
    BY <1>1
  <2>2. PICK n \in Nat : rows[s] \in [1..n -> Role]
    BY HistoryOf
  <2>3. Top(DOMAIN rows[s]) = n
    BY <2>2, NextSeqOfDense
  <2>4. /\ s \in stored /\ reader.items = 0
        /\ ShowPage(s, n, Page(rows[s], NoSeq), {})
    BY <2>1, <2>3 DEF FirstPage, NoReader
  <2>5. /\ IsFiniteSet({}) /\ Cardinality({}) = 0 /\ {} = (n + 1)..n
        /\ n \in 0..n /\ NoSeq \in 0..n
    BY FS_EmptySet DEF NoSeq
  <2> QED
    BY <2>2, <2>4, <2>5, ShowsOn
<1>2. CASE NextPage
  <2>1. Reading /\ reader.more
    BY <1>2 DEF NextPage, ReaderInv, NoReader
  <2>2. PICK s \in stored, top \in Nat, before \in Nat :
          before \in 1..top /\ s = reader.sid /\ top = reader.top /\ before = reader.cursor
    BY <2>1 DEF Reading
  <2>s. PICK shown : shown = reader.shown
    OBVIOUS
  <2>3. s \in Sid
    BY DEF IInv, TypeOK
  <2>4. PICK n \in Nat : rows[s] \in [1..n -> Role]
    BY <2>3, HistoryOf
  <2>5. top <= n
    <3>1. 1..top \subseteq 1..n
      BY <2>1, <2>2, <2>4 DEF Reading
    <3> QED
      BY <3>1
  <2> DEFINE m == before - 1
  <2>6. /\ m \in Nat /\ m <= top /\ before # NoSeq /\ before \in 0..n /\ top \in 0..n
        /\ m = IF before = NoSeq THEN n ELSE before - 1
    BY <2>2, <2>5 DEF NoSeq
  <2>7. shown = (m + 1)..top /\ IsFiniteSet(shown) /\ reader.items = Cardinality(shown)
    BY <2>1, <2>2, <2>s DEF Reading
  <2>8. ShowPage(s, top, Page(rows[s], before), shown)
    BY <1>2, <2>2, <2>s DEF NextPage
  <2> HIDE DEF m
  <2> QED
    BY <2>4, <2>6, <2>7, <2>8, ShowsOn
<1> QED
  BY <1>1, <1>2

LEMMA ReaderKeeps == IInv /\ ReaderInv /\ [Next]_vars => ReaderInv'
<1> SUFFICES ASSUME IInv, ReaderInv, [Next]_vars PROVE ReaderInv'
  OBVIOUS
<1>1. ASSUME UNCHANGED <<stored, rows, reader>> PROVE ReaderInv'
  BY <1>1, ReadingGoesOn DEF ReaderInv, Reading
<1>2. ASSUME NEW s \in Sid, TaskStep(s) PROVE ReaderInv'
  <2>1. CASE \/ Mount(s) \/ EndTurn(s) \/ InsertFileSnapshot(s)
             \/ \E some \in BOOLEAN : WriteTodos(s, some)
    BY <1>1, <2>1 DEF Mount, EndTurn, InsertFileSnapshot, WriteTodos, tables
  <2>2. CASE MarkCompaction(s) \/ \E role \in Role \ {"summary"} : InsertMessage(s, role)
    <3>1. \E role \in Role : Appended(s, role) /\ UNCHANGED <<stored, reader>>
      BY <2>2 DEF MarkCompaction, InsertMessage, Role
    <3> QED
      BY <3>1, ReaderWrites
  <2>3. CASE \E n \in Sid : CreateChild(s, n) \/ \E x \in Sid : ForkVisible(s, x, n)
    <3>1. \E n, p, f, m : NewSession(n, p, f, m)
      BY <2>3 DEF CreateChild, ForkVisible
    <3> QED
      BY <3>1, ReaderNewSession
  <2> QED
    BY <1>2, <2>1, <2>2, <2>3 DEF TaskStep
<1>3. ASSUME NEW s \in Sid, AppStep(s) PROVE ReaderInv'
  <2>1. CASE Resume(s) \/ Leave({s})
    BY <1>1, <2>1 DEF Resume, Leave, tables
  <2>2. CASE CreateSession(s) \/ \E t \in 1..MaxRows : \E n \in Sid : ForkTo(s, t, n)
    <3>1. \E n, p, f, m : NewSession(n, p, f, m)
      BY <2>2 DEF CreateSession, ForkTo
    <3> QED
      BY <3>1, ReaderNewSession
  <2>3. CASE Delete(s) \/ \E t \in 1..MaxRows : RollbackTo(s, t)
    BY <2>3, ReaderDeletes
  <2>4. CASE FirstPage(s)
    BY <2>4, ReaderPages
  <2> QED
    BY <1>3, <2>1, <2>2, <2>3, <2>4 DEF AppStep
<1>4. CASE Leave(Sid) \/ UNCHANGED vars
  BY <1>1, <1>4 DEF Leave, tables, vars
<1>5. CASE NextPage
  BY <1>5, ReaderPages
<1>6. CASE CloseReader
  BY <1>6, ReadingGoesOn DEF CloseReader
<1> QED
  BY <1>2, <1>3, <1>4, <1>5, <1>6 DEF Next

\* The invariant holds in every behaviour.
LEMMA InvariantHolds == Spec => []IInv
BY InitIInv, StepKeeps, PTL DEF Spec

(***************************************************************************)
(* The theorems                                                            *)
(***************************************************************************)
\* The tables keep their form: every history has the seqs 1, 2, .. without a gap
\* after any sequence of insertions, rollbacks, compactions, copies and deletions.
THEOREM StoreTypeCorrect == Spec => []TypeOK
<1>1. IInv => TypeOK
  BY DEF IInv
<1> QED
  BY <1>1, InvariantHolds, PTL

\* Counts and compaction columns say what the rows say, in every session.
THEOREM ColumnsSayWhatRowsSay == Spec => []CountsAreRows
<1>1. IInv => CountsAreRows
  BY DEF IInv
<1> QED
  BY <1>1, InvariantHolds, PTL

\* A ledger holds what the rows cost and what rollbacks have deleted, once.
THEOREM LedgersAreRight == Spec => []Ledger
<1>1. IInv => Ledger
  BY DEF IInv
<1> QED
  BY <1>1, InvariantHolds, PTL

\* Leftovers of a session come from its deletion under a running or loading task.
THEOREM OnlyTornSessionsLeaveOrphans == Spec => []OrphansAreTorn
<1>1. IInv => OrphansAreTorn
  BY DEF IInv
<1> QED
  BY <1>1, InvariantHolds, PTL

\* Whoever pages through a history, while it grows, others are copied, rolled back or
\* deleted and tasks come and go, sees every message from the newest of the first page down
\* to the cursor, once: for any size of page and any length of history.
THEOREM PagesShowAllOnce == Spec => []PagesAreWhole
<1>1. Init => ReaderInv
  BY DEF Init, ReaderInv
<1>2. IInv /\ ReaderInv => PagesAreWhole
  <2> SUFFICES ASSUME IInv, Reading
               PROVE  /\ reader.shown = {q \in DOMAIN rows[reader.sid] :
                                           reader.cursor <= q /\ q <= reader.top}
                      /\ reader.items = Cardinality(reader.shown)
    BY DEF ReaderInv, PagesAreWhole
  <2>1. reader.sid \in Sid
    BY DEF Reading, IInv, TypeOK
  <2>2. PICK n \in Nat : rows[reader.sid] \in [1..n -> Role]
    BY <2>1, HistoryOf
  <2>3. DOMAIN rows[reader.sid] = 1..n
    BY <2>2
  <2> QED
    BY <2>3 DEF Reading
<1>3. IInv /\ ReaderInv /\ [Next]_vars => ReaderInv'
  BY ReaderKeeps
<1> QED
  BY <1>1, <1>2, <1>3, InvariantHolds, PTL DEF Spec
=============================================================================
