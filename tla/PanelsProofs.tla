---------------------------- MODULE PanelsProofs -----------------------------
(***************************************************************************)
(* Proofs about Panels for every set of machines, every list the proxy may *)
(* start with, and any bound on edits, commands and checks.                *)
(*                                                                         *)
(* Lists come first: what removing an element does to one, by an induction *)
(* over the numbers in a set.  Then the terminal, the page, and the page's *)
(* list, which lags behind the proxy's by the edits that were served and   *)
(* whose answers are still on their way.                                   *)
(***************************************************************************)
EXTENDS Panels, FiniteSetTheorems, SequenceTheorems, WellFoundedInduction, TLAPS

-----------------------------------------------------------------------------
(* Induction and lists                                                     *)

LEMMA NaturalsAreWellFounded ==
  IsWellFoundedOn({p \in Nat \X Nat : p[1] < p[2]}, Nat)
  BY NatLessThanWellFounded, Zenon DEF OpToRel

\* What holds of 0, and of each number up to n if of the one before, holds of n.
LEMMA UpTo ==
  ASSUME NEW n \in Nat, NEW S, 0 \in S, \A i \in 1 .. n : i - 1 \in S => i \in S
  PROVE  \A i \in 0 .. n : i \in S
<1> DEFINE Less == {p \in Nat \X Nat : p[1] < p[2]}
           Out == {i \in 0 .. n : i \notin S}
<1>. SUFFICES ASSUME Out # {} PROVE FALSE
  OBVIOUS
<1>1. Out \subseteq Nat /\ IsWellFoundedOn(Less, Nat)
  BY NaturalsAreWellFounded
<1>2. \E i \in Out : \A j \in Out : ~(<<j, i>> \in Less)
  <2>. HIDE DEF Less, Out
  <2>. QED
    BY <1>1, WFMin
<1>3. PICK i \in Out : \A j \in Out : ~(<<j, i>> \in Less)
  BY <1>2
<1>4. i \in 1 .. n /\ i - 1 \in 0 .. n
  OBVIOUS
<1>5. <<i - 1, i>> \in Less
  BY <1>4
<1>6. i - 1 \notin Out
  BY <1>3, <1>5
<1>. QED
  BY <1>4, <1>6

\* kept, in the definition of Without, is defined.
LEMMA WithoutUnfolds ==
  ASSUME NEW M, NEW seq \in Seq(M), NEW x
  PROVE  \E kept :
           /\ kept[0] = <<>>
           /\ \A n \in 1 .. Len(seq) :
                kept[n] = IF seq[n] = x THEN kept[n - 1] ELSE Append(kept[n - 1], seq[n])
           /\ Without(seq, x) = kept[Len(seq)]
<1> DEFINE Next1(f, n) == IF n = 0 THEN <<>>
                          ELSE IF seq[n] = x THEN f[n - 1] ELSE Append(f[n - 1], seq[n])
           Keeps(f, n) == f = [i \in 0 .. n |-> Next1(f, i)]
           S == {n \in 0 .. Len(seq) : \E f : Keeps(f, n)}
<1>1. Len(seq) \in Nat
  BY LenProperties
<1>2. 0 \in S
  <2>1. Keeps([i \in 0 .. 0 |-> <<>>], 0)
    OBVIOUS
  <2>. HIDE DEF Keeps
  <2>. QED
    BY <1>1, <2>1
<1>3. ASSUME NEW n \in 1 .. Len(seq), n - 1 \in S PROVE n \in S
  <2>1. PICK f : Keeps(f, n - 1)
    BY <1>3
  <2> DEFINE g == [i \in 0 .. n |-> IF i = n THEN Next1(f, n) ELSE f[i]]
  <2>2. \A i \in 0 .. n : g[i] = Next1(g, i)
    <3>1. n \in Nat /\ n - 1 \in 0 .. n /\ g[n] = Next1(f, n) /\ g[n - 1] = f[n - 1]
      BY <1>1
    <3>2. g[n] = Next1(g, n)
      BY <3>1
    <3>3. ASSUME NEW i \in 0 .. n - 1 PROVE g[i] = Next1(g, i)
      <4>1. f[i] = Next1(f, i)
        BY <2>1, <3>3
      <4>2. g[i] = f[i] /\ (i # 0 => i - 1 \in 0 .. n /\ g[i - 1] = f[i - 1])
        BY <1>1, <3>3
      <4>. QED
        BY <4>1, <4>2
    <3>4. \A i \in 0 .. n : i = n \/ i \in 0 .. n - 1
      BY <1>1
    <3>. HIDE DEF Next1, g
    <3>. QED
      BY <3>2, <3>3, <3>4
  <2>3. Keeps(g, n)
    <3>. HIDE DEF Next1
    <3>1. g = [i \in 0 .. n |-> g[i]]
      OBVIOUS
    <3>. QED
      BY <2>2, <3>1
  <2>. HIDE DEF Keeps, g
  <2>. QED
    BY <1>1, <2>3
<1>4. Len(seq) \in S
  <2>. HIDE DEF S
  <2>1. \A i \in 1 .. Len(seq) : i - 1 \in S => i \in S
    BY <1>3
  <2>2. \A i \in 0 .. Len(seq) : i \in S
    BY <1>1, <1>2, <2>1, UpTo
  <2>. QED
    BY <1>1, <2>2
<1> DEFINE kept == CHOOSE f : Keeps(f, Len(seq))
<1>5. Keeps(kept, Len(seq))
  BY <1>4
<1>6. Without(seq, x) = kept[Len(seq)]
  BY DEF Without
<1>7. \A n \in 0 .. Len(seq) : kept[n] = Next1(kept, n)
  <2>. HIDE DEF kept, Next1
  <2>. QED
    BY <1>5
<1>. QED
  <2>. HIDE DEF kept
  <2>. QED
    BY <1>1, <1>6, <1>7

LEMMA AppendKeeps ==
  ASSUME NEW M, NEW seq \in Seq(M), NEW x \in M
  PROVE  /\ Append(seq, x) \in Seq(M) /\ Len(Append(seq, x)) = Len(seq) + 1
         /\ Listed(Append(seq, x)) = Listed(seq) \cup {x}
         /\ IsInjective(seq) /\ x \notin Listed(seq) => IsInjective(Append(seq, x))
<1>1. /\ Append(seq, x) \in Seq(M) /\ Len(seq) \in Nat
      /\ Len(Append(seq, x)) = Len(seq) + 1
      /\ DOMAIN seq = 1 .. Len(seq) /\ DOMAIN Append(seq, x) = 1 .. Len(seq) + 1
      /\ \A i \in 1 .. Len(seq) : Append(seq, x)[i] = seq[i]
      /\ Append(seq, x)[Len(seq) + 1] = x
  OBVIOUS
<1>2. PICK longer : longer = Append(seq, x)
  OBVIOUS
<1>3. Listed(longer) = Listed(seq) \cup {x}
  BY <1>1, <1>2 DEF Listed
<1>4. IsInjective(seq) /\ x \notin Listed(seq) => IsInjective(longer)
  BY <1>1, <1>2 DEF Listed, IsInjective
<1>. QED
  BY <1>1, <1>2, <1>3, <1>4

LEMMA WithoutKeeps ==
  ASSUME NEW M, NEW seq \in Seq(M), NEW x
  PROVE  /\ Without(seq, x) \in Seq(M)
         /\ Listed(Without(seq, x)) = Listed(seq) \ {x}
         /\ IsInjective(seq) => IsInjective(Without(seq, x))
<1>1. Len(seq) \in Nat /\ DOMAIN seq = 1 .. Len(seq)
  BY LenProperties
<1>2. PICK kept :
        /\ kept[0] = <<>>
        /\ \A n \in 1 .. Len(seq) :
             kept[n] = IF seq[n] = x THEN kept[n - 1] ELSE Append(kept[n - 1], seq[n])
        /\ Without(seq, x) = kept[Len(seq)]
  BY WithoutUnfolds
<1> DEFINE First(n) == {seq[i] : i \in 1 .. n}
           Good(k, n) == /\ k \in Seq(M) /\ Listed(k) = First(n) \ {x}
                         /\ IsInjective(seq) => IsInjective(k)
           S == {n \in 0 .. Len(seq) : Good(kept[n], n)}
<1>3. 0 \in S
  <2>1. Good(<<>>, 0)
    BY DEF Listed, IsInjective
  <2>. HIDE DEF Good
  <2>. QED
    BY <1>1, <1>2, <2>1
<1>4. ASSUME NEW n \in 1 .. Len(seq), n - 1 \in S PROVE n \in S
  <2>1. PICK k : k = kept[n - 1]
    OBVIOUS
  <2>2. k \in Seq(M) /\ Listed(k) = First(n - 1) \ {x} /\ (IsInjective(seq) => IsInjective(k))
    BY <1>4, <2>1
  <2>3. seq[n] \in M /\ First(n) = First(n - 1) \cup {seq[n]}
    BY <1>1
  <2>4. IsInjective(seq) => seq[n] \notin First(n - 1)
    BY <1>1 DEF IsInjective
  <2>5. CASE seq[n] = x
    <3>1. kept[n] = k
      BY <1>2, <2>1, <2>5
    <3>2. Good(k, n)
      <4>. HIDE DEF First
      <4>. QED
        BY <2>2, <2>3, <2>5
    <3>3. n \in 0 .. Len(seq) /\ Good(kept[n], n)
      BY <1>1, <3>1, <3>2
    <3>. HIDE DEF Good
    <3>. QED
      BY <3>3, Zenon
  <2>6. CASE seq[n] # x
    <3>1. PICK longer : longer = Append(k, seq[n])
      OBVIOUS
    <3>2. kept[n] = longer
      BY <1>2, <2>1, <2>6, <3>1
    <3>3. Good(longer, n)
      <4>. HIDE DEF First
      <4>. QED
        BY <2>2, <2>3, <2>4, <2>6, <3>1, AppendKeeps
    <3>4. n \in 0 .. Len(seq) /\ Good(kept[n], n)
      BY <1>1, <3>2, <3>3
    <3>. HIDE DEF Good
    <3>. QED
      BY <3>4, Zenon
  <2>. QED
    BY <2>5, <2>6
<1>5. Len(seq) \in S
  <2>. HIDE DEF S
  <2>1. \A i \in 1 .. Len(seq) : i - 1 \in S => i \in S
    BY <1>4
  <2>2. \A i \in 0 .. Len(seq) : i \in S
    BY <1>1, <1>3, <2>1, UpTo
  <2>. QED
    BY <1>1, <2>2
<1>6. First(Len(seq)) = Listed(seq)
  BY <1>1 DEF Listed
<1>. QED
  <2>. HIDE DEF First
  <2>. QED
    BY <1>2, <1>5, <1>6

\* Nothing is removed that is not there, and a list of different elements
\* without its first is its tail.
LEMMA WithoutAbsent ==
  ASSUME NEW M, NEW seq \in Seq(M), NEW x, x \notin Listed(seq)
  PROVE  Without(seq, x) = seq
<1>1. Len(seq) \in Nat /\ DOMAIN seq = 1 .. Len(seq)
  BY LenProperties
<1>2. PICK kept :
        /\ kept[0] = <<>>
        /\ \A n \in 1 .. Len(seq) :
             kept[n] = IF seq[n] = x THEN kept[n - 1] ELSE Append(kept[n - 1], seq[n])
        /\ Without(seq, x) = kept[Len(seq)]
  BY WithoutUnfolds
<1> DEFINE Same(n) == kept[n] = SubSeq(seq, 1, n)
           S == {n \in 0 .. Len(seq) : Same(n)}
<1>3. 0 \in S
  <2>1. SubSeq(seq, 1, 0) = <<>>
    BY SubSeqEmpty
  <2>2. Same(0)
    BY <1>2, <2>1
  <2>. HIDE DEF Same
  <2>. QED
    BY <1>1, <2>2
<1>4. ASSUME NEW n \in 1 .. Len(seq), n - 1 \in S PROVE n \in S
  <2>1. seq[n] # x
    BY <1>1 DEF Listed
  <2>2. kept[n] = Append(SubSeq(seq, 1, n - 1), seq[n])
    BY <1>2, <1>4, <2>1
  <2>3. Append(SubSeq(seq, 1, n - 1), seq[n]) = SubSeq(seq, 1, n)
    BY <1>1
  <2>4. n \in 0 .. Len(seq) /\ Same(n)
    BY <1>1, <2>2, <2>3
  <2>. HIDE DEF Same
  <2>. QED
    BY <2>4, Zenon
<1>5. Len(seq) \in S
  <2>. HIDE DEF S
  <2>1. \A i \in 1 .. Len(seq) : i - 1 \in S => i \in S
    BY <1>4
  <2>2. \A i \in 0 .. Len(seq) : i \in S
    BY <1>1, <1>3, <2>1, UpTo
  <2>. QED
    BY <1>1, <2>2
<1>. QED
  BY <1>2, <1>5, SubSeqFull

LEMMA WithoutHead ==
  ASSUME NEW M, NEW seq \in Seq(M), seq # <<>>, IsInjective(seq)
  PROVE  Without(seq, Head(seq)) = Tail(seq)
<1>1. Len(seq) \in Nat /\ Len(seq) > 0 /\ DOMAIN seq = 1 .. Len(seq) /\ Head(seq) = seq[1]
  BY LenProperties, SeqEqual, EmptySeq
<1>2. PICK kept :
        /\ kept[0] = <<>>
        /\ \A n \in 1 .. Len(seq) :
             kept[n] = IF seq[n] = seq[1] THEN kept[n - 1] ELSE Append(kept[n - 1], seq[n])
        /\ Without(seq, seq[1]) = kept[Len(seq)]
  BY WithoutUnfolds
<1> DEFINE Same(n) == kept[n] = SubSeq(seq, 2, n)
           S == {n \in 0 .. Len(seq) : Same(n)}
<1>3. 0 \in S
  <2>1. SubSeq(seq, 2, 0) = <<>>
    BY SubSeqEmpty
  <2>2. Same(0)
    BY <1>2, <2>1
  <2>. HIDE DEF Same
  <2>. QED
    BY <1>1, <2>2
<1>4. ASSUME NEW n \in 1 .. Len(seq), n - 1 \in S PROVE n \in S
  <2>1. ASSUME n = 1 PROVE Same(n)
    <3>1. kept[1] = <<>>
      BY <1>1, <1>2
    <3>2. SubSeq(seq, 2, 1) = <<>>
      BY SubSeqEmpty
    <3>. QED
      BY <2>1, <3>1, <3>2
  <2>2. ASSUME n # 1 PROVE Same(n)
    <3>1. seq[n] # seq[1]
      BY <1>1, <2>2 DEF IsInjective
    <3>2. kept[n] = Append(SubSeq(seq, 2, n - 1), seq[n])
      BY <1>2, <1>4, <3>1
    <3>3. Append(SubSeq(seq, 2, n - 1), seq[n]) = SubSeq(seq, 2, n)
      BY <1>1, <2>2
    <3>. QED
      BY <3>2, <3>3
  <2>3. Same(n)
    BY <2>1, <2>2
  <2>. HIDE DEF Same
  <2>. QED
    BY <1>1, <2>3
<1>5. Len(seq) \in S
  <2>. HIDE DEF S
  <2>1. \A i \in 1 .. Len(seq) : i - 1 \in S => i \in S
    BY <1>4
  <2>2. \A i \in 0 .. Len(seq) : i \in S
    BY <1>1, <1>3, <2>1, UpTo
  <2>. QED
    BY <1>1, <2>2
<1>. QED
  BY <1>1, <1>2, <1>5, TailIsSubSeq

\* Two lists of different elements that have the same elements are as long.
LEMMA SameLength ==
  ASSUME NEW M, NEW seq \in Seq(M), IsInjective(seq)
  PROVE  IsFiniteSet(Listed(seq)) /\ Cardinality(Listed(seq)) = Len(seq)
<1>1. Len(seq) \in Nat /\ DOMAIN seq = 1 .. Len(seq)
  BY LenProperties
<1>2. seq \in Surjection(1 .. Len(seq), Listed(seq)) /\ seq \in Injection(1 .. Len(seq), Listed(seq))
  BY <1>1 DEF Surjection, Injection, IsInjective, Listed
<1>3. IsFiniteSet(1 .. Len(seq)) /\ Cardinality(1 .. Len(seq)) = Len(seq)
  <2>1. 1 \in Int /\ Len(seq) \in Int
    BY <1>1
  <2>2. /\ IsFiniteSet(1 .. Len(seq))
        /\ Cardinality(1 .. Len(seq)) = IF 1 > Len(seq) THEN 0 ELSE Len(seq) - 1 + 1
    BY <2>1, FS_Interval
  <2>. QED
    BY <1>1, <2>2
<1>. QED
  BY <1>2, <1>3, FS_Surjection

-----------------------------------------------------------------------------
(* What an edit does to the addresses on a list, and which it may.         *)

Accepted(R, e) ==
  /\ e.kind = "create" => e.to \notin R
  /\ e.kind = "update" => e.from \in R /\ e.to \notin R \ {e.from}

Effect(R, e) ==
  IF e.kind = "create" THEN R \cup {e.to}
  ELSE IF e.kind = "update" THEN (R \ {e.from}) \cup {e.to}
  ELSE R \ {e.from}

IsList(seq) == seq \in Seq(Macs) /\ IsInjective(seq)

LEMMA EditFields ==
  ASSUME NEW e \in Edits
  PROVE  /\ e.kind \in {"create", "update", "delete"}
         /\ e.kind # "create" => e.from \in Macs
         /\ e.kind # "delete" => e.to \in Macs
  BY DEF Edits

\* An address takes the place of another, which is on the list once.
LEMMA ReplacedKeeps ==
  ASSUME NEW seq, IsList(seq), NEW from \in Listed(seq), NEW to \in Macs,
         to \notin Listed(seq) \ {from}
  PROVE  LET replaced == [i \in DOMAIN seq |-> IF seq[i] = from THEN to ELSE seq[i]]
         IN  IsList(replaced) /\ Listed(replaced) = (Listed(seq) \ {from}) \cup {to}
<1> DEFINE replaced == [i \in DOMAIN seq |-> IF seq[i] = from THEN to ELSE seq[i]]
<1>1. Len(seq) \in Nat /\ DOMAIN seq = 1 .. Len(seq) /\ seq \in [1 .. Len(seq) -> Macs]
  BY LenProperties DEF IsList
<1>2. replaced \in [1 .. Len(seq) -> Macs]
  BY <1>1
<1>3. replaced \in Seq(Macs)
  BY <1>1, <1>2, SeqDef
<1>4. DOMAIN replaced = DOMAIN seq
  OBVIOUS
<1>5. IsInjective(replaced)
  BY <1>4 DEF IsInjective, IsList, Listed
<1>6. Listed(replaced) = (Listed(seq) \ {from}) \cup {to}
  <2>1. PICK k \in DOMAIN seq : seq[k] = from
    BY DEF Listed
  <2>2. \A i \in DOMAIN seq : replaced[i] = (IF seq[i] = from THEN to ELSE seq[i])
    OBVIOUS
  <2>. HIDE DEF replaced
  <2>. QED
    BY <1>4, <2>1, <2>2 DEF Listed
<1>. QED
  BY <1>3, <1>5, <1>6 DEF IsList

LEMMA EditedKeeps ==
  ASSUME NEW seq, IsList(seq), NEW e \in Edits, Accepted(Listed(seq), e)
  PROVE  IsList(Edited(seq, e)) /\ Listed(Edited(seq, e)) = Effect(Listed(seq), e)
<1>1. CASE e.kind = "create"
  <2>1. Edited(seq, e) = Append(seq, e.to) /\ e.to \in Macs
    BY <1>1, EditFields DEF Edited
  <2>2. e.to \notin Listed(seq)
    BY <1>1 DEF Accepted
  <2>. QED
    BY <1>1, <2>1, <2>2, AppendKeeps DEF IsList, Effect
<1>2. CASE e.kind = "update"
  <2>1. /\ Edited(seq, e) = [i \in DOMAIN seq |-> IF seq[i] = e.from THEN e.to ELSE seq[i]]
        /\ e.to \in Macs
    BY <1>2, EditFields DEF Edited
  <2>2. e.from \in Listed(seq) /\ e.to \notin Listed(seq) \ {e.from}
    BY <1>2 DEF Accepted
  <2>. QED
    BY <1>2, <2>1, <2>2, ReplacedKeeps DEF Effect
<1>3. CASE e.kind = "delete"
  <2>1. Edited(seq, e) = Without(seq, e.from)
    BY <1>3 DEF Edited
  <2>. QED
    BY <1>3, <2>1, WithoutKeeps DEF IsList, Effect
<1>. QED
  BY <1>1, <1>2, <1>3, EditFields

LEMMA AcceptsIsAccepted ==
  ASSUME NEW e \in Edits, Accepts(e)
  PROVE  Accepted(Listed(registry), e)
  BY EditFields DEF Accepts, Accepted

-----------------------------------------------------------------------------
(* The terminal                                                            *)

\* While the question is shown, the line that was selected when it was asked is
\* selected, and holds the same machine unless a refresh moved it.
TerminalInv ==
  /\ TerminalTypeOK
  /\ confirm /\ ~moved => Selected = armed

LEMMA SelectedIsListed ==
  ASSUME TerminalTypeOK
  PROVE  /\ Selected \in Macs \cup {NoMac}
         /\ Len(listed) \in Nat
         /\ Following \in Nat /\ Previous \in Nat
         /\ Following < Len(listed) \/ (listed = <<>> /\ Following = 0)
         /\ Previous < Len(listed) \/ (listed = <<>> /\ Previous = 0)
<1>1. Len(listed) \in Nat /\ (listed = <<>> \/ Len(listed) > 0)
  BY SeqEqual, EmptySeq DEF TerminalTypeOK
<1>2. Selected \in Macs \cup {NoMac}
  BY <1>1 DEF Selected, TerminalTypeOK, SelectionExists
<1>3. Previous \in Nat /\ (Previous < Len(listed) \/ (listed = <<>> /\ Previous = 0))
  BY <1>1 DEF Previous, TerminalTypeOK, SelectionExists
<1>4. Following \in Nat /\ (Following < Len(listed) \/ (listed = <<>> /\ Following = 0))
  BY <1>1 DEF Following, TerminalTypeOK, SelectionExists
<1>. QED
  BY <1>1, <1>2, <1>3, <1>4

LEMMA TerminalStarts == TerminalInit => TerminalInv
<1>. SUFFICES ASSUME TerminalInit PROVE TerminalInv
  OBVIOUS
<1>1. listed \in Seq(Macs) /\ SelectionExists
  BY EmptySeq DEF TerminalInit, SelectionExists
<1>2. /\ stage \in Stages /\ selected \in Nat /\ confirm = FALSE
      /\ due \in BOOLEAN /\ failed \in BOOLEAN
      /\ armed \in Macs \cup {NoMac} /\ moved \in BOOLEAN
  BY DEF TerminalInit, Stages
<1>. QED
  BY <1>1, <1>2 DEF TerminalInv, TerminalTypeOK

LEMMA TerminalKeeps ==
  ASSUME TerminalInv, IsList(registry), Start \/ TerminalStep
  PROVE  TerminalInv'
<1>. USE DEF TerminalInv, TerminalTypeOK, SelectionExists, Stages
<1>1. CASE Start \/ NoKey \/ RefreshIfDue \/ Quit \/ RefreshKey \/ RefreshFails \/ Elapse
  <2>1. UNCHANGED app /\ stage' \in Stages /\ due' \in BOOLEAN /\ failed' \in BOOLEAN
    BY <1>1 DEF Start, NoKey, RefreshIfDue, Quit, RefreshKey, RefreshFails, Refreshed,
                Elapse, clock
  <2>. QED
    BY <2>1 DEF app, Selected
<1>2. CASE RefreshSucceeds
  <2>1. Len(registry) \in Nat /\ (registry = <<>> \/ Len(registry) > 0)
    BY SeqEqual, EmptySeq DEF IsList
  <2>2. /\ listed' = registry /\ selected' = Clamp(registry)
        /\ selected' \in Nat
        /\ selected' < Len(registry) \/ (registry = <<>> /\ selected' = 0)
    BY <1>2, <2>1 DEF RefreshSucceeds, Clamp
  <2>3. Selected' = At(registry, selected')
    BY <2>2 DEF Selected, At
  <2>4. stage' \in Stages
    BY <1>2 DEF RefreshSucceeds, Refreshed
  <2>. QED
    BY <1>2, <2>2, <2>3, <2>4 DEF RefreshSucceeds, IsList
<1>3. CASE Navigate
  <2>1. selected' \in {Following, Previous} /\ ~confirm
        /\ UNCHANGED <<listed, confirm, armed, moved, due, failed>> /\ stage' = "handled"
    BY <1>3 DEF Navigate, clock
  <2>. QED
    BY <2>1, SelectedIsListed
<1>4. CASE AskDelete
  BY <1>4, SelectedIsListed DEF AskDelete, clock, Selected
<1>5. CASE CancelDelete \/ ConfirmDelete \/ DeleteSucceeds \/ DeleteFails
  BY <1>5 DEF CancelDelete, ConfirmDelete, DeleteSucceeds, DeleteFails, Disarm, clock, Selected
<1>. QED
  BY <1>1, <1>2, <1>3, <1>4, <1>5 DEF TerminalStep

LEMMA TerminalUnchanged ==
  ASSUME TerminalInv, UNCHANGED terminal
  PROVE  TerminalInv'
  BY DEF TerminalInv, TerminalTypeOK, SelectionExists, terminal, app, clock, Selected

\* The terminal's own deletion keeps the proxy's list a list.
LEMMA TerminalKeepsTheList ==
  ASSUME TerminalInv, IsList(registry), Start \/ TerminalStep
  PROVE  IsList(registry')
<1> DEFINE e == [kind |-> "delete", from |-> Selected, to |-> NoMac]
<1>1. CASE registry' = registry
  BY <1>1
<1>2. CASE registry' = Edited(registry, e)
  <2>1. Edited(registry, e) = Without(registry, Selected)
    BY DEF Edited
  <2>. QED
    BY <1>2, <2>1, WithoutKeeps DEF IsList
<1>. QED
  BY <1>1, <1>2
     DEF TerminalStep, Start, RefreshSucceeds, RefreshFails, NoKey, RefreshIfDue, Elapse, Quit,
         Navigate, RefreshKey, AskDelete, CancelDelete, ConfirmDelete, DeleteSucceeds, DeleteFails

-----------------------------------------------------------------------------
(* The page                                                                *)

\* Each command has its task, and a poll whose epoch is the same has seen no
\* confirmation.
CommandsInv ==
  /\ online \subseteq Macs
  /\ pending \in [Macs -> {"no", "wake", "off"}]
  /\ tasks \subseteq [mac : Macs, wake : BOOLEAN, left : 1 .. MaxChecks, sent : BOOLEAN]
  /\ \A m \in Macs : pending[m] = "no" => \A t \in tasks : t.mac # m
  /\ \A m \in Macs : pending[m] # "no" =>
       \E t \in tasks : /\ t.mac = m /\ t.wake = (pending[m] = "wake")
                        /\ \A u \in tasks : u.mac = m => u = t
  /\ poll \in Polls \cup {Sleeping}
  /\ poll.on /\ poll.sameEpoch => poll.older = {}

\* Everything that is still to be answered for the dialog is for the machine it
\* shows, and its panes but the first are for a machine that exists.
DialogInv ==
  /\ route \in Macs \cup {NoMac}
  /\ loader.step = "details" => route # NoMac
  /\ dialog \in Dialogs \cup {Closed} /\ loads \subseteq Loads
  /\ dialog.open => /\ dialog.creating <=> dialog.mac = NoMac
                    /\ dialog.pane # "edit" => ~dialog.creating
  /\ \A l \in loads : l.latest => dialog.open /\ l.mac = dialog.mac
  /\ SetupIsOfThisMachine
  /\ \A e \in edits : e.ours => dialog.open /\ dialog.saving
  /\ \A e, f \in edits : e.ours /\ f.ours => e = f

LoaderSteps == {"idle", "asked", "served", "details"}

\* From the list the page shows, or the one that is on its way to it (0), the
\* edits that were served since lead to the proxy's, each accepted on its way:
\* on[i] is what was on it when i requests were served.
Lags(p, on) ==
  /\ loader.step = "served" =>
       p # 0 /\ served[p] = 0 /\ IsList(loader.list) /\ on[p] = Listed(loader.list)
  /\ loader.step # "served" =>
       p = 0 /\ IsList(machines) /\ on[0] = Listed(machines)
  /\ on[Len(served)] = Listed(registry)
  /\ \A i \in p + 1 .. Len(served) :
       \E e \in edits : /\ e.saved /\ e.id = served[i]
                        /\ Accepted(on[i - 1], e.edit) /\ on[i] = Effect(on[i - 1], e.edit)

CatchesUp ==
  \E p \in 0 .. Len(served), on \in [0 .. Len(served) -> SUBSET Macs] : Lags(p, on)

\* What is served and not answered are the edits that say so and the list; the
\* page's list catches up, unless it is excused.
ListInv ==
  /\ IsList(registry) /\ machines \in Seq(Macs) /\ inputs \in Nat
  /\ loader \in [step : LoaderSteps, list : Seq(Macs)]
  /\ error \in BOOLEAN /\ excused \in BOOLEAN
  /\ edits \subseteq [id : 1 .. inputs, edit : Edits, saved : BOOLEAN, ours : BOOLEAN]
  /\ \A e, f \in edits : e.id = f.id => e = f
  /\ served \in Seq(Nat) /\ IsInjective(served)
  /\ 0 \in Listed(served) <=> loader.step = "served"
  /\ \A id \in Listed(served) : id # 0 => \E e \in edits : e.saved /\ e.id = id
  /\ \A e \in edits : e.saved => e.id \in Listed(served)
  /\ error => loader.step = "idle"
  /\ ~excused /\ ~error /\ loader.step # "asked" => CatchesUp

\* The page is not used where the terminal is.
PanelInv ==
  /\ panel \in {"browser", "terminal"}
  /\ panel = "terminal" => loader.step = "asked"

IInv == TerminalInv /\ CommandsInv /\ DialogInv /\ ListInv /\ PanelInv

-----------------------------------------------------------------------------
(* Commands and the poll                                                   *)

LEMMA PollFields ==
  /\ Sleeping \notin Polls /\ ~Sleeping.on
  /\ \A p \in Polls : p.on
  /\ \A p \in Polls \cup {Sleeping} :
       /\ NextEpoch(p) \in Polls \cup {Sleeping}
       /\ NextEpoch(p).on = p.on
       /\ p.on => ~NextEpoch(p).sameEpoch /\ NextEpoch(p).older = p.older
<1>1. ~Sleeping.on /\ \A p \in Polls : p.on = TRUE
  BY DEF Polls, Sleeping
<1>2. \A p \in Polls : /\ NextEpoch(p) \in Polls /\ NextEpoch(p).on = TRUE
                       /\ ~NextEpoch(p).sameEpoch /\ NextEpoch(p).older = p.older
  BY <1>1 DEF Polls, NextEpoch
<1>3. NextEpoch(Sleeping) = Sleeping
  BY <1>1 DEF NextEpoch
<1>. QED
  BY <1>1, <1>2, <1>3

LEMMA CommandsUnchanged ==
  ASSUME CommandsInv, UNCHANGED <<online, pending, tasks>>, poll' \in {poll, NextEpoch(poll)}
  PROVE  CommandsInv'
  BY PollFields DEF CommandsInv

\* A command starts where none is under way.
LEMMA PowerKeeps ==
  ASSUME CommandsInv, NEW m \in Macs, NEW wake \in BOOLEAN, Power(m, wake), UNCHANGED online
  PROVE  CommandsInv'
<1> DEFINE new == [mac |-> m, wake |-> wake, left |-> MaxChecks, sent |-> FALSE]
<1>1. /\ pending[m] = "no" /\ tasks' = tasks \cup {new} /\ poll' = NextEpoch(poll)
      /\ pending' = [pending EXCEPT ![m] = IF wake THEN "wake" ELSE "off"]
  BY DEF Power
<1>2. new \in [mac : Macs, wake : BOOLEAN, left : 1 .. MaxChecks, sent : BOOLEAN]
      /\ new.mac = m /\ new.wake = wake
  BY DashboardAssumption
<1> HIDE DEF new
<1>3. poll' \in Polls \cup {Sleeping} /\ (poll'.on /\ poll'.sameEpoch => poll'.older = {})
  BY <1>1, PollFields DEF CommandsInv
<1>4. \A n \in Macs : n # m => pending'[n] = pending[n]
  BY <1>1 DEF CommandsInv
<1>5. pending' \in [Macs -> {"no", "wake", "off"}] /\ pending'[m] = IF wake THEN "wake" ELSE "off"
  BY <1>1 DEF CommandsInv
<1>6. \A t \in tasks : t.mac # m
  BY <1>1 DEF CommandsInv
<1>7. ASSUME NEW n \in Macs, pending'[n] = "no" PROVE \A t \in tasks' : t.mac # n
  BY <1>1, <1>2, <1>4, <1>5, <1>7 DEF CommandsInv
<1>8. ASSUME NEW n \in Macs, pending'[n] # "no"
      PROVE  \E t \in tasks' : /\ t.mac = n /\ t.wake = (pending'[n] = "wake")
                               /\ \A u \in tasks' : u.mac = n => u = t
  <2>1. CASE n = m
    BY <1>1, <1>2, <1>5, <1>6, <2>1
  <2>2. CASE n # m
    BY <1>1, <1>2, <1>4, <1>8, <2>2 DEF CommandsInv
  <2>. QED
    BY <2>1, <2>2
<1>. QED
  BY <1>1, <1>2, <1>3, <1>5, <1>7, <1>8 DEF CommandsInv

\* The task of a command is replaced by its next state.
LEMMA TaskGoesOn ==
  ASSUME CommandsInv, NEW t \in tasks, UNCHANGED <<online, pending, poll>>,
         NEW next \in [mac : Macs, wake : BOOLEAN, left : 1 .. MaxChecks, sent : BOOLEAN],
         next.mac = t.mac, next.wake = t.wake, tasks' = (tasks \ {t}) \cup {next}
  PROVE  CommandsInv'
<1>1. ASSUME NEW m \in Macs, pending[m] # "no"
      PROVE  \E u \in tasks' : /\ u.mac = m /\ u.wake = (pending[m] = "wake")
                               /\ \A v \in tasks' : v.mac = m => v = u
  <2>1. PICK u \in tasks : /\ u.mac = m /\ u.wake = (pending[m] = "wake")
                           /\ \A v \in tasks : v.mac = m => v = u
    BY <1>1 DEF CommandsInv
  <2>2. CASE u = t
    BY <2>1, <2>2
  <2>3. CASE u # t
    BY <2>1, <2>3
  <2>. QED
    BY <2>2, <2>3
<1>2. \A m \in Macs : pending[m] = "no" => \A u \in tasks' : u.mac # m
  BY DEF CommandsInv
<1>. QED
  BY <1>1, <1>2 DEF CommandsInv

\* The last task of a machine ends its command.
LEMMA FinishKeeps ==
  ASSUME CommandsInv, NEW t \in tasks, Finish(t), online' \subseteq Macs,
         poll' \in Polls \cup {Sleeping}, poll'.on /\ poll'.sameEpoch => poll'.older = {}
  PROVE  CommandsInv'
<1>1. t.mac \in Macs /\ tasks' = tasks \ {t} /\ pending' = [pending EXCEPT ![t.mac] = "no"]
  BY DEF Finish, CommandsInv
<1>2. pending[t.mac] # "no" /\ \A u \in tasks : u.mac = t.mac => u = t
  BY <1>1 DEF CommandsInv
<1>3. /\ pending' \in [Macs -> {"no", "wake", "off"}] /\ pending'[t.mac] = "no"
      /\ \A m \in Macs : m # t.mac => pending'[m] = pending[m]
  BY <1>1 DEF CommandsInv
<1>4. \A m \in Macs : pending'[m] = "no" => \A u \in tasks' : u.mac # m
  BY <1>1, <1>2, <1>3 DEF CommandsInv
<1>5. ASSUME NEW m \in Macs, pending'[m] # "no"
      PROVE  \E u \in tasks' : /\ u.mac = m /\ u.wake = (pending'[m] = "wake")
                               /\ \A v \in tasks' : v.mac = m => v = u
  BY <1>1, <1>3, <1>5 DEF CommandsInv
<1>. QED
  BY <1>1, <1>3, <1>4, <1>5 DEF CommandsInv

LEMMA DialogFields ==
  /\ ~Closed.open
  /\ \A d \in Dialogs : /\ d.open /\ d.mac \in Macs \cup {NoMac} /\ d.creating \in BOOLEAN
                        /\ d.saving \in BOOLEAN /\ d.pane \in Panes
                        /\ d.setup \in [of : Macs \cup {NoMac}, ready : BOOLEAN]
  BY DEF Dialogs, Closed

LEMMA CommandsKeep ==
  ASSUME CommandsInv, DialogInv, ListInv, PageStep
  PROVE  CommandsInv'
<1>1. CASE UNCHANGED power
  BY <1>1, CommandsUnchanged DEF power
<1>2. CASE \E e \in edits : EditAnswered(e)
  BY <1>2, CommandsUnchanged DEF EditAnswered
<1>3. CASE PollReads
  <2>1. PICK on \in SUBSET (Listed(machines) \cap Listed(registry)) :
          poll' = [on |-> TRUE, read |-> on, sameEpoch |-> TRUE, older |-> {}]
    BY <1>3 DEF PollReads
  <2>2. on \subseteq Macs
    <3>1. \A i \in DOMAIN registry : registry[i] \in Macs
      BY LenProperties, ElementOfSeq DEF ListInv, IsList
    <3>. QED
      BY <2>1, <3>1 DEF Listed
  <2>3. poll' \in Polls /\ poll'.older = {}
    BY <2>1, <2>2 DEF Polls
  <2>. QED
    BY <1>3, <2>3 DEF PollReads, CommandsInv
<1>4. CASE PollEnds
  <2>1. poll' = Sleeping /\ online' \subseteq Macs /\ UNCHANGED <<pending, tasks>>
    <3>1. poll.read \subseteq Macs
      BY <1>4, PollFields DEF PollEnds, CommandsInv, Polls
    <3>. QED
      BY <1>4, <3>1 DEF PollEnds, CommandsInv
  <2>. QED
    BY <2>1, PollFields DEF CommandsInv
<1>5. CASE \E m \in Macs : Wake(m)
  BY <1>5, PowerKeeps DEF Wake
<1>6. CASE ShutDown
  <2>1. dialog.mac \in Macs
    <3>1. dialog.open /\ dialog.pane = "shutdown"
      BY <1>6 DEF ShutDown
    <3>. QED
      BY <3>1, DialogFields DEF DialogInv
  <2>. QED
    BY <1>6, <2>1, PowerKeeps DEF ShutDown
<1>7. ASSUME NEW t \in tasks,
             CommandSent(t) \/ CommandFails(t) \/ CheckConfirms(t) \/ CheckDoesNot(t)
      PROVE  CommandsInv'
  <2>1. /\ t \in [mac : Macs, wake : BOOLEAN, left : 1 .. MaxChecks, sent : BOOLEAN]
        /\ poll \in Polls \cup {Sleeping} /\ (poll.on /\ poll.sameEpoch => poll.older = {})
        /\ online \subseteq Macs
    BY DEF CommandsInv
  <2>2. CASE CommandSent(t)
    <3>1. [t EXCEPT !.sent = TRUE] \in [mac : Macs, wake : BOOLEAN, left : 1 .. MaxChecks, sent : BOOLEAN]
      BY <2>1
    <3>. QED
      BY <2>1, <2>2, <3>1, TaskGoesOn DEF CommandSent
  <2>3. CASE CommandFails(t)
    BY <2>1, <2>3, FinishKeeps DEF CommandFails
  <2>4. CASE CheckConfirms(t)
    <3>1. /\ poll' \in Polls \cup {Sleeping}
          /\ poll'.on => ~poll'.sameEpoch
      <4>1. CASE ~poll.on
        BY <2>4, <4>1 DEF CheckConfirms, CommandsInv
      <4>2. CASE poll.on
        <5>1. poll \in Polls /\ poll' = [NextEpoch(poll) EXCEPT !.older = @ \cup {t.mac}]
          BY <2>1, <2>4, <4>2, PollFields DEF CheckConfirms
        <5>. QED
          BY <2>1, <4>2, <5>1 DEF NextEpoch, Polls
      <4>. QED
        BY <4>1, <4>2
    <3>2. online' \subseteq Macs
      BY <2>1, <2>4 DEF CheckConfirms
    <3>. QED
      BY <2>4, <3>1, <3>2, FinishKeeps DEF CheckConfirms
  <2>5. CASE CheckDoesNot(t)
    <3>1. CASE t.left = 1
      BY <2>1, <2>5, <3>1, FinishKeeps DEF CheckDoesNot
    <3>2. CASE t.left # 1
      <4>1. [t EXCEPT !.left = @ - 1] \in [mac : Macs, wake : BOOLEAN, left : 1 .. MaxChecks, sent : BOOLEAN]
        BY <2>1, <3>2, DashboardAssumption
      <4>. QED
        BY <2>1, <2>5, <3>2, <4>1, TaskGoesOn DEF CheckDoesNot
    <3>. QED
      BY <3>1, <3>2
  <2>. QED
    BY <1>7, <2>2, <2>3, <2>4, <2>5
<1>. QED
  BY <1>1, <1>2, <1>3, <1>4, <1>5, <1>6, <1>7
     DEF PageStep, ListServed, ListAnswered, ListFails, RouteAnswered, TryAgain, Submit, Send,
         Open, ShowPane, Close, Back, Delete, SetupAnswered, EditServed, EditFails

-----------------------------------------------------------------------------
(* The dialog                                                              *)

LEMMA AskSetupKeeps ==
  ASSUME NEW m \in Macs, NEW ls \in SUBSET Loads
  PROVE  /\ AskSetup(m, ls) \subseteq Loads
         /\ \A l \in AskSetup(m, ls) : l.latest => l.mac = m
<1>1. \A l \in ls : /\ [l EXCEPT !.latest = FALSE] \in Loads
                    /\ [l EXCEPT !.latest = FALSE].latest = FALSE
  BY DEF Loads
<1>2. [mac |-> m, latest |-> TRUE] \in Loads /\ [mac |-> m, latest |-> TRUE].mac = m
  BY DEF Loads
<1>. QED
  BY <1>1, <1>2 DEF AskSetup

\* An edit of a dialog that has gone is only answered to the list.
LEMMA OrphansFields ==
  ASSUME ListInv
  PROVE  /\ \A e \in Orphans : e.ours = FALSE
         /\ \A e \in edits : \E f \in Orphans :
              f.id = e.id /\ f.edit = e.edit /\ f.saved = e.saved
         /\ \A f \in Orphans : \E e \in edits :
              f = [e EXCEPT !.ours = FALSE] /\ f.id = e.id /\ f.edit = e.edit /\ f.saved = e.saved
         /\ Orphans \subseteq [id : 1 .. inputs, edit : Edits, saved : BOOLEAN, ours : BOOLEAN]
<1> DEFINE Orphan(e) == [e EXCEPT !.ours = FALSE]
<1>1. Orphans = {Orphan(e) : e \in edits}
  BY DEF Orphans
<1>2. \A e \in edits :
        /\ Orphan(e) \in [id : 1 .. inputs, edit : Edits, saved : BOOLEAN, ours : BOOLEAN]
        /\ Orphan(e).ours = FALSE /\ Orphan(e).id = e.id
        /\ Orphan(e).edit = e.edit /\ Orphan(e).saved = e.saved
  <2>1. edits \subseteq [id : 1 .. inputs, edit : Edits, saved : BOOLEAN, ours : BOOLEAN]
    BY DEF ListInv
  <2>. QED
    BY <2>1
<1>3. \A f \in Orphans : \E e \in edits : f = Orphan(e)
  BY <1>1
<1>4. \A e \in edits : Orphan(e) \in Orphans
  BY <1>1
<1>5. \A f \in Orphans : \E e \in edits :
        f = Orphan(e) /\ f.id = e.id /\ f.edit = e.edit /\ f.saved = e.saved
  <2>. HIDE DEF Orphan
  <2>. QED
    BY <1>2, <1>3
<1>6. /\ \A e \in Orphans : e.ours = FALSE
      /\ Orphans \subseteq [id : 1 .. inputs, edit : Edits, saved : BOOLEAN, ours : BOOLEAN]
      /\ \A e \in edits : \E f \in Orphans :
           f.id = e.id /\ f.edit = e.edit /\ f.saved = e.saved
  <2>. HIDE DEF Orphan
  <2>. QED
    BY <1>2, <1>3, <1>4
<1>. QED
  BY <1>5, <1>6

LEMMA OpenDialogKeeps ==
  ASSUME ListInv, NEW m \in Macs \cup {NoMac}, NEW creating \in BOOLEAN,
         creating <=> m = NoMac, OpenDialog(m, creating),
         route' \in Macs \cup {NoMac}, loader'.step = "details" => route' # NoMac
  PROVE  DialogInv'
<1> DEFINE d == [open |-> TRUE, mac |-> m, creating |-> creating, saving |-> FALSE,
                 pane |-> "edit", setup |-> NoSetup]
<1>1. d \in Dialogs /\ d.open /\ d.creating = creating /\ d.mac = m /\ d.pane = "edit"
      /\ d.setup = NoSetup
  BY DEF Dialogs, Panes, NoSetup
<1>2. dialog' = d /\ edits' = Orphans /\ loads' = IF creating THEN {} ELSE AskSetup(m, {})
  BY DEF OpenDialog
<1>. HIDE DEF d
<1>3. loads' \subseteq Loads /\ \A l \in loads' : l.latest => l.mac = m
  BY <1>2, AskSetupKeeps
<1>4. \A e \in edits' : e.ours = FALSE
  BY <1>2, OrphansFields
<1>. QED
  BY <1>1, <1>2, <1>3, <1>4 DEF DialogInv, SetupIsOfThisMachine

\* The dialog stays for its machine, and no request for it is added.
LEMMA DialogStays ==
  ASSUME DialogInv, UNCHANGED <<route, loader>>, dialog.open,
         dialog' \in Dialogs, loads' \subseteq loads, edits' \subseteq edits,
         dialog'.mac = dialog.mac, dialog'.creating = dialog.creating,
         dialog'.pane # "edit" => ~dialog.creating,
         dialog'.setup = dialog.setup \/ dialog'.setup.of = dialog.mac,
         \A e \in edits' : e.ours => dialog'.saving
  PROVE  DialogInv'
  BY DialogFields DEF DialogInv, SetupIsOfThisMachine

LEMMA ListedAreMacs ==
  ASSUME NEW seq \in Seq(Macs)
  PROVE  Listed(seq) \subseteq Macs
  BY LenProperties, ElementOfSeq DEF Listed

LEMMA DialogKeeps ==
  ASSUME DialogInv, ListInv, PageStep
  PROVE  DialogInv'
<1>. USE DialogFields
<1>1. dialog \in Dialogs \cup {Closed} /\ loads \subseteq Loads
  BY DEF DialogInv
<1>2. ASSUME UNCHANGED <<dialog, loads>>, edits' \subseteq edits, route' \in {route, NoMac},
             loader'.step = "details" => loader.step = "details" /\ route' = route
      PROVE  DialogInv'
  BY <1>2, PanelServerAssumption DEF DialogInv, SetupIsOfThisMachine
<1>3. CASE \/ ListServed \/ ListFails \/ TryAgain \/ PollReads \/ PollEnds
           \/ \E m \in Macs : Wake(m)
           \/ \E t \in tasks : CommandSent(t) \/ CommandFails(t) \/ CheckConfirms(t) \/ CheckDoesNot(t)
  <2>1. UNCHANGED <<editing, route>>
    BY <1>3 DEF ListServed, ListFails, TryAgain, PollReads, PollEnds, Wake, CommandSent,
                CommandFails, CheckConfirms, CheckDoesNot, list
  <2>2. ASSUME ListServed \/ ListFails \/ TryAgain PROVE loader'.step # "details"
    BY <2>2 DEF ListServed, ListFails, TryAgain
  <2>3. UNCHANGED loader \/ ListServed \/ ListFails \/ TryAgain
    BY <1>3 DEF PollReads, PollEnds, Wake, CommandSent, CommandFails, CheckConfirms,
                CheckDoesNot, list
  <2>. QED
    BY <1>2, <2>1, <2>2, <2>3 DEF editing
<1>4. CASE ListAnswered
  <2>1. UNCHANGED <<dialog, loads, edits, route>>
        /\ (loader'.step = "details" => route # NoMac)
    BY <1>4 DEF ListAnswered, editing
  <2>. QED
    BY <2>1 DEF DialogInv, SetupIsOfThisMachine
<1>5. CASE RouteAnswered
  <2>1. loader'.step # "details" /\ route' = NoMac
    BY <1>5 DEF RouteAnswered, ListInv
  <2>2. CASE route \in Listed(registry) /\ OpenDialog(route, FALSE)
    <3>1. route \in Macs /\ route # NoMac
      BY <2>2, ListedAreMacs, PanelServerAssumption DEF ListInv, IsList
    <3>. QED
      BY <2>1, <2>2, <3>1, OpenDialogKeeps
  <2>3. CASE UNCHANGED editing
    BY <1>2, <2>1, <2>3 DEF editing
  <2>. QED
    BY <1>5, <2>2, <2>3 DEF RouteAnswered
<1>6. CASE ShutDown
  <2>1. /\ dialog.open /\ dialog' = [dialog EXCEPT !.pane = "edit"]
        /\ UNCHANGED <<route, loader, loads, edits>>
    BY <1>6 DEF ShutDown, list
  <2>2. dialog' \in Dialogs
    BY <1>1, <2>1 DEF Dialogs, Panes
  <2>. QED
    BY <1>1, <2>1, <2>2, DialogStays DEF DialogInv
<1>7. ASSUME NEW m \in Macs \cup {NoMac}, Open(m) PROVE DialogInv'
  <2>1. UNCHANGED <<route, loader>>
    BY <1>7 DEF Open, list
  <2>2. CASE m \in Listed(machines) /\ OpenDialog(m, FALSE)
    <3>1. m \in Macs /\ m # NoMac
      BY <2>2, ListedAreMacs, PanelServerAssumption DEF ListInv
    <3>. QED
      BY <2>1, <2>2, <3>1, OpenDialogKeeps DEF DialogInv
  <2>3. CASE m = NoMac /\ OpenDialog(m, TRUE)
    BY <2>1, <2>3, OpenDialogKeeps DEF DialogInv
  <2>. QED
    BY <1>7, <2>2, <2>3 DEF Open
<1>8. CASE Close
  <2>1. dialog' = Closed /\ loads' = {} /\ edits' = Orphans /\ UNCHANGED <<route, loader>>
    BY <1>8 DEF Close, list
  <2>. QED
    BY <2>1, OrphansFields DEF DialogInv, SetupIsOfThisMachine
<1>9. ASSUME NEW p \in Panes, ShowPane(p) PROVE DialogInv'
  <2>1. /\ dialog.open /\ ~dialog.creating /\ dialog' = [dialog EXCEPT !.pane = p]
        /\ UNCHANGED <<route, loader, loads, edits>>
    BY <1>9 DEF ShowPane, list
  <2>2. dialog' \in Dialogs
    BY <1>1, <2>1 DEF Dialogs
  <2>. QED
    BY <1>1, <2>1, <2>2, DialogStays DEF DialogInv
<1>10. CASE Back
  <2>1. /\ dialog.open /\ dialog.pane # "edit" /\ dialog' = [dialog EXCEPT !.pane = "edit"]
        /\ loads' = IF dialog.pane = "setup" THEN AskSetup(dialog.mac, loads) ELSE loads
        /\ UNCHANGED <<route, loader, edits>>
    BY <1>10 DEF Back, list
  <2>2. dialog \in Dialogs /\ dialog' \in Dialogs /\ dialog.mac \in Macs
    BY <1>1, <2>1 DEF Dialogs, Panes, DialogInv
  <2>3. loads' \subseteq Loads /\ \A l \in loads' : l.latest => l.mac = dialog.mac
    BY <1>1, <2>1, <2>2, AskSetupKeeps DEF DialogInv
  <2>4. /\ dialog'.open /\ dialog'.mac = dialog.mac /\ dialog'.creating = dialog.creating
        /\ dialog'.pane = "edit" /\ dialog'.setup = dialog.setup /\ dialog'.saving = dialog.saving
    BY <2>1, <2>2
  <2>. QED
    BY <2>1, <2>2, <2>3, <2>4 DEF DialogInv, SetupIsOfThisMachine
<1>11. ASSUME NEW l \in loads, SetupAnswered(l) PROVE DialogInv'
  <2>1. loads' = loads \ {l} /\ UNCHANGED <<route, loader, edits>>
    BY <1>11 DEF SetupAnswered, list
  <2>2. CASE UNCHANGED dialog
    BY <2>1, <2>2 DEF DialogInv, SetupIsOfThisMachine
  <2>3. ASSUME NEW ready \in BOOLEAN, l.latest,
               dialog' = [dialog EXCEPT !.setup = [of |-> l.mac, ready |-> ready]]
        PROVE  DialogInv'
    <3>1. dialog.open /\ dialog \in Dialogs /\ l.mac = dialog.mac /\ l.mac \in Macs
      BY <1>1, <2>3 DEF DialogInv, Loads
    <3>2. [of |-> l.mac, ready |-> ready] \in [of : Macs \cup {NoMac}, ready : BOOLEAN]
      BY <3>1
    <3>3. dialog' \in Dialogs /\ dialog'.setup.of = dialog.mac /\ dialog'.mac = dialog.mac
          /\ dialog'.creating = dialog.creating /\ dialog'.pane = dialog.pane
          /\ dialog'.saving = dialog.saving
      BY <2>3, <3>1, <3>2 DEF Dialogs
    <3>. QED
      BY <2>1, <3>1, <3>3, DialogStays DEF DialogInv
  <2>. QED
    BY <1>11, <2>2, <2>3 DEF SetupAnswered
<1>12. ASSUME NEW e, dialog.open, Send(e) PROVE DialogInv'
  <2>1. /\ ~dialog.saving /\ dialog' = [dialog EXCEPT !.saving = TRUE]
        /\ edits' = edits \cup {[id |-> inputs', edit |-> e, saved |-> FALSE, ours |-> TRUE]}
        /\ UNCHANGED <<route, loader, loads>>
    BY <1>12 DEF Send, list
  <2>2. dialog \in Dialogs /\ dialog' \in Dialogs /\ dialog'.saving = TRUE
        /\ dialog'.mac = dialog.mac /\ dialog'.creating = dialog.creating
        /\ dialog'.pane = dialog.pane /\ dialog'.setup = dialog.setup
    BY <1>1, <1>12, <2>1 DEF Dialogs
  <2>3. \A f \in edits : ~f.ours
    BY <2>1 DEF DialogInv
  <2>. QED
    BY <1>12, <2>1, <2>2, <2>3 DEF DialogInv, SetupIsOfThisMachine
<1>13. ASSUME NEW e \in edits, EditServed(e) PROVE DialogInv'
  <2>1. /\ edits' = (edits \ {e}) \cup {[e EXCEPT !.saved = TRUE]}
        /\ UNCHANGED <<route, loader, dialog, loads>>
    BY <1>13 DEF EditServed, list
  <2>2. [e EXCEPT !.saved = TRUE].ours = e.ours
    BY DEF ListInv
  <2>. QED
    BY <2>1, <2>2 DEF DialogInv, SetupIsOfThisMachine
<1>14. ASSUME NEW e \in edits, EditAnswered(e) PROVE DialogInv'
  <2>1. edits' = edits \ {e} /\ UNCHANGED <<route, loader>>
    BY <1>14 DEF EditAnswered
  <2>2. CASE ~e.ours
    BY <1>2, <1>14, <2>1, <2>2 DEF EditAnswered
  <2>3. CASE e.ours
    <3>1. dialog.open /\ dialog \in Dialogs /\ (\A f \in edits' : ~f.ours) /\ AfterSave(e.edit)
      BY <1>1, <1>14, <2>1, <2>3 DEF EditAnswered, DialogInv
    <3>2. CASE e.edit.kind = "delete"
      BY <2>1, <3>1, <3>2 DEF AfterSave, DialogInv, SetupIsOfThisMachine
    <3>3. CASE e.edit.kind # "delete"
      <4>1. e.edit.to \in Macs /\ e.edit.to # NoMac
        BY <3>3, EditFields, PanelServerAssumption DEF ListInv
      <4>2. PICK pane \in {"setup", dialog.pane} :
              dialog' = [dialog EXCEPT !.mac = e.edit.to, !.creating = FALSE, !.saving = FALSE,
                                       !.setup = NoSetup, !.pane = pane]
        BY <3>1, <3>3 DEF AfterSave
      <4>3. loads' = AskSetup(e.edit.to, loads)
        BY <3>1, <3>3 DEF AfterSave
      <4>4. /\ dialog' \in Dialogs /\ dialog'.mac = e.edit.to /\ dialog'.creating = FALSE
            /\ dialog'.setup = NoSetup
        BY <3>1, <4>1, <4>2 DEF Dialogs, Panes, NoSetup
      <4>5. loads' \subseteq Loads /\ \A l \in loads' : l.latest => l.mac = e.edit.to
        BY <1>1, <4>1, <4>3, AskSetupKeeps
      <4>. QED
        BY <2>1, <3>1, <4>1, <4>4, <4>5 DEF DialogInv, SetupIsOfThisMachine
    <3>. QED
      BY <3>2, <3>3
  <2>. QED
    BY <2>2, <2>3
<1>15. ASSUME NEW e \in edits, EditFails(e) PROVE DialogInv'
  <2>1. /\ edits' = edits \ {e} /\ UNCHANGED <<route, loader, loads>>
        /\ dialog' = IF e.ours THEN [dialog EXCEPT !.saving = FALSE] ELSE dialog
    BY <1>15 DEF EditFails, list
  <2>2. CASE ~e.ours
    BY <1>2, <2>1, <2>2
  <2>3. CASE e.ours
    <3>1. dialog.open /\ dialog \in Dialogs /\ \A f \in edits' : ~f.ours
      BY <1>1, <2>1, <2>3 DEF DialogInv
    <3>2. dialog' \in Dialogs /\ dialog'.mac = dialog.mac /\ dialog'.creating = dialog.creating
          /\ dialog'.pane = dialog.pane /\ dialog'.setup = dialog.setup
      BY <2>1, <2>3, <3>1 DEF Dialogs
    <3>. QED
      BY <2>1, <3>1, <3>2, DialogStays DEF DialogInv
  <2>. QED
    BY <2>2, <2>3
<1>16. ASSUME \/ \E m \in Macs : Submit(m)
              \/ \E m \in Macs \cup {NoMac} : Open(m)
              \/ \E p \in Panes : ShowPane(p)
              \/ Delete
       PROVE  DialogInv'
  BY <1>7, <1>9, <1>12, <1>16 DEF Submit, Delete
<1>. QED
  BY <1>3, <1>4, <1>5, <1>6, <1>8, <1>10, <1>11, <1>13, <1>14, <1>15, <1>16 DEF PageStep

-----------------------------------------------------------------------------
(* The list of the page                                                    *)

LEMMA SavedKeeps ==
  ASSUME machines \in Seq(Macs), NEW e \in Edits
  PROVE  /\ Saved(e) \in Seq(Macs)
         /\ IsList(machines) /\ Accepted(Listed(machines), e) =>
              IsList(Saved(e)) /\ Listed(Saved(e)) = Effect(Listed(machines), e)
<1>1. Len(machines) \in Nat /\ DOMAIN machines = 1 .. Len(machines)
  BY LenProperties
<1>2. CASE e.kind = "create"
  <2>1. PICK x : x = e.to
    OBVIOUS
  <2>2. x \in Macs /\ Saved(e) = <<x>> \o machines
    BY <1>2, <2>1, EditFields DEF Saved
  <2>3. PICK longer : longer = <<x>> \o machines
    OBVIOUS
  <2>4. /\ longer \in Seq(Macs) /\ DOMAIN longer = 1 .. Len(machines) + 1
        /\ longer[1] = x /\ \A i \in 1 .. Len(machines) : longer[i + 1] = machines[i]
    BY <1>1, <2>2, <2>3
  <2>5. \A i \in 2 .. Len(machines) + 1 : i - 1 \in 1 .. Len(machines) /\ longer[i] = machines[i - 1]
    BY <1>1, <2>4
  <2>6. Listed(longer) = {x} \cup Listed(machines)
    <3>1. Listed(longer) \subseteq {x} \cup Listed(machines)
      <4>1. \A i \in DOMAIN longer : i = 1 \/ i \in 2 .. Len(machines) + 1
        BY <1>1, <2>4
      <4>2. \A i \in DOMAIN longer : longer[i] \in {x} \cup Listed(machines)
        BY <1>1, <2>4, <2>5, <4>1 DEF Listed
      <4>. QED
        BY <4>2 DEF Listed
    <3>2. x \in Listed(longer)
      BY <1>1, <2>4 DEF Listed
    <3>3. Listed(machines) \subseteq Listed(longer)
      <4>1. \A i \in 1 .. Len(machines) : i + 1 \in DOMAIN longer
        BY <1>1, <2>4
      <4>. QED
        BY <1>1, <2>4, <4>1 DEF Listed
    <3>. QED
      BY <3>1, <3>2, <3>3
  <2>7. IsInjective(machines) /\ x \notin Listed(machines) => IsInjective(longer)
    <3>. SUFFICES ASSUME IsInjective(machines), x \notin Listed(machines),
                         NEW i \in DOMAIN longer, NEW j \in DOMAIN longer, longer[i] = longer[j]
                  PROVE  i = j
      BY DEF IsInjective
    <3>1. i \in 1 .. Len(machines) + 1 /\ j \in 1 .. Len(machines) + 1
      BY <2>4
    <3>2. \A k \in 2 .. Len(machines) + 1 : longer[k] \in Listed(machines)
      BY <1>1, <2>5 DEF Listed
    <3>3. CASE i = 1 \/ j = 1
      BY <1>1, <2>4, <3>1, <3>2, <3>3
    <3>4. CASE i # 1 /\ j # 1
      <4>1. i - 1 \in DOMAIN machines /\ j - 1 \in DOMAIN machines
            /\ machines[i - 1] = machines[j - 1]
        BY <1>1, <2>5, <3>1, <3>4
      <4>2. i - 1 = j - 1
        BY <4>1 DEF IsInjective
      <4>. QED
        BY <1>1, <3>1, <4>2
    <3>. QED
      BY <3>3, <3>4
  <2>8. Effect(Listed(machines), e) = Listed(machines) \cup {x}
        /\ (Accepted(Listed(machines), e) => x \notin Listed(machines))
    BY <1>2, <2>1 DEF Effect, Accepted
  <2>. QED
    BY <2>2, <2>3, <2>4, <2>6, <2>7, <2>8 DEF IsList
<1>3. CASE e.kind = "update"
  <2>1. PICK replaced : replaced = [i \in DOMAIN machines |-> IF machines[i] = e.from THEN e.to ELSE machines[i]]
    OBVIOUS
  <2>2. Saved(e) = replaced /\ e.to \in Macs
    BY <1>3, <2>1, EditFields DEF Saved
  <2>3. replaced \in Seq(Macs)
    <3>1. machines \in [1 .. Len(machines) -> Macs]
      BY LenProperties
    <3>2. replaced \in [1 .. Len(machines) -> Macs]
      BY <1>1, <2>1, <2>2, <3>1
    <3>. QED
      BY <1>1, <3>2, SeqDef
  <2>4. ASSUME IsList(machines), Accepted(Listed(machines), e)
        PROVE  IsList(replaced) /\ Listed(replaced) = Effect(Listed(machines), e)
    <3>1. e.from \in Listed(machines) /\ e.to \notin Listed(machines) \ {e.from}
      BY <1>3, <2>4 DEF Accepted
    <3>. QED
      BY <1>3, <2>1, <2>2, <2>4, <3>1, ReplacedKeeps DEF Effect
  <2>. QED
    BY <2>2, <2>3, <2>4
<1>4. CASE e.kind = "delete"
  <2>1. Saved(e) = Without(machines, e.from)
    BY <1>4 DEF Saved
  <2>. QED
    BY <1>4, <2>1, WithoutKeeps DEF IsList, Effect
<1>. QED
  BY <1>2, <1>3, <1>4, EditFields

\* Nothing is served or answered: the edits may be others' or new.
LEMMA EditsKeep ==
  ASSUME ListInv, UNCHANGED <<machines, served>>, IsList(registry'), inputs' \in Nat,
         loader' \in [step : LoaderSteps, list : Seq(Macs)],
         loader'.step = "served" <=> loader.step = "served",
         loader'.step = "served" => loader' = loader,
         error' \in BOOLEAN, excused' \in BOOLEAN, error' => loader'.step = "idle",
         ~excused' /\ ~error' /\ loader'.step # "asked" =>
           ~excused /\ ~error /\ loader.step # "asked" /\ registry' = registry,
         edits' \subseteq [id : 1 .. inputs', edit : Edits, saved : BOOLEAN, ours : BOOLEAN],
         \A e, f \in edits' : e.id = f.id => e = f,
         \A e \in edits : e.saved => \E f \in edits' : f.saved /\ f.id = e.id /\ f.edit = e.edit,
         \A f \in edits' : f.saved => \E e \in edits : e.saved /\ e.id = f.id
  PROVE  ListInv'
<1>1. ASSUME ~excused', ~error', loader'.step # "asked" PROVE CatchesUp'
  <2>1. CatchesUp /\ registry' = registry
    BY <1>1 DEF ListInv
  <2>2. PICK p \in 0 .. Len(served), on \in [0 .. Len(served) -> SUBSET Macs] : Lags(p, on)
    BY <2>1 DEF CatchesUp
  <2>3. \A i \in p + 1 .. Len(served) :
          \E f \in edits' : /\ f.saved /\ f.id = served[i]
                            /\ Accepted(on[i - 1], f.edit) /\ on[i] = Effect(on[i - 1], f.edit)
    <3>. TAKE i \in p + 1 .. Len(served)
    <3>1. PICK e \in edits : /\ e.saved /\ e.id = served[i]
                             /\ Accepted(on[i - 1], e.edit) /\ on[i] = Effect(on[i - 1], e.edit)
      BY <2>2 DEF Lags
    <3>2. PICK f \in edits' : f.saved /\ f.id = e.id /\ f.edit = e.edit
      BY <3>1
    <3>. QED
      BY <3>1, <3>2
  <2>4. Lags(p, on)'
    BY <2>1, <2>2, <2>3 DEF Lags
  <2>. QED
    BY <2>4 DEF CatchesUp
<1>2. \A id \in Listed(served) : id # 0 => \E e \in edits' : e.saved /\ e.id = id
  BY DEF ListInv
<1>3. \A e \in edits' : e.saved => e.id \in Listed(served)
  BY DEF ListInv
<1>4. 0 \in Listed(served) <=> loader'.step = "served"
  BY DEF ListInv
<1>5. served' = served /\ machines' = machines /\ served \in Seq(Nat) /\ IsInjective(served)
      /\ machines \in Seq(Macs)
  BY DEF ListInv
<1>. QED
  BY <1>1, <1>2, <1>3, <1>4, <1>5 DEF ListInv

LEMMA ListServedKeeps ==
  ASSUME ListInv, ListServed
  PROVE  ListInv'
<1>1. /\ loader.step = "asked" /\ loader' = [step |-> "served", list |-> registry]
      /\ served' = Append(served, 0)
      /\ UNCHANGED <<registry, inputs, machines, error, edits, excused>>
  BY DEF ListServed, editing
<1>2. /\ served \in Seq(Nat) /\ IsInjective(served) /\ 0 \notin Listed(served) /\ IsList(registry)
      /\ error = FALSE
  BY <1>1 DEF ListInv
<1>3. /\ served' \in Seq(Nat) /\ IsInjective(served') /\ Listed(served') = Listed(served) \cup {0}
      /\ Len(served') = Len(served) + 1 /\ Len(served) \in Nat
  BY <1>1, <1>2, AppendKeeps, LenProperties
<1>4. loader' \in [step : LoaderSteps, list : Seq(Macs)] /\ loader'.step = "served"
      /\ loader'.list = registry
  BY <1>1, <1>2 DEF LoaderSteps, IsList
<1>5. CatchesUp'
  <2>0. PICK p, on : p = Len(served') /\ on = [i \in 0 .. Len(served') |-> Listed(registry)]
    OBVIOUS
  <2>1. served'[p] = 0 /\ p \in 0 .. Len(served') /\ p # 0
    BY <1>1, <1>2, <1>3, <2>0
  <2>2. Listed(registry) \subseteq Macs
    BY <1>2, ListedAreMacs DEF IsList
  <2>3. on \in [0 .. Len(served') -> SUBSET Macs] /\ on[p] = Listed(registry)
        /\ on[Len(served')] = Listed(registry)
    BY <2>0, <2>1, <2>2
  <2>4. \A i \in p + 1 .. Len(served') : FALSE
    BY <1>3, <2>0
  <2>5. Lags(p, on)'
    BY <1>1, <1>2, <1>4, <2>1, <2>3, <2>4 DEF Lags
  <2>. QED
    BY <2>1, <2>3, <2>5 DEF CatchesUp
<1>. QED
  BY <1>1, <1>2, <1>3, <1>4, <1>5 DEF ListInv

LEMMA ListFailsKeeps ==
  ASSUME ListInv, ListFails
  PROVE  ListInv'
<1>1. /\ loader.step \in {"asked", "served"} /\ loader' = [step |-> "idle", list |-> <<>>]
      /\ error' = TRUE /\ served' = Without(served, 0)
      /\ UNCHANGED <<registry, inputs, machines, edits, excused>>
  BY DEF ListFails, editing
<1>2. served \in Seq(Nat) /\ IsInjective(served)
  BY DEF ListInv
<1>3. served' \in Seq(Nat) /\ IsInjective(served') /\ Listed(served') = Listed(served) \ {0}
  BY <1>1, <1>2, WithoutKeeps
<1>4. loader' \in [step : LoaderSteps, list : Seq(Macs)] /\ loader'.step = "idle"
  BY <1>1, EmptySeq DEF LoaderSteps
<1>5. \A e \in edits : e.id # 0
  BY DEF ListInv
<1>. QED
  BY <1>1, <1>3, <1>4, <1>5 DEF ListInv

\* The answer to the request that was served first comes first.
LEMMA FirstAnswered ==
  ASSUME NEW seq \in Seq(Nat), IsInjective(seq), seq # <<>>, NEW rest, rest = Without(seq, Head(seq))
  PROVE  /\ Len(seq) \in Nat /\ Len(seq) # 0 /\ seq[1] = Head(seq) /\ DOMAIN seq = 1 .. Len(seq)
         /\ rest \in Seq(Nat) /\ Len(rest) = Len(seq) - 1
         /\ \A i \in 1 .. Len(rest) : rest[i] = seq[i + 1]
<1>1. rest = Tail(seq)
  BY WithoutHead
<1>2. Len(seq) \in Nat /\ Len(seq) # 0 /\ Head(seq) = seq[1] /\ DOMAIN seq = 1 .. Len(seq)
  BY LenProperties, SeqEqual, EmptySeq
<1>3. /\ Tail(seq) \in Seq(Nat) /\ Len(Tail(seq)) = Len(seq) - 1
      /\ \A i \in 1 .. Len(Tail(seq)) : Tail(seq)[i] = seq[i + 1]
  BY HeadTailProperties, Zenon
<1>. QED
  BY <1>1, <1>2, <1>3, Zenon

LEMMA ListAnsweredKeeps ==
  ASSUME ListInv, ListAnswered
  PROVE  ListInv'
<1>1. /\ loader.step = "served" /\ machines' = loader.list
      /\ loader' = [step |-> IF route = NoMac THEN "idle" ELSE "details", list |-> <<>>]
      /\ served' = Without(served, 0) /\ excused' = (excused \/ Head(served) # 0)
      /\ UNCHANGED <<registry, inputs, error, edits>>
  BY DEF ListAnswered, Answered, editing
<1>2. /\ served \in Seq(Nat) /\ IsInjective(served) /\ 0 \in Listed(served) /\ error = FALSE
      /\ loader.list \in Seq(Macs) /\ excused \in BOOLEAN
  BY <1>1 DEF ListInv
<1>3. served' \in Seq(Nat) /\ IsInjective(served') /\ Listed(served') = Listed(served) \ {0}
  BY <1>1, <1>2, WithoutKeeps
<1>4. /\ loader' \in [step : LoaderSteps, list : Seq(Macs)]
      /\ loader'.step \in {"idle", "details"}
  BY <1>1, EmptySeq DEF LoaderSteps
<1>5. ASSUME ~excused' PROVE CatchesUp'
  <2>1. ~excused /\ Head(served) = 0
    BY <1>1, <1>2, <1>5
  <2>2. served # <<>>
    BY <1>2 DEF Listed
  <2>3. /\ Len(served) \in Nat /\ Len(served) # 0 /\ served[1] = 0 /\ DOMAIN served = 1 .. Len(served)
        /\ Len(served') = Len(served) - 1
        /\ \A i \in 1 .. Len(served') : served'[i] = served[i + 1]
    BY <1>1, <1>2, <2>1, <2>2, FirstAnswered
  <2>4. PICK p \in 0 .. Len(served), on \in [0 .. Len(served) -> SUBSET Macs] : Lags(p, on)
    BY <1>1, <1>2, <2>1 DEF ListInv, CatchesUp
  <2>5. /\ p # 0 /\ served[p] = 0 /\ IsList(loader.list) /\ on[p] = Listed(loader.list)
        /\ on[Len(served)] = Listed(registry)
    BY <1>1, <2>4 DEF Lags
  <2>6. p = 1
    <3>1. 1 \in DOMAIN served /\ p \in DOMAIN served /\ served[1] = served[p]
      BY <2>3, <2>5
    <3>. QED
      BY <1>2, <3>1 DEF IsInjective
  <2>7. PICK later : later = [i \in 0 .. Len(served') |-> on[i + 1]]
    OBVIOUS
  <2>8. later \in [0 .. Len(served') -> SUBSET Macs]
    BY <2>3, <2>4, <2>7
  <2>9. ASSUME NEW i \in 1 .. Len(served')
        PROVE  \E e \in edits' : /\ e.saved /\ e.id = served'[i] /\ Accepted(later[i - 1], e.edit)
                                 /\ later[i] = Effect(later[i - 1], e.edit)
    <3>1. PICK k : k = i + 1
      OBVIOUS
    <3>2. k \in 2 .. Len(served) /\ k - 1 = i /\ i - 1 \in 0 .. Len(served') /\ (i - 1) + 1 = i
      BY <2>3, <2>9, <3>1
    <3>3. later[i] = on[k] /\ later[i - 1] = on[k - 1] /\ served'[i] = served[k]
      BY <2>3, <2>7, <3>1, <3>2
    <3>4. \E e \in edits : /\ e.saved /\ e.id = served[k] /\ Accepted(on[k - 1], e.edit)
                           /\ on[k] = Effect(on[k - 1], e.edit)
      BY <2>4, <2>6, <3>2 DEF Lags
    <3>. QED
      BY <1>1, <3>3, <3>4
  <2>10. 0 \in 0 .. Len(served') /\ later[0] = on[1] /\ later[Len(served')] = on[Len(served)]
    BY <2>3, <2>7
  <2>11. Lags(0, later)'
    BY <1>1, <1>4, <2>5, <2>6, <2>9, <2>10 DEF Lags
  <2>. QED
    BY <2>8, <2>10, <2>11 DEF CatchesUp
<1>6. \A e \in edits : e.id # 0
  BY DEF ListInv
<1>. QED
  BY <1>1, <1>2, <1>3, <1>4, <1>5, <1>6 DEF ListInv

LEMMA EditServedKeeps ==
  ASSUME ListInv, NEW e \in edits, EditServed(e)
  PROVE  ListInv'
<1> DEFINE new == [e EXCEPT !.saved = TRUE]
<1>1. /\ ~e.saved /\ Accepts(e.edit) /\ registry' = Edited(registry, e.edit)
      /\ served' = Append(served, e.id) /\ edits' = (edits \ {e}) \cup {new}
      /\ UNCHANGED <<inputs, machines, loader, error, excused>>
  BY DEF EditServed, list
<1>2. /\ new \in [id : 1 .. inputs, edit : Edits, saved : BOOLEAN, ours : BOOLEAN]
      /\ new.id = e.id /\ new.edit = e.edit /\ new.saved = TRUE
      /\ e.id \in Nat /\ e.id # 0 /\ e.edit \in Edits
  <2>1. e \in [id : 1 .. inputs, edit : Edits, saved : BOOLEAN, ours : BOOLEAN] /\ inputs \in Nat
    BY DEF ListInv
  <2>2. e.id \in 1 .. inputs /\ e.edit \in Edits
    BY <2>1
  <2>3. e.id \in Nat /\ e.id # 0
    BY <2>1, <2>2
  <2>4. new \in [id : 1 .. inputs, edit : Edits, saved : BOOLEAN, ours : BOOLEAN]
    BY <2>1
  <2>5. new.id = e.id /\ new.edit = e.edit /\ new.saved = TRUE
    BY <2>1
  <2>. QED
    BY <2>2, <2>3, <2>4, <2>5
<1>. HIDE DEF new
<1>3. /\ served \in Seq(Nat) /\ IsInjective(served) /\ IsList(registry)
      /\ \A f \in edits : f.id = e.id => f = e
  BY DEF ListInv
<1>4. e.id \notin Listed(served)
  BY <1>1, <1>2, <1>3 DEF ListInv
<1>5. /\ served' \in Seq(Nat) /\ IsInjective(served') /\ Listed(served') = Listed(served) \cup {e.id}
      /\ Len(served') = Len(served) + 1 /\ Len(served) \in Nat
  <2>1. PICK id : id = e.id
    OBVIOUS
  <2>2. id \in Nat /\ id \notin Listed(served) /\ served' = Append(served, id)
    BY <1>1, <1>2, <1>4, <2>1
  <2>. QED
    BY <1>3, <2>1, <2>2, AppendKeeps, LenProperties
<1>6. /\ Accepted(Listed(registry), e.edit)
      /\ IsList(registry') /\ Listed(registry') = Effect(Listed(registry), e.edit)
  BY <1>1, <1>2, <1>3, AcceptsIsAccepted, EditedKeeps
<1>7. ASSUME ~excused', ~error', loader'.step # "asked" PROVE CatchesUp'
  <2>1. PICK p \in 0 .. Len(served), on \in [0 .. Len(served) -> SUBSET Macs] : Lags(p, on)
    BY <1>1, <1>7 DEF ListInv, CatchesUp
  <2>2. PICK longer : longer = [i \in 0 .. Len(served') |->
                                 IF i = Len(served') THEN Listed(registry') ELSE on[i]]
    OBVIOUS
  <2>3. Listed(registry') \subseteq Macs
    BY <1>6, ListedAreMacs DEF IsList
  <2>4. longer \in [0 .. Len(served') -> SUBSET Macs]
        /\ longer[Len(served')] = Listed(registry')
        /\ \A i \in 0 .. Len(served) : longer[i] = on[i]
    BY <1>5, <2>2, <2>3
  <2>5. \A i \in 1 .. Len(served) : served'[i] = served[i]
    BY <1>1, <1>3
  <2>6. ASSUME NEW i \in p + 1 .. Len(served')
        PROVE  \E f \in edits' : /\ f.saved /\ f.id = served'[i] /\ Accepted(longer[i - 1], f.edit)
                                 /\ longer[i] = Effect(longer[i - 1], f.edit)
    <3>1. CASE i \in p + 1 .. Len(served)
      <4>1. PICK f \in edits : /\ f.saved /\ f.id = served[i] /\ Accepted(on[i - 1], f.edit)
                               /\ on[i] = Effect(on[i - 1], f.edit)
        BY <2>1, <3>1 DEF Lags
      <4>2. f \in edits'
        BY <1>1, <4>1
      <4>3. longer[i] = on[i] /\ longer[i - 1] = on[i - 1] /\ served'[i] = served[i]
        <5>1. i \in 1 .. Len(served) /\ i - 1 \in 0 .. Len(served)
          BY <1>5, <2>1, <3>1
        <5>. QED
          BY <2>4, <2>5, <5>1
      <4>. QED
        BY <4>1, <4>2, <4>3
    <3>2. CASE i = Len(served')
      <4>1. i - 1 = Len(served) /\ served'[i] = e.id
        BY <1>1, <1>2, <1>3, <1>5, <3>2
      <4>2. longer[i] = Listed(registry') /\ longer[i - 1] = Listed(registry)
        BY <1>5, <2>1, <2>4, <3>2, <4>1 DEF Lags
      <4>. QED
        BY <1>1, <1>2, <1>6, <4>1, <4>2
    <3>. QED
      BY <1>5, <2>1, <2>6, <3>1, <3>2
  <2>7. p \in 0 .. Len(served') /\ longer[p] = on[p] /\ (p # 0 => served'[p] = served[p])
        /\ longer[0] = on[0]
    BY <1>5, <2>1, <2>4, <2>5
  <2>8. Lags(p, longer)'
    BY <1>1, <2>1, <2>4, <2>6, <2>7 DEF Lags
  <2>. QED
    BY <2>4, <2>7, <2>8 DEF CatchesUp
<1>8. edits' \subseteq [id : 1 .. inputs', edit : Edits, saved : BOOLEAN, ours : BOOLEAN]
  BY <1>1, <1>2 DEF ListInv
<1>9. \A f, g \in edits' : f.id = g.id => f = g
  BY <1>1, <1>2, <1>3 DEF ListInv
<1>10. \A f \in edits' : f.saved => f.id \in Listed(served')
  BY <1>1, <1>2, <1>5 DEF ListInv
<1>11. \A id \in Listed(served') : id # 0 => \E f \in edits' : f.saved /\ f.id = id
  <2>. TAKE id \in Listed(served')
  <2>1. CASE id = e.id
    BY <1>1, <1>2, <2>1
  <2>2. CASE id # e.id
    BY <1>1, <1>5, <2>2 DEF ListInv
  <2>. QED
    BY <2>1, <2>2
<1>12. 0 \in Listed(served') <=> loader'.step = "served"
  BY <1>1, <1>2, <1>5 DEF ListInv
<1>. QED
  BY <1>1, <1>5, <1>6, <1>7, <1>8, <1>9, <1>10, <1>11, <1>12 DEF ListInv

\* An answered edit leaves: what is served is still accounted for.
LEMMA EditLeaves ==
  ASSUME ListInv, NEW e \in edits, edits' = edits \ {e}, UNCHANGED <<registry, inputs, loader, error>>,
         machines' \in Seq(Macs), served' = Without(served, e.id), excused' \in BOOLEAN,
         ~excused' /\ ~error' /\ loader'.step # "asked" => CatchesUp'
  PROVE  ListInv'
<1>1. e.id # 0 /\ \A f \in edits : f.id = e.id => f = e
  BY DEF ListInv
<1>2. served \in Seq(Nat) /\ IsInjective(served)
  BY DEF ListInv
<1>3. served' \in Seq(Nat) /\ IsInjective(served') /\ Listed(served') = Listed(served) \ {e.id}
  BY <1>2, WithoutKeeps
<1>4. /\ edits' \subseteq [id : 1 .. inputs', edit : Edits, saved : BOOLEAN, ours : BOOLEAN]
      /\ \A f, g \in edits' : f.id = g.id => f = g
  BY DEF ListInv
<1>5. \A f \in edits' : f.saved => f.id \in Listed(served')
  BY <1>1, <1>3 DEF ListInv
<1>6. \A id \in Listed(served') : id # 0 => \E f \in edits' : f.saved /\ f.id = id
  BY <1>3 DEF ListInv
<1>7. 0 \in Listed(served') <=> loader'.step = "served"
  BY <1>1, <1>3 DEF ListInv
<1>8. /\ IsList(registry') /\ inputs' \in Nat /\ error' \in BOOLEAN
      /\ loader' \in [step : LoaderSteps, list : Seq(Macs)]
      /\ error' => loader'.step = "idle"
  BY DEF ListInv
<1>. QED
  BY <1>3, <1>4, <1>5, <1>6, <1>7, <1>8 DEF ListInv

LEMMA EditAnsweredKeeps ==
  ASSUME ListInv, NEW e \in edits, EditAnswered(e)
  PROVE  ListInv'
<1>1. /\ e.saved /\ edits' = edits \ {e} /\ machines' = Saved(e.edit)
      /\ served' = Without(served, e.id) /\ excused' = (excused \/ Head(served) # e.id)
      /\ UNCHANGED <<registry, inputs, loader, error>>
  BY DEF EditAnswered, Answered
<1>2. /\ served \in Seq(Nat) /\ IsInjective(served) /\ excused \in BOOLEAN
      /\ e.id \in Listed(served) /\ machines \in Seq(Macs) /\ e.edit \in Edits
      /\ \A f \in edits : f.id = e.id => f = e
  BY <1>1 DEF ListInv
<1>3. e.id # 0
  BY DEF ListInv
<1>4. ASSUME ~excused', ~error', loader'.step # "asked" PROVE CatchesUp'
  <2>1. ~excused /\ Head(served) = e.id
    BY <1>1, <1>2, <1>4
  <2>2. served # <<>>
    BY <1>2 DEF Listed
  <2>3. /\ Len(served) \in Nat /\ Len(served) # 0 /\ served[1] = e.id
        /\ DOMAIN served = 1 .. Len(served) /\ Len(served') = Len(served) - 1
        /\ \A i \in 1 .. Len(served') : served'[i] = served[i + 1]
    BY <1>1, <1>2, <2>1, <2>2, FirstAnswered
  <2>4. PICK p \in 0 .. Len(served), on \in [0 .. Len(served) -> SUBSET Macs] : Lags(p, on)
    BY <1>1, <1>4, <2>1 DEF ListInv, CatchesUp
  <2>5. PICK later : later = [i \in 0 .. Len(served') |-> on[i + 1]]
    OBVIOUS
  <2>6. later \in [0 .. Len(served') -> SUBSET Macs] /\ later[0] = on[1]
        /\ later[Len(served')] = on[Len(served)]
    BY <2>3, <2>4, <2>5
  <2>7. ASSUME NEW i \in 1 .. Len(served'), i + 1 \in p + 1 .. Len(served)
        PROVE  \E f \in edits' : /\ f.saved /\ f.id = served'[i] /\ Accepted(later[i - 1], f.edit)
                                 /\ later[i] = Effect(later[i - 1], f.edit)
    <3>1. PICK k : k = i + 1
      OBVIOUS
    <3>2. k \in p + 1 .. Len(served) /\ k - 1 = i /\ k # 1 /\ i - 1 \in 0 .. Len(served')
          /\ (i - 1) + 1 = i /\ k \in DOMAIN served /\ 1 \in DOMAIN served
      BY <2>3, <2>4, <2>7, <3>1
    <3>3. later[i] = on[k] /\ later[i - 1] = on[k - 1] /\ served'[i] = served[k]
      BY <2>3, <2>5, <3>1, <3>2
    <3>4. PICK f \in edits : /\ f.saved /\ f.id = served[k] /\ Accepted(on[k - 1], f.edit)
                             /\ on[k] = Effect(on[k - 1], f.edit)
      BY <2>4, <3>2 DEF Lags
    <3>5. f # e
      BY <1>2, <2>3, <3>2, <3>4 DEF IsInjective
    <3>. QED
      BY <1>1, <3>3, <3>4, <3>5
  <2>8. CASE loader.step = "served"
    <3>1. p # 0 /\ served[p] = 0 /\ IsList(loader.list) /\ on[p] = Listed(loader.list)
          /\ on[Len(served)] = Listed(registry)
      BY <2>4, <2>8 DEF Lags
    <3>2. p # 1
      BY <1>3, <2>3, <3>1
    <3>3. PICK q : q = p - 1
      OBVIOUS
    <3>4. q \in 1 .. Len(served') /\ q + 1 = p /\ q \in 0 .. Len(served')
      BY <2>3, <2>4, <3>1, <3>2, <3>3
    <3>5. served'[q] = 0 /\ later[q] = on[p] /\ q # 0
      BY <2>3, <2>5, <3>1, <3>4
    <3>6. \A i \in q + 1 .. Len(served') : i \in 1 .. Len(served') /\ i + 1 \in p + 1 .. Len(served)
      BY <2>3, <2>4, <3>4
    <3>7. Lags(q, later)'
      BY <1>1, <2>6, <2>7, <2>8, <3>1, <3>5, <3>6 DEF Lags
    <3>. QED
      BY <2>6, <3>4, <3>7 DEF CatchesUp
  <2>9. CASE loader.step # "served"
    <3>1. p = 0 /\ IsList(machines) /\ on[0] = Listed(machines) /\ on[Len(served)] = Listed(registry)
      BY <2>4, <2>9 DEF Lags
    <3>2. 1 \in p + 1 .. Len(served) /\ 1 - 1 = 0
      BY <2>3, <3>1
    <3>3. PICK f \in edits : /\ f.saved /\ f.id = served[1] /\ Accepted(on[1 - 1], f.edit)
                             /\ on[1] = Effect(on[1 - 1], f.edit)
      BY <2>4, <3>2 DEF Lags
    <3>4. Accepted(Listed(machines), e.edit) /\ on[1] = Effect(Listed(machines), e.edit)
      BY <1>2, <2>3, <3>1, <3>2, <3>3
    <3>5. IsList(machines') /\ Listed(machines') = on[1]
      BY <1>1, <1>2, <3>1, <3>4, SavedKeeps
    <3>6. \A i \in 0 + 1 .. Len(served') : i \in 1 .. Len(served') /\ i + 1 \in p + 1 .. Len(served)
      BY <2>3, <3>1
    <3>7. Lags(0, later)'
      BY <1>1, <2>6, <2>7, <2>9, <3>1, <3>5, <3>6 DEF Lags
    <3>8. 0 \in 0 .. Len(served')
      BY <2>3
    <3>. QED
      BY <2>6, <3>7, <3>8 DEF CatchesUp
  <2>. QED
    BY <2>8, <2>9
<1>5. machines' \in Seq(Macs) /\ excused' \in BOOLEAN
  BY <1>1, <1>2, SavedKeeps
<1>. QED
  BY <1>1, <1>4, <1>5, EditLeaves

LEMMA EditFailsKeeps ==
  ASSUME ListInv, NEW e \in edits, EditFails(e)
  PROVE  ListInv'
<1>1. /\ edits' = edits \ {e} /\ served' = Without(served, e.id) /\ excused' = (excused \/ e.saved)
      /\ UNCHANGED <<registry, inputs, machines, loader, error>>
  BY DEF EditFails, list
<1>2. /\ served \in Seq(Nat) /\ excused \in BOOLEAN /\ machines \in Seq(Macs)
      /\ e.saved \in BOOLEAN
      /\ \A f \in edits : f.id = e.id => f = e
  BY DEF ListInv
<1>3. e.id # 0
  BY DEF ListInv
<1>4. ASSUME ~excused', ~error', loader'.step # "asked" PROVE CatchesUp'
  <2>1. ~excused /\ ~e.saved
    BY <1>1, <1>4
  <2>2. e.id \notin Listed(served)
    BY <1>2, <1>3, <2>1 DEF ListInv
  <2>3. served' = served
    BY <1>1, <1>2, <2>2, WithoutAbsent
  <2>4. PICK p \in 0 .. Len(served), on \in [0 .. Len(served) -> SUBSET Macs] : Lags(p, on)
    BY <1>1, <1>4, <2>1 DEF ListInv, CatchesUp
  <2>5. \A f \in edits : f.saved => f \in edits'
    BY <1>1, <2>1
  <2>6. Lags(p, on)'
    BY <1>1, <2>3, <2>4, <2>5 DEF Lags
  <2>. QED
    BY <2>3, <2>4, <2>6 DEF CatchesUp
<1>. QED
  BY <1>1, <1>2, <1>4, EditLeaves

LEMMA ListKeeps ==
  ASSUME ListInv, DialogInv, PageStep
  PROVE  ListInv'
<1>1. ASSUME UNCHANGED <<registry, inputs, machines, loader, error, edits, served, excused>>
      PROVE  ListInv'
  BY <1>1, EditsKeep DEF ListInv
<1>2. ASSUME UNCHANGED <<registry, inputs, machines, served, excused, error>>,
             \/ loader' = loader
             \/ loader.step = "details" /\ loader' = [loader EXCEPT !.step = "idle"],
             edits' = Orphans \/ edits' = edits
      PROVE  ListInv'
  <2>1. /\ loader' \in [step : LoaderSteps, list : Seq(Macs)]
        /\ loader'.step = "served" <=> loader.step = "served"
        /\ loader'.step = "served" => loader' = loader
        /\ loader'.step # "asked" => loader.step # "asked"
        /\ error' => loader'.step = "idle"
    <3>1. loader \in [step : LoaderSteps, list : Seq(Macs)] /\ (error => loader.step = "idle")
      BY DEF ListInv
    <3>2. CASE loader' = loader
      BY <1>2, <3>1, <3>2
    <3>3. CASE loader.step = "details" /\ loader' = [loader EXCEPT !.step = "idle"]
      BY <1>2, <3>1, <3>3 DEF LoaderSteps
    <3>. QED
      BY <1>2, <3>2, <3>3
  <2>2. edits' \subseteq [id : 1 .. inputs', edit : Edits, saved : BOOLEAN, ours : BOOLEAN]
    BY <1>2, OrphansFields DEF ListInv
  <2>3. \A e \in edits : e.saved => \E f \in edits' : f.saved /\ f.id = e.id /\ f.edit = e.edit
    BY <1>2, OrphansFields
  <2>4. \A f \in edits' : f.saved => \E e \in edits : e.saved /\ e.id = f.id
    BY <1>2, OrphansFields
  <2>5. \A e, f \in edits' : e.id = f.id => e = f
    <3>1. \A e, f \in edits : e.id = f.id => e = f
      BY DEF ListInv
    <3>2. CASE edits' = Orphans
      BY <3>1, <3>2, OrphansFields
    <3>. QED
      BY <1>2, <3>1, <3>2
  <2>6. /\ IsList(registry') /\ inputs' \in Nat /\ error' \in BOOLEAN /\ excused' \in BOOLEAN
    BY <1>2 DEF ListInv
  <2>. QED
    BY <1>2, <2>1, <2>2, <2>3, <2>4, <2>5, <2>6, EditsKeep
<1>3. CASE ListServed \/ ListAnswered \/ ListFails
  BY <1>3, ListServedKeeps, ListAnsweredKeeps, ListFailsKeeps
<1>4. CASE RouteAnswered
  BY <1>2, <1>4 DEF RouteAnswered, OpenDialog, editing, history
<1>5. CASE TryAgain
  <2>1. /\ error /\ inputs' = inputs + 1 /\ loader' = [step |-> "asked", list |-> <<>>]
        /\ error' = FALSE /\ UNCHANGED <<registry, machines, edits, served, excused>>
    BY <1>5 DEF TryAgain, Input, editing, history
  <2>2. /\ loader.step = "idle" /\ inputs \in Nat /\ inputs' \in Nat
        /\ loader' \in [step : LoaderSteps, list : Seq(Macs)] /\ loader'.step = "asked"
    BY <2>1, EmptySeq DEF ListInv, LoaderSteps
  <2>3. edits' \subseteq [id : 1 .. inputs', edit : Edits, saved : BOOLEAN, ours : BOOLEAN]
    BY <2>1, <2>2 DEF ListInv
  <2>4. \A e, f \in edits : e.id = f.id => e = f
    BY DEF ListInv
  <2>5. IsList(registry') /\ excused' \in BOOLEAN
    BY <2>1 DEF ListInv
  <2>. QED
    BY <2>1, <2>2, <2>3, <2>4, <2>5, EditsKeep
<1>6. CASE \/ PollReads \/ PollEnds \/ ShutDown \/ Back
           \/ \E m \in Macs : Wake(m)
           \/ \E p \in Panes : ShowPane(p)
           \/ \E t \in tasks : CommandSent(t) \/ CommandFails(t) \/ CheckConfirms(t) \/ CheckDoesNot(t)
           \/ \E l \in loads : SetupAnswered(l)
  <2>1. UNCHANGED <<registry, inputs, list, edits, history>>
    BY <1>6 DEF PollReads, PollEnds, ShutDown, Back, Wake, ShowPane, CommandSent, CommandFails,
                CheckConfirms, CheckDoesNot, SetupAnswered, editing
  <2>. QED
    BY <1>1, <2>1 DEF list, history
<1>7. CASE Close \/ \E m \in Macs \cup {NoMac} : Open(m)
  <2>1. edits' = Orphans /\ UNCHANGED <<registry, inputs, list, history>>
    BY <1>7 DEF Close, Open, OpenDialog
  <2>2. /\ UNCHANGED <<registry, inputs, machines, served, excused, error>>
        /\ loader' = loader
    BY <2>1 DEF list, history
  <2>3. edits' = Orphans
    BY <2>1
  <2>. QED
    BY <1>2, <2>2, <2>3
<1>8. ASSUME NEW e \in Edits, Send(e) PROVE ListInv'
  <2> DEFINE new == [id |-> inputs', edit |-> e, saved |-> FALSE, ours |-> TRUE]
  <2>1. /\ inputs' = inputs + 1 /\ edits' = edits \cup {new}
        /\ UNCHANGED <<registry, machines, loader, error, served, excused>>
    BY <1>8 DEF Send, Input, list, history
  <2>2. inputs \in Nat /\ inputs' \in Nat /\ inputs' \in 1 .. inputs'
        /\ \A f \in edits : f.id # inputs'
    BY <2>1 DEF ListInv
  <2>3. new.id = inputs' /\ new.saved = FALSE
        /\ new \in [id : 1 .. inputs', edit : Edits, saved : BOOLEAN, ours : BOOLEAN]
    BY <2>2
  <2>. HIDE DEF new
  <2>4. edits' \subseteq [id : 1 .. inputs', edit : Edits, saved : BOOLEAN, ours : BOOLEAN]
    <3>1. edits \subseteq [id : 1 .. inputs', edit : Edits, saved : BOOLEAN, ours : BOOLEAN]
      BY <2>1, <2>2 DEF ListInv
    <3>. QED
      BY <2>1, <2>3, <3>1
  <2>5. \A f, g \in edits' : f.id = g.id => f = g
    BY <2>1, <2>2, <2>3 DEF ListInv
  <2>6. /\ \A f \in edits : f.saved => \E g \in edits' : g.saved /\ g.id = f.id /\ g.edit = f.edit
        /\ \A g \in edits' : g.saved => \E f \in edits : f.saved /\ f.id = g.id
    BY <2>1, <2>3
  <2>7. /\ IsList(registry') /\ error' \in BOOLEAN /\ excused' \in BOOLEAN
        /\ loader' \in [step : LoaderSteps, list : Seq(Macs)]
        /\ error' => loader'.step = "idle"
    BY <2>1 DEF ListInv
  <2>. QED
    BY <2>1, <2>2, <2>4, <2>5, <2>6, <2>7, EditsKeep
<1>9. CASE Delete \/ \E m \in Macs : Submit(m)
  <2>1. ASSUME Delete PROVE \E e \in Edits : Send(e)
    <3>1. dialog.mac \in Macs /\ Send([kind |-> "delete", from |-> dialog.mac, to |-> NoMac])
      <4>1. dialog.open /\ dialog.pane = "delete"
        BY <2>1 DEF Delete
      <4>. QED
        BY <2>1, <4>1, DialogFields DEF Delete, DialogInv
    <3>2. [kind |-> "delete", from |-> dialog.mac, to |-> NoMac] \in Edits
      BY <3>1 DEF Edits
    <3>. QED
      BY <3>1, <3>2
  <2>2. ASSUME NEW m \in Macs, Submit(m) PROVE \E e \in Edits : Send(e)
    <3>1. dialog.open /\ dialog \in Dialogs /\ (dialog.creating <=> dialog.mac = NoMac)
      BY <2>2, DialogFields DEF Submit, DialogInv
    <3>2. Send([kind |-> IF dialog.creating THEN "create" ELSE "update",
                from |-> dialog.mac, to |-> m])
      BY <2>2 DEF Submit
    <3>3. [kind |-> IF dialog.creating THEN "create" ELSE "update",
           from |-> dialog.mac, to |-> m] \in Edits
      BY <3>1, DialogFields DEF Edits
    <3>. QED
      BY <3>2, <3>3
  <2>. QED
    BY <1>8, <1>9, <2>1, <2>2
<1>10. CASE \E e \in edits : EditServed(e) \/ EditAnswered(e) \/ EditFails(e)
  BY <1>10, EditServedKeeps, EditAnsweredKeeps, EditFailsKeeps
<1>. QED
  BY <1>3, <1>4, <1>5, <1>6, <1>7, <1>9, <1>10 DEF PageStep

\* The list changes under the page only where the page is not used, or is excused.
LEMMA ListOfOthers ==
  ASSUME ListInv, UNCHANGED <<machines, loader, error, edits, served>>, IsList(registry'),
         inputs' \in {inputs, inputs + 1}, excused' \in BOOLEAN,
         excused' \/ loader.step = "asked"
  PROVE  ListInv'
<1>1. /\ inputs \in Nat /\ inputs' \in Nat /\ 1 .. inputs \subseteq 1 .. inputs'
      /\ error \in BOOLEAN /\ (error => loader.step = "idle")
      /\ loader \in [step : LoaderSteps, list : Seq(Macs)]
      /\ \A e, f \in edits : e.id = f.id => e = f
      /\ edits \subseteq [id : 1 .. inputs, edit : Edits, saved : BOOLEAN, ours : BOOLEAN]
  BY DEF ListInv
<1>2. edits' \subseteq [id : 1 .. inputs', edit : Edits, saved : BOOLEAN, ours : BOOLEAN]
  BY <1>1
<1>. QED
  BY <1>1, <1>2, EditsKeep

-----------------------------------------------------------------------------
(* The inductive invariant                                                 *)

LEMMA Initially == Init => IInv
<1>. SUFFICES ASSUME Init PROVE IInv
  OBVIOUS
<1>1. /\ panel \in {"browser", "terminal"} /\ registry \in Registries[panel] /\ inputs = 0
      /\ machines = <<>> /\ online = {} /\ pending = [m \in Macs |-> "no"] /\ tasks = {}
      /\ poll = Sleeping /\ loader = [step |-> "asked", list |-> <<>>] /\ error = FALSE
      /\ route \in Routes /\ dialog = Closed /\ loads = {} /\ edits = {}
      /\ served = <<>> /\ excused = FALSE
  BY DEF Init, PageInit
<1>2. TerminalInv
  BY TerminalStarts DEF Init
<1>3. CommandsInv
  BY <1>1, PollFields DEF CommandsInv
<1>4. DialogInv
  BY <1>1, DashboardAssumption, DialogFields DEF DialogInv, SetupIsOfThisMachine
<1>5. ListInv
  <2>1. IsList(registry)
    BY <1>1, PanelServerAssumption DEF IsList
  <2>2. <<>> \in Seq(Macs) /\ <<>> \in Seq(Nat) /\ IsInjective(<<>>) /\ Listed(<<>>) = {}
    BY EmptySeq DEF IsInjective, Listed
  <2>3. loader \in [step : LoaderSteps, list : Seq(Macs)] /\ loader.step = "asked"
    BY <1>1, <2>2 DEF LoaderSteps
  <2>. QED
    BY <1>1, <2>1, <2>2, <2>3 DEF ListInv
<1>6. PanelInv
  BY <1>1 DEF PanelInv
<1>. QED
  BY <1>2, <1>3, <1>4, <1>5, <1>6 DEF IInv

LEMMA Inductive == IInv /\ [Next]_vars => IInv'
<1>. SUFFICES ASSUME IInv, [Next]_vars PROVE IInv'
  OBVIOUS
<1>. USE DEF IInv
<1>1. IsList(registry)
  BY DEF ListInv
<1>2. ASSUME UNCHANGED <<page, panel>> PROVE CommandsInv' /\ DialogInv' /\ PanelInv'
  <2>1. UNCHANGED <<online, pending, tasks, poll, route, loader, dialog, loads, edits, panel>>
    BY <1>2 DEF page, list, power, editing
  <2>2. CommandsInv'
    BY <2>1, CommandsUnchanged
  <2>3. DialogInv'
    BY <2>1 DEF DialogInv, SetupIsOfThisMachine
  <2>4. PanelInv'
    BY <2>1 DEF PanelInv
  <2>. QED
    BY <2>2, <2>3, <2>4
<1>3. CASE panel = "browser" /\ PageStep /\ UNCHANGED terminal /\ UNCHANGED panel
  <2>1. PanelInv'
    BY <1>3 DEF PanelInv
  <2>. QED
    BY <1>3, <2>1, TerminalUnchanged, CommandsKeep, DialogKeeps, ListKeeps
<1>4. CASE panel = "terminal" /\ (Start \/ TerminalStep) /\ UNCHANGED page /\ UNCHANGED panel
  <2>1. TerminalInv' /\ IsList(registry')
    BY <1>1, <1>4, TerminalKeeps, TerminalKeepsTheList
  <2>2. inputs' = inputs
    BY <1>4
       DEF TerminalStep, Start, RefreshSucceeds, RefreshFails, NoKey, RefreshIfDue, Elapse, Quit,
           Navigate, RefreshKey, AskDelete, CancelDelete, ConfirmDelete, DeleteSucceeds, DeleteFails
  <2>3. UNCHANGED <<machines, loader, error, edits, served, excused>> /\ loader.step = "asked"
    BY <1>4 DEF page, list, editing, history, PanelInv
  <2>4. excused' \in BOOLEAN
    BY <2>3 DEF ListInv
  <2>5. ListInv'
    BY <2>1, <2>2, <2>3, <2>4, ListOfOthers
  <2>. QED
    BY <1>2, <1>4, <2>1, <2>5
<1>5. CASE Others /\ UNCHANGED panel
  <2>1. PICK e \in Edits : Accepts(e) /\ registry' = Edited(registry, e) /\ inputs' = inputs + 1
    BY <1>5 DEF Others, OtherClientEdits, Input
  <2>2. IsList(registry')
    BY <1>1, <2>1, AcceptsIsAccepted, EditedKeeps
  <2>3. /\ UNCHANGED <<commands, list, power, editing, served, terminal, panel>> /\ excused' = TRUE
    BY <1>5 DEF Others
  <2>4. UNCHANGED <<machines, loader, error, edits, served, online, pending, tasks, poll, route,
                    dialog, loads>>
    BY <2>3 DEF list, power, editing
  <2>5. ListInv'
    BY <2>1, <2>2, <2>3, <2>4, ListOfOthers
  <2>6. TerminalInv'
    BY <2>3, TerminalUnchanged
  <2>7. CommandsInv'
    BY <2>4, CommandsUnchanged
  <2>8. DialogInv'
    BY <2>4 DEF DialogInv, SetupIsOfThisMachine
  <2>9. PanelInv'
    BY <2>3, <2>4 DEF PanelInv
  <2>. QED
    BY <2>5, <2>6, <2>7, <2>8, <2>9
<1>6. CASE UNCHANGED vars
  <2>1. UNCHANGED <<page, panel, terminal, registry, inputs>>
    BY <1>6 DEF vars
  <2>2. UNCHANGED <<machines, loader, error, edits, served, excused>>
    BY <2>1 DEF page, list, editing, history
  <2>3. ListInv'
    BY <2>1, <2>2, EditsKeep DEF ListInv
  <2>. QED
    BY <1>2, <2>1, <2>3, TerminalUnchanged
<1>. QED
  BY <1>3, <1>4, <1>5, <1>6 DEF Next

LEMMA Invariance == Spec => []IInv
  BY Initially, Inductive, PTL DEF Spec

-----------------------------------------------------------------------------
(* Theorems                                                                *)

\* The signals of the page and the terminal's state have their types; the
\* terminal's selection is a line of its list, also after other clients have made
\* the list shorter (App::next, previous and refresh in tui.rs).
THEOREM TypeCorrect == Spec => []TypeOK
<1>1. IInv => TypeOK
  <2>. SUFFICES ASSUME IInv PROVE TypeOK
    OBVIOUS
  <2>1. TerminalTypeOK
    BY DEF IInv, TerminalInv
  <2>2. \A m \in 1 .. MaxChecks : m \in 0 .. MaxChecks
    BY DashboardAssumption
  <2>3. tasks \subseteq Tasks
    BY <2>2 DEF IInv, CommandsInv, Tasks
  <2>4. loader.step \in {"idle", "asked", "served", "details"}
        /\ \A e \in edits : e.edit \in Edits /\ e.saved \in BOOLEAN
    BY DEF IInv, ListInv, LoaderSteps
  <2>5. machines \in Seq(Macs) /\ error \in BOOLEAN
    BY DEF IInv, ListInv
  <2>6. online \subseteq Macs /\ pending \in [Macs -> {"no", "wake", "off"}] /\ poll \in Polls \cup {Sleeping}
    BY DEF IInv, CommandsInv
  <2>7. route \in Macs \cup {NoMac} /\ dialog \in Dialogs \cup {Closed} /\ loads \subseteq Loads
    BY DEF IInv, DialogInv
  <2>. QED
    BY <2>1, <2>3, <2>4, <2>5, <2>6, <2>7 DEF TypeOK, PageTypeOK
<1>. QED
  BY <1>1, Invariance, PTL

\* While the page shows that a machine wakes up or shuts down, one command for it
\* is under way, of that kind; otherwise none is (power in state.rs).
THEOREM OneCommandAtATime == Spec => []OneCommandPerMachine
<1>1. IInv => OneCommandPerMachine
  <2>. SUFFICES ASSUME IInv, NEW m \in Macs
                PROVE  LET own == {t \in tasks : t.mac = m}
                       IN IF pending[m] = "no" THEN own = {}
                          ELSE Cardinality(own) = 1 /\ \A t \in own : t.wake = (pending[m] = "wake")
    BY DEF OneCommandPerMachine
  <2> DEFINE own == {t \in tasks : t.mac = m}
  <2>1. CASE pending[m] = "no"
    BY <2>1 DEF IInv, CommandsInv
  <2>2. CASE pending[m] # "no"
    <3>1. PICK t \in tasks : /\ t.mac = m /\ t.wake = (pending[m] = "wake")
                             /\ \A u \in tasks : u.mac = m => u = t
      BY <2>2 DEF IInv, CommandsInv
    <3>2. own = {t}
      BY <3>1
    <3>3. Cardinality(own) = 1
      BY <3>2, FS_Singleton
    <3>. QED
      BY <2>2, <3>1, <3>2, <3>3
  <2>. QED
    BY <2>1, <2>2
<1>. QED
  BY <1>1, Invariance, PTL

\* When every answer has come, in the order the proxy served the requests, the
\* page's list has the proxy's machines, each once, though no edit loads it again;
\* and the setup in the dialog is that of the machine shown (saved and load_setup).
THEOREM PageCatchesUp == Spec => []NoStaleAnswers
<1>1. IInv => NoStaleAnswers
  <2>. SUFFICES ASSUME IInv, ~excused, ~error, edits = {}, loader.step \in {"idle", "details"}
                PROVE  Len(machines) = Len(registry) /\ Listed(machines) = Listed(registry)
    BY DEF NoStaleAnswers, ListIsRegistry, IInv, DialogInv
  <2>1. ListInv
    BY DEF IInv
  <2>2. PICK p \in 0 .. Len(served), on \in [0 .. Len(served) -> SUBSET Macs] : Lags(p, on)
    BY <2>1 DEF ListInv, CatchesUp
  <2>3. p = 0 /\ IsList(machines) /\ on[0] = Listed(machines) /\ on[Len(served)] = Listed(registry)
    BY <2>2 DEF Lags
  <2>4. Len(served) \in Nat /\ DOMAIN served = 1 .. Len(served)
    BY <2>1, LenProperties DEF ListInv
  <2>5. Len(served) = 0
    <3>1. ASSUME Len(served) # 0 PROVE FALSE
      <4>1. 1 \in p + 1 .. Len(served)
        BY <2>3, <2>4, <3>1
      <4>. QED
        BY <2>2, <4>1 DEF Lags
    <3>. QED
      BY <3>1
  <2>6. Listed(machines) = Listed(registry)
    BY <2>3, <2>5
  <2>7. /\ Cardinality(Listed(machines)) = Len(machines)
        /\ Cardinality(Listed(registry)) = Len(registry)
    BY <2>1, <2>3, SameLength DEF ListInv, IsList
  <2>. QED
    BY <2>6, <2>7
<1>. QED
  BY <1>1, Invariance, PTL

\* A poll that read a status before a command was confirmed, and ends after, does
\* not show the machine as it was (status_epoch in mod.rs and state.rs).
THEOREM NoConfirmationIsTakenBack == Spec => ConfirmationStays
<1>1. IInv /\ [Next]_vars =>
        [poll.on /\ ~poll'.on => \A m \in poll.older : (m \in online') = (m \in online)]_page
  <2>. SUFFICES ASSUME IInv, [Next]_vars, poll.on, ~poll'.on, NEW m \in poll.older
                PROVE  (m \in online') = (m \in online)
    OBVIOUS
  <2>1. CASE PollEnds
    <3>1. ~poll.sameEpoch
      BY DEF IInv, CommandsInv
    <3>2. online' = online
      BY <2>1, <3>1 DEF PollEnds
    <3>. QED
      BY <3>2
  <2>2. CASE UNCHANGED poll
    BY <2>2
  <2>3. poll \in Polls /\ NextEpoch(poll).on
    BY PollFields DEF IInv, CommandsInv
  <2>4. CASE PageStep
    <3>1. poll' # NextEpoch(poll)
      BY <2>3
    <3>2. ASSUME NEW t \in tasks, CheckConfirms(t) PROVE poll'.on
      BY <2>3, <3>2 DEF CheckConfirms, NextEpoch, Polls
    <3>. QED
      BY <2>1, <2>2, <2>4, <3>1, <3>2
         DEF PageStep, ListServed, ListAnswered, ListFails, RouteAnswered, TryAgain, PollReads,
             Wake, Power, Submit, Send, Open, ShowPane, ShutDown, Close, Back, Delete,
             CommandSent, CommandFails, CheckDoesNot, SetupAnswered, EditServed, EditAnswered,
             EditFails, power
  <2>. QED
    BY <2>2, <2>4 DEF Next, Others, vars, page, power
<1>. QED
  BY <1>1, Invariance, PTL DEF Spec, ConfirmationStays

\* The terminal deletes the machine that was selected when the deletion was asked
\* for, unless a refresh moved another to its line (handle_key, delete_selected).
THEOREM DeletionIsOfTheChosen == Spec => DeletesTheChosen
<1>1. IInv /\ [Next]_vars =>
        [stage = "poll" /\ stage' = "delete" => Selected = armed \/ moved]_terminal
  <2>. SUFFICES ASSUME IInv, [Next]_vars, stage = "poll", stage' = "delete"
                PROVE  Selected = armed \/ moved
    OBVIOUS
  <2>1. confirm
    <3>1. stage' # stage
      OBVIOUS
    <3>2. TerminalStep \/ Start
      BY <3>1 DEF Next, Others, vars, terminal
    <3>. QED
      BY <3>2 DEF TerminalStep, Start, RefreshSucceeds, RefreshFails, Refreshed, NoKey,
                  RefreshIfDue, Elapse, Quit, Navigate, RefreshKey, AskDelete, CancelDelete, ConfirmDelete,
                  DeleteSucceeds, DeleteFails
  <2>. QED
    BY <2>1 DEF IInv, TerminalInv
<1>. QED
  BY <1>1, Invariance, PTL DEF Spec, DeletesTheChosen
=============================================================================
