------------------------------- MODULE TeamProofs -------------------------------
(*****************************************************************************)
(* What MCTeam checks on small instances, for every value of the constants:   *)
(* the rounds, mailbox and write leases of a TeamExecutor run, the launch and *)
(* removal of its workers, the leases of the host's resources, and what is    *)
(* kept of old runs.  Each component has an inductive invariant of its own.   *)
(*****************************************************************************)
EXTENDS MCTeam, SequenceTheorems, FiniteSetTheorems, WellFoundedInduction, TLAPS

--------------------------------------------------------------------------------
(* Scopes                                                                       *)

\* Two beginnings of one path: one begins the other.
LEMMA PrefixesCompare ==
  ASSUME NEW S, NEW a \in Seq(S), NEW b \in Seq(S), NEW f \in Seq(S),
         IsPrefix(a, f), IsPrefix(b, f)
  PROVE  PathsOverlap(a, b)
<1>1. ASSUME NEW c \in Seq(S), NEW n \in 0..Len(c)
      PROVE  SubSeq(c, 1, n) \in Seq(S) /\ Len(SubSeq(c, 1, n)) = n
             /\ \A i \in 1..n : SubSeq(c, 1, n)[i] = c[i]
  <2>1. \A i \in 1..n : c[i] \in S
    BY ElementOfSeq, LenProperties
  <2> QED BY <2>1, LenProperties, SubSeqProperties
<1>2. ASSUME NEW c \in Seq(S), IsPrefix(c, f)
      PROVE  Len(c) <= Len(f) /\ \A i \in 1..Len(c) : c[i] = f[i]
  <2>1. /\ Len(c) \in 0..Len(c) /\ Len(c) \in 0..Len(f)
        /\ SubSeq(c, 1, Len(c)) = SubSeq(f, 1, Len(c))
    BY <1>2, LenProperties DEF IsPrefix
  <2> QED BY <1>1, <2>1
<1>3. ASSUME NEW c \in Seq(S), NEW d \in Seq(S), Len(c) <= Len(d), IsPrefix(c, f), IsPrefix(d, f)
      PROVE  IsPrefix(c, d)
  <2>1. \A i \in 1..Len(c) : c[i] = d[i]
    BY <1>2, <1>3, LenProperties
  <2>2. Len(c) \in 0..Len(c) /\ Len(c) \in 0..Len(d)
    BY <1>3, LenProperties
  <2>3. SubSeq(c, 1, Len(c)) = SubSeq(d, 1, Len(c))
    <3> DEFINE x == SubSeq(c, 1, Len(c))
               y == SubSeq(d, 1, Len(c))
    <3>1. /\ x \in Seq(S) /\ y \in Seq(S) /\ Len(x) = Len(c) /\ Len(y) = Len(c)
          /\ \A i \in 1..Len(c) : x[i] = y[i]
      BY <1>1, <2>1, <2>2
    <3>2. Len(x) = Len(y) /\ \A i \in 1..Len(x) : x[i] = y[i]
      BY <3>1
    <3> HIDE DEF x, y
    <3>3. x = y
      BY <3>1, <3>2, SeqEqual, Zenon
    <3> QED BY <3>3 DEF x, y
  <2> QED BY <1>3, <2>3 DEF IsPrefix
<1>4. Len(a) <= Len(b) \/ Len(b) <= Len(a)
  BY LenProperties
<1> QED BY <1>3, <1>4 DEF PathsOverlap

\* Overlap is mutual.
LEMMA OverlapIsMutual ==
  ASSUME NEW s, NEW t
  PROVE  ScopesOverlap(s, t) <=> ScopesOverlap(t, s)
BY DEF ScopesOverlap, PathsOverlap

Rooted(s) == s.star /\ s.dirs = <<>> => s.part = <<>>

\* Scopes that cover one file overlap, unless one is a glob of names in the root.
LEMMA CoverOverlaps ==
  ASSUME NEW s \in Scopes, NEW t \in Scopes, NEW f \in Files, Rooted(s), Rooted(t),
         Covers(s, f), Covers(t, f)
  PROVE  ScopesOverlap(s, t)
<1>1. /\ s.dirs \in Seq(Seq(Nat)) /\ t.dirs \in Seq(Seq(Nat)) /\ f \in Seq(Seq(Nat))
      /\ s.star \in BOOLEAN /\ t.star \in BOOLEAN
  BY TeamAssumption
<1>2. IsPrefix(s.dirs, f) /\ IsPrefix(t.dirs, f)
  BY DEF Covers
<1>3. PathsOverlap(s.dirs, t.dirs)
  BY <1>1, <1>2, PrefixesCompare
<1>4. LiteralPrefix(s) = s.dirs /\ LiteralPrefix(t) = t.dirs
  BY <1>1 DEF LiteralPrefix, Rooted
<1> QED BY <1>3, <1>4 DEF ScopesOverlap


--------------------------------------------------------------------------------
(* Rounds, messages and leases                                                  *)

Round == [id : RoundIds, open : BOOLEAN]
Message == [id : MessageIds, round : RoundIds, target : MessageIds \cup {Nil},
            thread : MessageIds \cup {Nil}, to : SUBSET Endpoints]
ScopeLease == [id : LeaseIds, owner : Workers, scopes : SUBSET Scopes, active : BOOLEAN]

MailTypes ==
  /\ rounds \in Seq(Round) /\ coreRounds \in Seq(RoundIds)
  /\ opener \in Procs \cup {Nil} /\ torn \in BOOLEAN
  /\ mailbox \in Seq(Message)
  /\ sending \in [Procs -> Message \cup {Nil}]
  /\ leases \in Seq(ScopeLease)
  /\ DOMAIN got = Endpoints

ToOneSide(to) == to # {} /\ (to = {Lead} \/ to \subseteq Workers)

\* The lines of a mailbox are of rounds R, unique, on a thread, and follow what they answer.
GoodBox(b, R) ==
  \A i \in DOMAIN b :
    /\ \A j \in 1..(i - 1) : b[j].id # b[i].id
    /\ b[i].target # Nil => \E j \in 1..(i - 1) : b[j].id = b[i].target
    /\ b[i].thread # Nil
    /\ b[i].round \in R
    /\ ToOneSide(b[i].to)

\* The active leases of two owners do not overlap.
Apart(ls) ==
  \A i, j \in DOMAIN ls :
    /\ ls[i].active /\ ls[j].active /\ ls[i].owner # ls[j].owner
    => \A s \in ls[i].scopes, t \in ls[j].scopes : ~ScopesOverlap(s, t)

\* The run's rounds are the ledger's, the one that is being opened apart.
RoundsLinked ==
  /\ opener = Nil /\ ~torn => Ids(rounds) = coreRounds
  /\ opener # Nil => coreRounds # <<>> /\ Front(coreRounds) = Ids(rounds)

SendingOk ==
  \A p \in Procs : sending[p] # Nil =>
    sending[p].round \in IdSet(rounds) /\ ToOneSide(sending[p].to)

MailInv ==
  MailTypes /\ RoundsLinked /\ GoodBox(mailbox, IdSet(rounds)) /\ SendingOk /\ Apart(leases)

--------------------------------------------------------------------------------
\* A fresh message that answers an older one, or none, goes to the end.
LEMMA BoxGrows ==
  ASSUME NEW b \in Seq(Message), NEW m \in Message, NEW R, GoodBox(b, R),
         m.id \notin IdSet(b), m.target \in IdSet(b) \cup {Nil}, m.thread # Nil, m.round \in R,
         ToOneSide(m.to)
  PROVE  Append(b, m) \in Seq(Message) /\ GoodBox(Append(b, m), R)
<1> DEFINE c == Append(b, m)
<1>1. /\ c \in Seq(Message) /\ Len(c) = Len(b) + 1 /\ c[Len(b) + 1] = m
      /\ \A i \in 1..Len(b) : c[i] = b[i]
  BY AppendProperties
<1>2. DOMAIN c = 1..(Len(b) + 1) /\ DOMAIN b = 1..Len(b) /\ Len(b) \in Nat
  BY <1>1, LenProperties
<1> HIDE DEF c
<1>3. ASSUME NEW i \in DOMAIN b
      PROVE  /\ \A j \in 1..(i - 1) : c[j].id # c[i].id
             /\ c[i].target # Nil => \E j \in 1..(i - 1) : c[j].id = c[i].target
             /\ c[i].thread # Nil /\ c[i].round \in R /\ ToOneSide(c[i].to)
  <2>1. c[i] = b[i] /\ \A j \in 1..(i - 1) : c[j] = b[j]
    BY <1>1, <1>2
  <2>2. /\ \A j \in 1..(i - 1) : b[j].id # b[i].id
        /\ b[i].target # Nil => \E j \in 1..(i - 1) : b[j].id = b[i].target
        /\ b[i].thread # Nil /\ b[i].round \in R /\ ToOneSide(b[i].to)
    BY DEF GoodBox
  <2> QED BY <2>1, <2>2
<1>4. \A j \in 1..Len(b) : c[j].id # m.id
  BY <1>1, <1>2 DEF IdSet
<1>5. m.target # Nil => \E j \in 1..Len(b) : c[j].id = m.target
  BY <1>1, <1>2 DEF IdSet
<1>6. ASSUME NEW i \in DOMAIN c
      PROVE  /\ \A j \in 1..(i - 1) : c[j].id # c[i].id
             /\ c[i].target # Nil => \E j \in 1..(i - 1) : c[j].id = c[i].target
             /\ c[i].thread # Nil /\ c[i].round \in R /\ ToOneSide(c[i].to)
  <2>1. CASE i \in DOMAIN b
    BY <1>3, <2>1
  <2>2. CASE i = Len(b) + 1
    <3>1. i - 1 = Len(b)
      BY <1>2, <2>2
    <3> QED BY <1>1, <1>4, <1>5, <2>2, <3>1
  <2> QED BY <1>2, <2>1, <2>2
<1>7. GoodBox(c, R)
  BY <1>6 DEF GoodBox
<1> QED BY <1>1, <1>7 DEF c

\* More rounds make no line worse.
LEMMA MoreRounds ==
  ASSUME NEW b, NEW R, NEW T, R \subseteq T, GoodBox(b, R)
  PROVE  GoodBox(b, T)
BY DEF GoodBox

\* A lease that overlaps no active lease of another worker is added to them.
LEMMA LeaseGrows ==
  ASSUME NEW ls \in Seq(ScopeLease), Apart(ls), NEW l \in ScopeLease,
         \A i \in DOMAIN ls : ls[i].active /\ ls[i].owner # l.owner =>
           \A s \in l.scopes, t \in ls[i].scopes : ~ScopesOverlap(s, t)
  PROVE  Append(ls, l) \in Seq(ScopeLease) /\ Apart(Append(ls, l))
<1> DEFINE c == Append(ls, l)
<1>1. /\ c \in Seq(ScopeLease) /\ Len(c) = Len(ls) + 1 /\ c[Len(ls) + 1] = l
      /\ \A i \in 1..Len(ls) : c[i] = ls[i]
  BY AppendProperties
<1>2. DOMAIN c = 1..(Len(ls) + 1) /\ DOMAIN ls = 1..Len(ls) /\ Len(ls) \in Nat
  BY <1>1, LenProperties
<1> HIDE DEF c
<1>3. ASSUME NEW i \in DOMAIN c, NEW j \in DOMAIN c,
             c[i].active, c[j].active, c[i].owner # c[j].owner,
             NEW s \in c[i].scopes, NEW t \in c[j].scopes
      PROVE  ~ScopesOverlap(s, t)
  <2>1. CASE i \in DOMAIN ls /\ j \in DOMAIN ls
    BY <1>1, <1>2, <1>3, <2>1 DEF Apart
  <2>2. CASE i = Len(ls) + 1 /\ j \in DOMAIN ls
    BY <1>1, <1>2, <1>3, <2>2
  <2>3. CASE i \in DOMAIN ls /\ j = Len(ls) + 1
    <3>1. ~ScopesOverlap(t, s)
      BY <1>1, <1>2, <1>3, <2>3
    <3> QED BY <3>1, OverlapIsMutual
  <2>4. CASE i = Len(ls) + 1 /\ j = Len(ls) + 1
    BY <1>3, <2>4
  <2> QED BY <1>2, <2>1, <2>2, <2>3, <2>4
<1>4. Apart(c)
  BY <1>3 DEF Apart
<1> QED BY <1>1, <1>4 DEF c

\* Giving one up disturbs no other.
LEMMA LeaseEnds ==
  ASSUME NEW ls \in Seq(ScopeLease), Apart(ls), NEW i \in DOMAIN ls
  PROVE  LET c == [ls EXCEPT ![i].active = FALSE] IN c \in Seq(ScopeLease) /\ Apart(c)
<1> DEFINE l == [ls[i] EXCEPT !.active = FALSE]
           c == [ls EXCEPT ![i] = l]
<1>1. i \in 1..Len(ls) /\ DOMAIN ls = 1..Len(ls) /\ ls[i] \in ScopeLease
  BY LenProperties, ElementOfSeq
<1>2. l \in ScopeLease /\ l.active = FALSE
  BY <1>1 DEF ScopeLease
<1>3. [ls EXCEPT ![i].active = FALSE] = c
  OBVIOUS
<1> HIDE DEF l
<1>4. /\ c \in Seq(ScopeLease) /\ Len(c) = Len(ls)
      /\ \A j \in 1..Len(ls) : c[j] = IF j = i THEN l ELSE ls[j]
  BY <1>1, <1>2, ExceptSeq
<1>5. DOMAIN c = DOMAIN ls
  OBVIOUS
<1> HIDE DEF c
<1>6. Apart(c)
  BY <1>1, <1>2, <1>4, <1>5 DEF Apart
<1> QED BY <1>3, <1>4, <1>6


--------------------------------------------------------------------------------
(* Rounds open and close                                                        *)

LEMMA FrontOfAppend ==
  ASSUME NEW S, NEW s \in Seq(S), NEW e \in S
  PROVE  Front(Append(s, e)) = s /\ Last(Append(s, e)) = e
<1> DEFINE c == Append(s, e)
           f == SubSeq(c, 1, Len(s))
<1>1. /\ c \in Seq(S) /\ Len(c) = Len(s) + 1 /\ c[Len(s) + 1] = e
      /\ \A i \in 1..Len(s) : c[i] = s[i]
  BY AppendProperties
<1>2. Len(s) \in Nat
  BY LenProperties
<1> HIDE DEF c
<1>3. \A i \in 1..Len(s) : c[i] \in S
  BY <1>1, ElementOfSeq
<1>4. f \in Seq(S) /\ Len(f) = Len(s) /\ \A i \in 1..Len(s) : f[i] = s[i]
  BY <1>1, <1>2, <1>3, SubSeqProperties
<1>5. Len(f) = Len(s) /\ \A i \in 1..Len(f) : f[i] = s[i]
  BY <1>4
<1>6. Front(c) = f /\ Last(c) = e
  BY <1>1, <1>2 DEF Front, Last
<1> HIDE DEF f
<1>7. f = s
  BY <1>4, <1>5, SeqEqual, Zenon
<1> QED BY <1>6, <1>7 DEF c

LEMMA IdsOfRounds ==
  ASSUME NEW s \in Seq(Round)
  PROVE  /\ Ids(s) \in Seq(RoundIds) /\ Len(Ids(s)) = Len(s)
         /\ \A i \in 1..Len(s) : Ids(s)[i] = s[i].id
<1>0. \A i \in 1..Len(s) : s[i] \in Round
  BY ElementOfSeq
<1>1. Len(s) \in Nat /\ DOMAIN s = 1..Len(s) /\ \A i \in 1..Len(s) : s[i].id \in RoundIds
  BY <1>0, LenProperties DEF Round
<1>2. Ids(s) = [i \in 1..Len(s) |-> s[i].id]
  BY <1>1, Zenon DEF Ids
<1>3. Ids(s) \in [1..Len(s) -> RoundIds]
  BY <1>1, <1>2
<1>4. Ids(s) \in Seq(RoundIds)
  BY <1>1, <1>3, SeqDef
<1>5. DOMAIN Ids(s) = 1..Len(s)
  BY <1>2
<1>6. Len(Ids(s)) = Len(s)
  BY <1>1, <1>4, <1>5, LenProperties
<1> QED BY <1>2, <1>4, <1>6

\* The ids of one more round.
LEMMA IdsOfMore ==
  ASSUME NEW s \in Seq(Round), NEW r \in Round
  PROVE  /\ Append(s, r) \in Seq(Round)
         /\ Ids(Append(s, r)) = Append(Ids(s), r.id)
         /\ IdSet(s) \subseteq IdSet(Append(s, r))
<1> DEFINE c == Append(s, r)
           x == Ids(c)
           y == Append(Ids(s), r.id)
<1>1. /\ c \in Seq(Round) /\ Len(c) = Len(s) + 1 /\ c[Len(s) + 1] = r
      /\ \A i \in 1..Len(s) : c[i] = s[i]
  BY AppendProperties
<1>2. /\ Len(s) \in Nat /\ DOMAIN s = 1..Len(s) /\ DOMAIN c = 1..(Len(s) + 1)
      /\ r.id \in RoundIds
  BY <1>1, LenProperties DEF Round
<1> HIDE DEF c
<1>3. /\ Ids(s) \in Seq(RoundIds) /\ Len(Ids(s)) = Len(s)
      /\ \A i \in 1..Len(s) : Ids(s)[i] = s[i].id
  BY IdsOfRounds
<1>4. x \in Seq(RoundIds) /\ Len(x) = Len(s) + 1 /\ \A i \in 1..(Len(s) + 1) : x[i] = c[i].id
  BY <1>1, IdsOfRounds
<1>5. /\ y \in Seq(RoundIds) /\ Len(y) = Len(s) + 1 /\ y[Len(s) + 1] = r.id
      /\ \A i \in 1..Len(s) : y[i] = s[i].id
  BY <1>2, <1>3, AppendProperties
<1> HIDE DEF x, y
<1>6. Len(x) = Len(y) /\ \A i \in 1..Len(x) : x[i] = y[i]
  BY <1>1, <1>2, <1>4, <1>5
<1>7. x = y
  BY <1>4, <1>5, <1>6, SeqEqual, Zenon
<1>8. IdSet(s) \subseteq IdSet(c)
  BY <1>1, <1>2 DEF IdSet
<1> QED BY <1>1, <1>7, <1>8 DEF c, x, y

\* Closing a round leaves the ids alone.
LEMMA IdsOfClosed ==
  ASSUME NEW s \in Seq(Round), NEW r
  PROVE  LET c == [i \in DOMAIN s |-> IF s[i].id = r THEN [s[i] EXCEPT !.open = FALSE] ELSE s[i]] IN
         c \in Seq(Round) /\ Ids(c) = Ids(s) /\ IdSet(c) = IdSet(s)
<1> DEFINE c == [i \in DOMAIN s |-> IF s[i].id = r THEN [s[i] EXCEPT !.open = FALSE] ELSE s[i]]
<1>1. Len(s) \in Nat /\ DOMAIN s = 1..Len(s) /\ \A i \in 1..Len(s) : s[i] \in Round
  BY LenProperties, ElementOfSeq
<1>2. \A d \in Round : [d EXCEPT !.open = FALSE] \in Round /\ [d EXCEPT !.open = FALSE].id = d.id
  BY DEF Round
<1>3. DOMAIN c = 1..Len(s) /\ \A i \in 1..Len(s) : c[i] \in Round /\ c[i].id = s[i].id
  BY <1>1, <1>2
<1>4. c \in [1..Len(s) -> Round]
  BY <1>1, <1>3
<1> HIDE DEF c
<1>5. c \in Seq(Round)
  BY <1>1, <1>4, SeqDef
<1>6. Ids(c) = Ids(s) /\ IdSet(c) = IdSet(s)
  BY <1>1, <1>3 DEF Ids, IdSet
<1> QED BY <1>5, <1>6 DEF c


LEMMA RoundsStep ==
  ASSUME MailInv,
         \/ RoundWritten \/ WriteFails \/ OpenerDies
         \/ \E r \in RoundIds : CloseRound(r) \/ \E p \in Procs : OpenRound(p, r)
  PROVE  MailInv'
<1>1. rounds \in Seq(Round) /\ coreRounds \in Seq(RoundIds) /\ MailTypes /\ RoundsLinked
  BY DEF MailInv, MailTypes
<1>2. IdSet(rounds) \subseteq IdSet(rounds)' /\ UNCHANGED <<mailbox, sending, leases>> => 
        GoodBox(mailbox, IdSet(rounds))' /\ SendingOk' /\ Apart(leases)'
  BY DEF MailInv, SendingOk, GoodBox
<1>3. ASSUME NEW p \in Procs, NEW r \in RoundIds, OpenRound(p, r) PROVE MailInv'
  <2>1. /\ Ids(rounds) = coreRounds /\ coreRounds' = Append(coreRounds, r) /\ opener' = p
        /\ UNCHANGED <<rounds, torn, mailbox, leases, sending, got>>
    BY <1>3 DEF OpenRound, Linked
  <2>2. Append(coreRounds, r) \in Seq(RoundIds) /\ Append(coreRounds, r) # <<>>
    BY <1>1, AppendProperties
  <2>3. Front(Append(coreRounds, r)) = coreRounds
    BY <1>1, FrontOfAppend
  <2>4. MailTypes'
    BY <1>1, <2>1, <2>2 DEF MailTypes
  <2>5. RoundsLinked'
    BY <2>1, <2>2, <2>3, TeamAssumption DEF RoundsLinked
  <2> QED BY <1>2, <2>1, <2>4, <2>5 DEF MailInv
<1>4. ASSUME RoundWritten PROVE MailInv'
  <2> DEFINE new == [id |-> Last(coreRounds), open |-> TRUE]
  <2>1. /\ opener # Nil /\ rounds' = Append(rounds, new) /\ opener' = Nil
        /\ UNCHANGED <<coreRounds, torn, mailbox, leases, sending, got>>
    BY <1>4 DEF RoundWritten, Unlocked
  <2>2. coreRounds # <<>> /\ Front(coreRounds) = Ids(rounds)
    BY <1>1, <2>1 DEF RoundsLinked
  <2>3. PICK s \in Seq(RoundIds), e \in RoundIds : coreRounds = Append(s, e)
    BY <1>1, <2>2, SequenceEmptyOrAppend
  <2>4. Front(coreRounds) = s /\ Last(coreRounds) = e
    BY <2>3, FrontOfAppend
  <2>5. new \in Round /\ new.id = e
    BY <2>4 DEF Round
  <2> HIDE DEF new
  <2>6. /\ Append(rounds, new) \in Seq(Round)
        /\ Ids(Append(rounds, new)) = Append(Ids(rounds), e)
        /\ IdSet(rounds) \subseteq IdSet(Append(rounds, new))
    BY <1>1, <2>5, IdsOfMore
  <2>7. Ids(rounds)' = coreRounds
    BY <2>1, <2>2, <2>3, <2>4, <2>6
  <2>8. MailTypes' /\ RoundsLinked' /\ IdSet(rounds) \subseteq IdSet(rounds)'
    BY <1>1, <2>1, <2>6, <2>7 DEF MailTypes, RoundsLinked
  <2> QED BY <1>2, <2>1, <2>8 DEF MailInv
<1>5. ASSUME WriteFails PROVE MailInv'
  <2>1. /\ opener # Nil /\ coreRounds' = Front(coreRounds) /\ opener' = Nil
        /\ UNCHANGED <<rounds, torn, mailbox, leases, sending, got>>
    BY <1>5 DEF WriteFails, Unlocked
  <2>2. coreRounds' = Ids(rounds) /\ Ids(rounds) \in Seq(RoundIds)
    BY <1>1, <2>1, IdsOfRounds DEF RoundsLinked
  <2>3. MailTypes' /\ RoundsLinked'
    BY <1>1, <2>1, <2>2 DEF MailTypes, RoundsLinked
  <2> QED BY <1>2, <2>1, <2>3 DEF MailInv
<1>6. ASSUME OpenerDies PROVE MailInv'
  <2>1. /\ opener' = Nil /\ torn' = TRUE
        /\ UNCHANGED <<rounds, coreRounds, mailbox, leases, sending, got>>
    BY <1>6 DEF OpenerDies
  <2>2. MailTypes' /\ RoundsLinked'
    BY <1>1, <2>1 DEF MailTypes, RoundsLinked
  <2> QED BY <1>2, <2>1, <2>2 DEF MailInv
<1>7. ASSUME NEW r \in RoundIds, CloseRound(r) PROVE MailInv'
  <2> DEFINE c == [i \in DOMAIN rounds |->
                     IF rounds[i].id = r THEN [rounds[i] EXCEPT !.open = FALSE] ELSE rounds[i]]
  <2>1. rounds' = c /\ UNCHANGED <<coreRounds, opener, torn, mailbox, leases, sending, got>>
    BY <1>7 DEF CloseRound
  <2>2. c \in Seq(Round) /\ Ids(c) = Ids(rounds) /\ IdSet(c) = IdSet(rounds)
    BY <1>1, IdsOfClosed
  <2> HIDE DEF c
  <2>3. Ids(rounds)' = Ids(rounds) /\ IdSet(rounds)' = IdSet(rounds)
    BY <2>1, <2>2
  <2>4. MailTypes' /\ RoundsLinked'
    BY <1>1, <2>1, <2>2, <2>3 DEF MailTypes, RoundsLinked
  <2> QED BY <1>2, <2>1, <2>3, <2>4 DEF MailInv
<1> QED BY <1>3, <1>4, <1>5, <1>6, <1>7


--------------------------------------------------------------------------------
(* Messages are sent, scopes leased                                             *)

\* The message under the lock joins the thread of the one it answers.
LEMMA ThreadedMessage ==
  ASSUME MailInv, NEW m \in Message, Sendable(m)
  PROVE  LET n == Threaded(m) IN
         /\ n \in Message /\ n.id = m.id /\ n.round = m.round /\ n.target = m.target /\ n.to = m.to
         /\ n.thread # Nil
<1> DEFINE thread == IF m.target = Nil THEN m.id ELSE ById(m.target).thread
<1>1. thread \in MessageIds
  <2>1. CASE m.target = Nil
    BY <2>1 DEF Message
  <2>2. CASE m.target # Nil
    <3>1. mailbox \in Seq(Message) /\ GoodBox(mailbox, IdSet(rounds))
      BY DEF MailInv, MailTypes
    <3>2. DOMAIN mailbox = 1..Len(mailbox) /\ \A i \in 1..Len(mailbox) : mailbox[i] \in Message
      BY <3>1, LenProperties, ElementOfSeq
    <3>3. \A x \in Range(mailbox) : x \in Message /\ x.thread # Nil
      BY <3>1, <3>2 DEF Range, GoodBox
    <3>4. \E x \in Range(mailbox) : x.id = m.target
      BY <2>2 DEF Sendable, IdSet, Range
    <3>5. ById(m.target) \in Range(mailbox)
      BY <3>4 DEF ById
    <3>6. ById(m.target).thread \in MessageIds
      BY <3>3, <3>5 DEF Message
    <3> QED BY <2>2, <3>6
  <2> QED BY <2>1, <2>2
<1>2. Threaded(m) = [m EXCEPT !.thread = thread]
  BY DEF Threaded
<1> HIDE DEF thread
<1> QED BY <1>1, <1>2, TeamAssumption DEF Message

LEMMA MessagesStep ==
  ASSUME MailInv,
         \/ \E p \in Procs : AppendMessage(p) \/ SenderDies(p)
         \/ \E p \in Procs, to \in SUBSET Endpoints, r \in RoundIds,
               target \in MessageIds \cup {Nil}, id \in MessageIds :
              PrepareMessage(p, to, r, target, id)
         \/ \E e \in Endpoints : Receive(e)
  PROVE  MailInv'
<1>1. MailTypes /\ RoundsLinked /\ GoodBox(mailbox, IdSet(rounds)) /\ SendingOk /\ Apart(leases)
  BY DEF MailInv
<1>2. UNCHANGED <<rounds, coreRounds, opener, torn, leases>> =>
        RoundsLinked' /\ Apart(leases)' /\ IdSet(rounds)' = IdSet(rounds)
  BY <1>1 DEF RoundsLinked, IdSet, Ids
<1>3. ASSUME NEW p \in Procs, NEW to \in SUBSET Endpoints, NEW r \in RoundIds,
             NEW target \in MessageIds \cup {Nil}, NEW id \in MessageIds,
             PrepareMessage(p, to, r, target, id)
      PROVE  MailInv'
  <2> DEFINE m == [id |-> id, round |-> r, target |-> target, thread |-> Nil, to |-> to]
  <2>1. /\ sending' = [sending EXCEPT ![p] = m] /\ r \in OpenRounds
        /\ to = {Lead} \/ (to # {} /\ to \subseteq Workers)
        /\ UNCHANGED <<rounds, coreRounds, opener, torn, mailbox, leases, got>>
    BY <1>3 DEF PrepareMessage
  <2>2. r \in IdSet(rounds) /\ ToOneSide(to)
    BY <2>1 DEF OpenRounds, IdSet, ToOneSide
  <2>3. m \in Message /\ m.round = r /\ m.to = to
    BY DEF Message
  <2> HIDE DEF m
  <2>4. sending' \in [Procs -> Message \cup {Nil}]
    BY <1>1, <2>1, <2>3 DEF MailTypes
  <2>5. MailTypes'
    BY <1>1, <2>1, <2>4 DEF MailTypes
  <2>6. SendingOk'
    BY <1>1, <1>2, <2>1, <2>2, <2>3 DEF SendingOk, MailTypes
  <2> QED BY <1>1, <1>2, <2>1, <2>5, <2>6 DEF MailInv
<1>4. ASSUME NEW p \in Procs, SenderDies(p) PROVE MailInv'
  <2>1. /\ sending' = [sending EXCEPT ![p] = Nil]
        /\ UNCHANGED <<rounds, coreRounds, opener, torn, mailbox, leases, got>>
    BY <1>4 DEF SenderDies
  <2>2. MailTypes' /\ SendingOk'
    BY <1>1, <1>2, <2>1 DEF MailTypes, SendingOk
  <2> QED BY <1>1, <1>2, <2>1, <2>2 DEF MailInv
<1>5. ASSUME NEW p \in Procs, AppendMessage(p) PROVE MailInv'
  <2>1. /\ sending[p] # Nil
        /\ mailbox' = IF Sendable(sending[p]) THEN Append(mailbox, Threaded(sending[p]))
                      ELSE mailbox
        /\ sending' = [sending EXCEPT ![p] = Nil]
        /\ UNCHANGED <<rounds, coreRounds, opener, torn, leases, got>>
    BY <1>5 DEF AppendMessage
  <2>2. PICK m \in Message : m = sending[p]
    BY <1>1, <2>1 DEF MailTypes
  <2>3. m.round \in IdSet(rounds) /\ ToOneSide(m.to)
    BY <1>1, <2>1, <2>2 DEF SendingOk
  <2>4. sending' \in [Procs -> Message \cup {Nil}] /\ SendingOk'
    BY <1>1, <1>2, <2>1 DEF MailTypes, SendingOk
  <2>5. CASE Sendable(m)
    <3>1. PICK n \in Message : /\ n = Threaded(m) /\ n.id = m.id /\ n.round = m.round
                               /\ n.target = m.target /\ n.to = m.to /\ n.thread # Nil
      BY <2>5, ThreadedMessage
    <3>2. n.id \notin IdSet(mailbox) /\ n.target \in IdSet(mailbox) \cup {Nil}
      BY <2>5, <3>1 DEF Sendable
    <3>3. Append(mailbox, n) \in Seq(Message) /\ GoodBox(Append(mailbox, n), IdSet(rounds))
      BY <1>1, <2>3, <3>1, <3>2, BoxGrows DEF MailTypes
    <3>4. mailbox' = Append(mailbox, n)
      BY <2>1, <2>2, <2>5, <3>1
    <3>5. MailTypes'
      BY <1>1, <2>1, <2>4, <3>3, <3>4 DEF MailTypes
    <3>6. GoodBox(mailbox, IdSet(rounds))'
      BY <1>2, <2>1, <3>3, <3>4
    <3> QED BY <1>2, <2>1, <2>4, <3>5, <3>6 DEF MailInv
  <2>6. CASE ~Sendable(m)
    <3>1. mailbox' = mailbox
      BY <2>1, <2>2, <2>6
    <3>2. MailTypes'
      BY <1>1, <2>1, <2>4, <3>1 DEF MailTypes
    <3> QED BY <1>1, <1>2, <2>1, <2>4, <3>1, <3>2 DEF MailInv
  <2> QED BY <2>5, <2>6
<1>6. ASSUME NEW e \in Endpoints, Receive(e) PROVE MailInv'
  <2>1. /\ DOMAIN got' = DOMAIN got
        /\ UNCHANGED <<rounds, coreRounds, opener, torn, mailbox, leases, sending>>
    BY <1>6 DEF Receive
  <2>2. MailTypes' /\ SendingOk'
    BY <1>1, <1>2, <2>1 DEF MailTypes, SendingOk
  <2> QED BY <1>1, <1>2, <2>1, <2>2 DEF MailInv
<1> QED BY <1>3, <1>4, <1>5, <1>6

LEMMA LeasesStep ==
  ASSUME MailInv, NEW id \in LeaseIds,
         ReleaseLease(id) \/ \E w \in Workers, s \in SUBSET Scopes : AcquireLease(w, id, s)
  PROVE  MailInv'
<1>1. MailTypes /\ RoundsLinked /\ GoodBox(mailbox, IdSet(rounds)) /\ SendingOk /\ Apart(leases)
      /\ leases \in Seq(ScopeLease)
  BY DEF MailInv, MailTypes
<1>2. UNCHANGED <<rounds, coreRounds, opener, torn, mailbox, sending, got>>
  BY DEF ReleaseLease, AcquireLease
<1>3. leases' \in Seq(ScopeLease) /\ Apart(leases)'
  <2>1. CASE ReleaseLease(id)
    <3>1. PICK i \in DOMAIN leases : leases' = [leases EXCEPT ![i].active = FALSE]
      BY <2>1 DEF ReleaseLease, Active
    <3>2. LET c == [leases EXCEPT ![i].active = FALSE] IN c \in Seq(ScopeLease) /\ Apart(c)
      BY <1>1, LeaseEnds
    <3> QED BY <3>1, <3>2
  <2>2. ASSUME NEW w \in Workers, NEW s \in SUBSET Scopes, AcquireLease(w, id, s)
        PROVE  leases' \in Seq(ScopeLease) /\ Apart(leases)'
    <3> DEFINE l == [id |-> id, owner |-> w, scopes |-> s, active |-> TRUE]
    <3>1. leases' = Append(leases, l) /\ ~Conflicts(w, s)
      BY <2>2 DEF AcquireLease
    <3>2. l \in ScopeLease /\ l.owner = w /\ l.scopes = s
      BY DEF ScopeLease
    <3>3. \A i \in DOMAIN leases : leases[i].active /\ leases[i].owner # w =>
            \A x \in s, t \in leases[i].scopes : ~ScopesOverlap(x, t)
      BY <3>1 DEF Conflicts, Active
    <3> HIDE DEF l
    <3>4. Append(leases, l) \in Seq(ScopeLease) /\ Apart(Append(leases, l))
      BY <1>1, <3>2, <3>3, LeaseGrows
    <3> QED BY <3>1, <3>4
  <2> QED BY <2>1, <2>2
<1>4. MailTypes'
  BY <1>1, <1>2, <1>3 DEF MailTypes
<1>5. RoundsLinked' /\ SendingOk' /\ IdSet(rounds)' = IdSet(rounds)
  BY <1>1, <1>2 DEF RoundsLinked, SendingOk, IdSet, Ids
<1> QED BY <1>1, <1>2, <1>3, <1>4, <1>5 DEF MailInv

LEMMA MailStart == Init => MailInv
<1> SUFFICES ASSUME Init PROVE MailInv
  OBVIOUS
<1>1. MailTypes
  <2>1. <<>> \in Seq(Round) /\ <<>> \in Seq(RoundIds) /\ <<>> \in Seq(Message)
  /\ <<>> \in Seq(ScopeLease)
    OBVIOUS
  <2>2. [p \in Procs |-> Nil] \in [Procs -> Message \cup {Nil}]
    OBVIOUS
  <2> QED BY <2>1, <2>2 DEF Init, MailTypes
<1>2. DOMAIN rounds = {} /\ DOMAIN mailbox = {} /\ DOMAIN leases = {}
  BY DEF Init
<1>3. Ids(rounds) = coreRounds
  <2>1. rounds \in Seq(Round) /\ Len(rounds) = 0
    BY DEF Init
  <2>2. Ids(rounds) \in Seq(RoundIds) /\ Len(Ids(rounds)) = 0
    BY <2>1, IdsOfRounds
  <2> QED BY <2>2 DEF Init
<1>4. RoundsLinked /\ SendingOk
  BY <1>3 DEF Init, RoundsLinked, SendingOk
<1>5. GoodBox(mailbox, IdSet(rounds)) /\ Apart(leases)
  BY <1>2 DEF GoodBox, Apart
<1> QED BY <1>1, <1>4, <1>5 DEF MailInv

LEMMA MailKept ==
  ASSUME MailInv, [Next]_vars
  PROVE  MailInv'
<1>1. CASE UNCHANGED vars
  <2>1. UNCHANGED <<rounds, coreRounds, opener, torn, mailbox, leases, sending, got>>
    BY <1>1 DEF vars
  <2>2. IdSet(rounds)' = IdSet(rounds) /\ Ids(rounds)' = Ids(rounds)
    BY <2>1
  <2>3. MailTypes' /\ RoundsLinked' /\ SendingOk'
    BY <2>1, <2>2 DEF MailInv, MailTypes, RoundsLinked, SendingOk
  <2> QED BY <2>1, <2>2, <2>3 DEF MailInv
<1> QED BY <1>1, RoundsStep, MessagesStep, LeasesStep DEF Next


--------------------------------------------------------------------------------
(* What the invariant says to `check` and to the workers                        *)

\* Lines of a file that are named have a last one.
LEMMA HasLast ==
  ASSUME NEW n \in Nat, NEW T, T \subseteq 1..n, T # {}
  PROVE  \E j \in T : \A k \in T : k <= j
<1> DEFINE D == {n - j : j \in T}
           R == OpToRel(<, Nat)
<1>1. IsWellFoundedOn(R, Nat)
  BY NatLessThanWellFounded
<1>2. D \subseteq Nat /\ D # {}
  <2>1. \A j \in T : n - j \in Nat
    OBVIOUS
  <2>2. PICK j \in T : TRUE
    OBVIOUS
  <2>3. n - j \in D
    OBVIOUS
  <2> QED BY <2>1, <2>3
<1> HIDE DEF R
<1>3. \E x \in D : \A y \in D : ~(<<y, x>> \in R)
  <2> HIDE DEF D
  <2> QED BY <1>1, <1>2, WFMin, Zenon
<1>4. PICK x \in D : \A y \in D : ~(<<y, x>> \in R)
  BY <1>3
<1>5. \A y \in D : ~(y < x)
  BY <1>2, <1>4 DEF R, OpToRel
<1>6. PICK j \in T : x = n - j
  OBVIOUS
<1>7. ASSUME NEW k \in T PROVE k <= j
  <2>1. n - k \in D
    OBVIOUS
  <2>2. ~(n - k < n - j)
    BY <1>5, <1>6, <2>1
  <2> QED BY <2>2
<1> QED BY <1>7

\* The owner `check` remembers for a scope is one whose active lease names it.
LEMMA LastOwnerNames ==
  ASSUME NEW s, NEW i \in DOMAIN leases, leases \in Seq(ScopeLease), LastOwner(s, i) # Nil
  PROVE  \E j \in Active : s \in leases[j].scopes /\ LastOwner(s, i) = leases[j].owner
<1> DEFINE named == {j \in Active : j < i /\ s \in leases[j].scopes}
<1>1. Len(leases) \in Nat /\ DOMAIN leases = 1..Len(leases)
  BY LenProperties
<1>2. named \subseteq 1..Len(leases) /\ named # {}
  BY <1>1 DEF LastOwner, Active
<1>3. \E j \in named : \A k \in named : k <= j
  <2> HIDE DEF named
  <2> QED BY <1>1, <1>2, HasLast
<1>4. PICK j \in named : j = CHOOSE x \in named : \A k \in named : k <= x
  BY <1>3
<1>5. LastOwner(s, i) = leases[j].owner
  BY <1>2, <1>4 DEF LastOwner
<1> QED BY <1>5

LEMMA Accepted == MailInv => CheckAccepts
<1> SUFFICES ASSUME MailInv PROVE CheckAccepts
  OBVIOUS
<1>1. MailTypes /\ RoundsLinked /\ GoodBox(mailbox, IdSet(rounds)) /\ Apart(leases)
  BY DEF MailInv
<1>2. /\ \A i \in DOMAIN mailbox : mailbox[i] \in Message
      /\ \A i \in DOMAIN leases : leases[i] \in ScopeLease
  BY <1>1, LenProperties, ElementOfSeq DEF MailTypes
<1>3. IdSet(mailbox) \subseteq MessageIds /\ IdSet(leases) \subseteq LeaseIds
  BY <1>2 DEF IdSet, Message, ScopeLease
<1>4. TypeOK
  BY <1>1, <1>3 DEF TypeOK, MailTypes, Round
<1>5. ASSUME NEW i \in DOMAIN mailbox PROVE ~MessageFailure(i)
  BY <1>1 DEF GoodBox, MessageFailure, ToOneSide
<1>6. ~LeaseFailure
  <2> SUFFICES ASSUME NEW i \in Active, NEW s \in Scopes, LastOwner(s, i) # Nil,
                      LastOwner(s, i) # leases[i].owner, NEW t \in leases[i].scopes,
                      ScopesOverlap(s, t)
               PROVE  FALSE
    BY DEF LeaseFailure
  <2>1. i \in DOMAIN leases /\ leases \in Seq(ScopeLease)
    BY <1>1 DEF Active, MailTypes
  <2>2. PICK j \in Active : s \in leases[j].scopes /\ LastOwner(s, i) = leases[j].owner
    BY <2>1, LastOwnerNames
  <2> QED BY <1>1, <2>2 DEF Apart, Active
<1>7. RoundFailure => ~Unlocked \/ torn
  BY <1>1 DEF RoundFailure, Linked, Unlocked, RoundsLinked
<1> QED BY <1>4, <1>5, <1>6, <1>7 DEF CheckAccepts

LEMMA FilesHaveOneWriter == MailInv /\ RootedScopes => OneWriterPerFile
<1> SUFFICES ASSUME MailInv, RootedScopes, NEW i \in Active, NEW j \in Active,
                    leases[i].owner # leases[j].owner, NEW s \in leases[i].scopes,
                    NEW t \in leases[j].scopes, NEW f \in Files, Covers(s, f), Covers(t, f)
             PROVE  FALSE
  BY DEF OneWriterPerFile
<1>1. Apart(leases) /\ leases \in Seq(ScopeLease) /\ i \in DOMAIN leases /\ j \in DOMAIN leases
  BY DEF MailInv, MailTypes, Active
<1>2. leases[i] \in ScopeLease /\ leases[j] \in ScopeLease
  BY <1>1, LenProperties, ElementOfSeq
<1>3. s \in Scopes /\ t \in Scopes /\ Rooted(s) /\ Rooted(t)
  BY <1>2 DEF ScopeLease, RootedScopes, Rooted
<1>4. ScopesOverlap(s, t)
  BY <1>3, CoverOverlaps
<1> QED BY <1>1, <1>4 DEF Apart, Active

LEMMA MailStep ==
  ASSUME MailInv, [AllNext]_AllVars
  PROVE  MailInv'
<1>1. [Next]_vars
  BY DEF AllNext, AllVars
<1> QED BY <1>1, MailKept

LEMMA MailInit == AllInit => MailInv
BY MailStart DEF AllInit

\* Whatever the order of commands, `check` finds nothing in the run's files that a command
\* caused: ids are unique, replies follow what they answer, no two workers lease overlapping
\* scopes, and the ledger's rounds are the run's (check_run, team_executor.py:1479-1617).
THEOREM CheckIsClean == AllSpec => []CheckAccepts
BY MailInit, MailStep, Accepted, PTL DEF AllSpec

\* As long as no scope is a glob of names in the root, no file is covered by the active
\* leases of two workers (acquire_lease, team_executor.py:1269-1308).
THEOREM WritersAreApart == AllSpec => []LeasesAreDisjoint
<1>1. MailInv => LeasesAreDisjoint
  BY FilesHaveOneWriter DEF LeasesAreDisjoint
<1> QED BY <1>1, MailInit, MailStep, PTL DEF AllSpec

--------------------------------------------------------------------------------
(* What the readers of the mailbox have received                                *)

\* One line of the mailbox, read for the endpoint e.
Deliver(e, r, m) == IF e \in m.to THEN Append(r, m) ELSE r
Delivering == INSTANCE FoldFacts WITH Step <- Deliver

LEMMA AddressedIsFold ==
  ASSUME NEW e, NEW s PROVE AddressedTo(e, s) = Delivering!Folded(e, <<>>, s)
BY Zenon DEF AddressedTo, FoldLeft, MapThenFoldSet, Max, Deliver,
   Delivering!Folded, Delivering!FoldLeft, Delivering!MapThenFoldSet, Delivering!Max

LEMMA AddressedOfEmpty == ASSUME NEW e PROVE AddressedTo(e, <<>>) = <<>>
BY AddressedIsFold, Delivering!FoldOfEmpty

LEMMA AddressedOfAppend ==
  ASSUME NEW e, NEW s \in Seq(Message), NEW m \in Message
  PROVE  AddressedTo(e, Append(s, m)) = IF e \in m.to THEN Append(AddressedTo(e, s), m) ELSE AddressedTo(e, s)
BY AddressedIsFold, Delivering!FoldOfAppend DEF Deliver

LEMMA AddressedAreMessages ==
  ASSUME NEW e, NEW s \in Seq(Message) PROVE AddressedTo(e, s) \in Seq(Message)
<1>1. \A r \in Seq(Message), m \in Message : Deliver(e, r, m) \in Seq(Message)
  BY AppendProperties DEF Deliver
<1>2. <<>> \in Seq(Message)
  BY EmptySeq
<1> HIDE DEF Message
<1> QED BY <1>1, <1>2, AddressedIsFold, Delivering!FoldKeeps

\* What is addressed in two parts of a mailbox is what is addressed in the whole.
LEMMA AddressedOfConcat ==
  ASSUME NEW e, NEW s \in Seq(Message), NEW t \in Seq(Message)
  PROVE  AddressedTo(e, s \o t) = AddressedTo(e, s) \o AddressedTo(e, t)
<1> HIDE DEF Message
<1> DEFINE T == {u \in Seq(Message) : AddressedTo(e, s \o u) = AddressedTo(e, s) \o AddressedTo(e, u)}
<1>1. <<>> \in T
  <2>1. <<>> \in Seq(Message) /\ s \o <<>> = s /\ AddressedTo(e, s) \o <<>> = AddressedTo(e, s)
    BY EmptySeq, ConcatEmptySeq, AddressedAreMessages
  <2> QED BY <2>1, AddressedOfEmpty, Zenon
<1>2. ASSUME NEW u \in Seq(Message), NEW m \in Message, u \in T
      PROVE  Append(u, m) \in T
  <2> DEFINE v == s \o u
             a == AddressedTo(e, s)
             b == AddressedTo(e, u)
  <2>1. s \o Append(u, m) = Append(v, m) /\ v \in Seq(Message) /\ Append(u, m) \in Seq(Message)
    BY ConcatProperties, AppendProperties
  <2>2. a \in Seq(Message) /\ b \in Seq(Message)
    BY AddressedAreMessages
  <2>3. AddressedTo(e, v) = a \o b
    BY <1>2
  <2> HIDE DEF v, a, b
  <2>4. AddressedTo(e, Append(v, m)) = IF e \in m.to THEN Append(a \o b, m) ELSE a \o b
    BY <2>1, <2>3, AddressedOfAppend
  <2>5. AddressedTo(e, Append(u, m)) = IF e \in m.to THEN Append(b, m) ELSE b
    BY AddressedOfAppend DEF b
  <2>6. Append(a \o b, m) = a \o Append(b, m)
    <3>1. ASSUME NEW c \in Seq(Message), NEW d \in Seq(Message)
          PROVE  Append(c \o d, m) = c \o Append(d, m)
      <4>1. c \o Append(d, m) = Append(c \o d, m) /\ c \o d \in Seq(Message) /\ Append(d, m) \in Seq(Message)
        BY ConcatProperties, AppendProperties
      <4> QED BY <4>1, Zenon
    <3> QED BY <2>2, <3>1, Zenon
  <2>7. AddressedTo(e, Append(v, m)) = a \o AddressedTo(e, Append(u, m))
    BY <2>4, <2>5, <2>6, Zenon
  <2> QED BY <2>1, <2>7, Zenon DEF a
<1>3. \A u \in Seq(Message) : u \in T
  <2> HIDE DEF T
  <2> QED BY <1>1, <1>2, Delivering!ListInduction
<1> QED BY <1>3

\* The first k lines.
LEMMA FirstLines ==
  ASSUME NEW S, NEW s \in Seq(S), NEW k \in 0..Len(s)
  PROVE  /\ SubSeq(s, 1, k) \in Seq(S) /\ Len(SubSeq(s, 1, k)) = k
         /\ \A i \in 1..k : SubSeq(s, 1, k)[i] = s[i]
<1>1. \A i \in 1..k : s[i] \in S
  BY ElementOfSeq, LenProperties
<1> QED BY <1>1, LenProperties, SubSeqProperties

LEMMA FirstLinesStay ==
  ASSUME NEW S, NEW s \in Seq(S), NEW x \in S, NEW k \in 0..Len(s)
  PROVE  SubSeq(Append(s, x), 1, k) = SubSeq(s, 1, k)
<1> DEFINE t == Append(s, x)
           a == SubSeq(s, 1, k)
           b == SubSeq(t, 1, k)
<1>1. t \in Seq(S) /\ Len(t) = Len(s) + 1 /\ \A i \in 1..Len(s) : t[i] = s[i]
  BY AppendProperties
<1>2. Len(s) \in Nat /\ k \in 0..Len(t)
  BY <1>1, LenProperties
<1> HIDE DEF t
<1>3. a \in Seq(S) /\ Len(a) = k /\ b \in Seq(S) /\ Len(b) = k /\ \A i \in 1..k : a[i] = s[i] /\ b[i] = t[i]
  BY <1>1, <1>2, FirstLines
<1>4. \A i \in 1..k : a[i] = b[i]
  BY <1>1, <1>2, <1>3
<1> HIDE DEF a, b
<1>5. b = a
  BY <1>3, <1>4, SeqEqual
<1> QED BY <1>5 DEF a, b, t

\* Whoever has received something has last received a line, and nothing after it yet.
LEMMA LastAddressed ==
  ASSUME NEW e, NEW s \in Seq(Message), AddressedTo(e, s) # <<>>
  PROVE  \E j \in 1..Len(s) : /\ Last(AddressedTo(e, s)) = s[j]
                              /\ AddressedTo(e, SubSeq(s, 1, j)) = AddressedTo(e, s)
<1> HIDE DEF Message
<1> DEFINE T == {u \in Seq(Message) :
                   AddressedTo(e, u) # <<>> =>
                     \E j \in 1..Len(u) : /\ Last(AddressedTo(e, u)) = u[j]
                                          /\ AddressedTo(e, SubSeq(u, 1, j)) = AddressedTo(e, u)}
<1>1. <<>> \in T
  BY EmptySeq, AddressedOfEmpty
<1>2. ASSUME NEW u \in Seq(Message), NEW m \in Message, u \in T
      PROVE  Append(u, m) \in T
  <2> DEFINE v == Append(u, m)
  <2>1. /\ v \in Seq(Message) /\ Len(v) = Len(u) + 1 /\ Len(u) \in Nat /\ v[Len(u) + 1] = m
        /\ \A i \in 1..Len(u) : v[i] = u[i]
    BY AppendProperties, LenProperties
  <2>2. SubSeq(v, 1, Len(v)) = v
    BY <2>1, SubSeqFull
  <2>3. \A j \in 0..Len(u) : SubSeq(v, 1, j) = SubSeq(u, 1, j)
    BY FirstLinesStay
  <2>4. AddressedTo(e, v) = IF e \in m.to THEN Append(AddressedTo(e, u), m) ELSE AddressedTo(e, u)
    BY AddressedOfAppend
  <2>5. Last(Append(AddressedTo(e, u), m)) = m
    BY AddressedAreMessages, AppendProperties DEF Last
  <2> HIDE DEF v
  <2> SUFFICES ASSUME AddressedTo(e, v) # <<>>
               PROVE  \E j \in 1..Len(v) : /\ Last(AddressedTo(e, v)) = v[j]
                                           /\ AddressedTo(e, SubSeq(v, 1, j)) = AddressedTo(e, v)
    BY <2>1 DEF v
  <2>6. CASE e \in m.to
    <3>1. Last(AddressedTo(e, v)) = v[Len(v)] /\ Len(v) \in 1..Len(v)
      BY <2>1, <2>4, <2>5, <2>6
    <3> QED BY <2>2, <3>1
  <2>7. CASE e \notin m.to
    <3>1. PICK j \in 1..Len(u) : /\ Last(AddressedTo(e, u)) = u[j]
                                 /\ AddressedTo(e, SubSeq(u, 1, j)) = AddressedTo(e, u)
      BY <1>2, <2>4, <2>7
    <3>2. j \in 1..Len(v) /\ j \in 0..Len(u) /\ v[j] = u[j] /\ SubSeq(v, 1, j) = SubSeq(u, 1, j)
      BY <2>1, <2>3
    <3> QED BY <2>4, <2>7, <3>1, <3>2
  <2> QED BY <2>6, <2>7
<1>3. \A u \in Seq(Message) : u \in T
  <2> HIDE DEF T
  <2> QED BY <1>1, <1>2, Delivering!ListInduction
<1> QED BY <1>3

\* Every reader has received what is addressed to it in the first lines of the mailbox.
ReadersInv ==
  \A e \in Endpoints : \E k \in 0..Len(mailbox) : got[e] = AddressedTo(e, SubSeq(mailbox, 1, k))

\* Reading on after the last message received gives the reader all there is.
LEMMA ReadingOn ==
  ASSUME MailInv, ReadersInv, NEW e \in Endpoints
  PROVE  got[e] \o AddressedTo(e, SubSeq(mailbox, Resume(e) + 1, Len(mailbox))) = AddressedTo(e, mailbox)
<1>1. mailbox \in Seq(Message) /\ GoodBox(mailbox, IdSet(rounds))
  BY DEF MailInv, MailTypes
<1>2. Len(mailbox) \in Nat /\ DOMAIN mailbox = 1..Len(mailbox) /\ \A i \in 1..Len(mailbox) : mailbox[i] \in Message
  BY <1>1, LenProperties, ElementOfSeq
<1>3. PICK k \in 0..Len(mailbox) : got[e] = AddressedTo(e, SubSeq(mailbox, 1, k))
  BY DEF ReadersInv
<1> HIDE DEF Message
<1>4. \E j \in 0..Len(mailbox) : Resume(e) = j /\ got[e] = AddressedTo(e, SubSeq(mailbox, 1, j))
  <2>1. CASE got[e] = <<>>
    <3>1. SubSeq(mailbox, 1, 0) = <<>>
      BY SubSeqEmpty
    <3>2. 0 \in 0..Len(mailbox) /\ Resume(e) = 0
      BY <1>2, <2>1 DEF Resume
    <3> QED BY <2>1, <3>1, <3>2, AddressedOfEmpty
  <2>2. CASE got[e] # <<>>
    <3> DEFINE s == SubSeq(mailbox, 1, k)
    <3>1. s \in Seq(Message) /\ Len(s) = k /\ \A i \in 1..k : s[i] = mailbox[i]
      BY <1>1, FirstLines
    <3>2. PICK j \in 1..k : Last(got[e]) = s[j] /\ AddressedTo(e, SubSeq(s, 1, j)) = got[e]
      <4>1. got[e] = AddressedTo(e, s)
        BY <1>3
      <4> HIDE DEF s
      <4> QED BY <2>2, <3>1, <4>1, LastAddressed
    <3>3. j \in 1..Len(mailbox) /\ Last(got[e]) = mailbox[j]
      BY <1>2, <3>1, <3>2
    <3>4. SubSeq(s, 1, j) = SubSeq(mailbox, 1, j)
      <4> DEFINE a == SubSeq(s, 1, j)
                 b == SubSeq(mailbox, 1, j)
      <4>1. j \in 0..Len(s) /\ j \in 0..Len(mailbox)
        BY <1>2, <3>1
      <4>2. a \in Seq(Message) /\ Len(a) = j /\ b \in Seq(Message) /\ Len(b) = j
            /\ \A i \in 1..j : a[i] = s[i] /\ b[i] = mailbox[i]
        <5> HIDE DEF s
        <5> QED BY <1>1, <3>1, <4>1, FirstLines
      <4>3. \A i \in 1..j : a[i] = b[i]
        BY <3>1, <4>2
      <4> HIDE DEF a, b
      <4>4. a = b
        BY <4>2, <4>3, SeqEqual
      <4> QED BY <4>4 DEF a, b
    <3>5. Resume(e) = j
      <4> DEFINE id == Last(got[e]).id
                 I == {i \in 1..Len(mailbox) : mailbox[i].id = id}
      <4>1. Resume(e) = IF I # {} THEN Min(I) ELSE 0
        BY <2>2, Zenon DEF Resume, SelectInSeq
      <4>2. j \in I
        BY <3>3
      <4>3. \A i \in I : i = j
        <5> SUFFICES ASSUME NEW i \in I, i # j PROVE FALSE
          OBVIOUS
        <5>1. i \in 1..Len(mailbox) /\ mailbox[i].id = mailbox[j].id
          BY <3>3
        <5>2. CASE i < j
          BY <1>1, <1>2, <3>3, <5>1, <5>2 DEF GoodBox
        <5>3. CASE j < i
          BY <1>1, <1>2, <3>3, <5>1, <5>3 DEF GoodBox
        <5> QED BY <1>2, <3>3, <5>1, <5>2, <5>3
      <4>4. I = {j}
        BY <4>2, <4>3
      <4>5. Min(I) = j
        BY <4>4, <3>3 DEF Min
      <4> QED BY <4>1, <4>4, <4>5
    <3>6. j \in 0..Len(mailbox)
      BY <1>2, <3>3
    <3> QED BY <3>2, <3>4, <3>5, <3>6
  <2> QED BY <2>1, <2>2
<1>5. PICK j \in 0..Len(mailbox) : Resume(e) = j /\ got[e] = AddressedTo(e, SubSeq(mailbox, 1, j))
  BY <1>4
<1> DEFINE a == SubSeq(mailbox, 1, j)
           b == SubSeq(mailbox, j + 1, Len(mailbox))
<1>6. a \in Seq(Message) /\ b \in Seq(Message)
  <2>1. \A i \in j + 1..Len(mailbox) : mailbox[i] \in Message
    BY <1>2
  <2>2. b \in Seq(Message)
    BY <1>2, <2>1, SubSeqProperties
  <2> QED BY <1>1, <2>2, FirstLines
<1>7. a \o b = mailbox
  <2>1. 1 \in 1..Len(mailbox) + 1 /\ j \in 1 - 1..Len(mailbox) /\ Len(mailbox) \in j..Len(mailbox)
    BY <1>2
  <2>2. a \o b = SubSeq(mailbox, 1, Len(mailbox))
    BY <1>1, <2>1, ConcatAdjacentSubSeq
  <2> QED BY <1>1, <2>2, SubSeqFull, Zenon
<1>8. got[e] = AddressedTo(e, a) /\ Resume(e) + 1 = j + 1
  BY <1>5
<1>9. AddressedTo(e, SubSeq(mailbox, Resume(e) + 1, Len(mailbox))) = AddressedTo(e, b)
  BY <1>8
<1> HIDE DEF a, b
<1>10. AddressedTo(e, a \o b) = AddressedTo(e, a) \o AddressedTo(e, b)
  BY <1>6, AddressedOfConcat
<1> QED BY <1>7, <1>8, <1>9, <1>10, Zenon

LEMMA ReadersInit == Init => ReadersInv
<1> SUFFICES ASSUME Init PROVE ReadersInv
  OBVIOUS
<1>1. mailbox = <<>> /\ got = [e \in Endpoints |-> <<>>]
  BY DEF Init
<1>2. Len(mailbox) = 0 /\ SubSeq(mailbox, 1, 0) = <<>>
  BY <1>1, EmptySeq, SubSeqEmpty
<1> SUFFICES ASSUME NEW e \in Endpoints
             PROVE  \E k \in 0..Len(mailbox) : got[e] = AddressedTo(e, SubSeq(mailbox, 1, k))
  BY DEF ReadersInv
<1>3. got[e] = <<>> /\ 0 \in 0..Len(mailbox)
  BY <1>1, <1>2
<1>4. got[e] = AddressedTo(e, SubSeq(mailbox, 1, 0))
  BY <1>2, <1>3, AddressedOfEmpty
<1> QED BY <1>3, <1>4

\* The lines of a mailbox are never rewritten.
LEMMA MailboxGrows ==
  ASSUME MailInv, [Next]_vars
  PROVE  \/ mailbox' = mailbox
         \/ got' = got /\ \E m \in Message : mailbox' = Append(mailbox, m)
<1>1. ASSUME NEW p \in Procs, AppendMessage(p)
      PROVE  got' = got /\ (mailbox' = mailbox \/ \E m \in Message : mailbox' = Append(mailbox, m))
  <2>1. /\ sending[p] # Nil /\ got' = got
        /\ mailbox' = IF Sendable(sending[p]) THEN Append(mailbox, Threaded(sending[p])) ELSE mailbox
    BY <1>1 DEF AppendMessage
  <2>2. sending[p] \in Message
    BY <2>1 DEF MailInv, MailTypes
  <2> HIDE DEF Message
  <2>3. Sendable(sending[p]) => Threaded(sending[p]) \in Message
    BY <2>2, ThreadedMessage
  <2> QED BY <2>1, <2>3
<1> QED BY <1>1
        DEF Next, vars, RoundWritten, WriteFails, OpenerDies, CloseRound, OpenRound, SenderDies, PrepareMessage,
            Receive, ReleaseLease, AcquireLease

\* Only reading changes what has been received.
LEMMA ReceivedGrows ==
  ASSUME [Next]_vars
  PROVE  got' = got \/ \E e \in Endpoints : Receive(e)
BY DEF Next, vars, RoundWritten, WriteFails, OpenerDies, CloseRound, OpenRound, SenderDies, PrepareMessage,
       AppendMessage, ReleaseLease, AcquireLease

LEMMA ReadersStep == ASSUME MailInv, ReadersInv, [Next]_vars PROVE ReadersInv'
<1>1. mailbox \in Seq(Message) /\ Len(mailbox) \in Nat /\ DOMAIN got = Endpoints
  BY LenProperties DEF MailInv, MailTypes
<1> HIDE DEF Message
<1>2. CASE got' = got
  <2>1. CASE mailbox' = mailbox
    BY <1>2, <2>1 DEF ReadersInv
  <2>2. CASE \E m \in Message : mailbox' = Append(mailbox, m)
    <3>1. PICK m \in Message : mailbox' = Append(mailbox, m)
      BY <2>2
    <3>2. Len(mailbox') = Len(mailbox) + 1
      BY <1>1, <3>1, AppendProperties
    <3>3. \A k \in 0..Len(mailbox) : SubSeq(mailbox', 1, k) = SubSeq(mailbox, 1, k) /\ k \in 0..Len(mailbox')
      BY <1>1, <3>1, <3>2, FirstLinesStay
    <3> QED BY <1>2, <3>3, Zenon DEF ReadersInv, Endpoints
  <2> QED BY <2>1, <2>2, MailboxGrows
<1>3. ASSUME NEW e \in Endpoints, Receive(e)
      PROVE  ReadersInv'
  <2>1. /\ mailbox' = mailbox
        /\ got' = [got EXCEPT ![e] = @ \o AddressedTo(e, SubSeq(mailbox, Resume(e) + 1, Len(mailbox)))]
    BY <1>3 DEF Receive
  <2>2. got'[e] = AddressedTo(e, mailbox)
    BY <1>1, <2>1, ReadingOn
  <2>3. \A d \in Endpoints : d # e => got'[d] = got[d]
    BY <1>1, <2>1
  <2>4. SubSeq(mailbox, 1, Len(mailbox)) = mailbox /\ Len(mailbox) \in 0..Len(mailbox)
    BY <1>1, SubSeqFull
  <2> QED BY <2>1, <2>2, <2>3, <2>4 DEF ReadersInv, Endpoints
<1> QED BY <1>2, <1>3, ReceivedGrows

LEMMA ReadersFollow == ASSUME MailInv, ReadersInv PROVE ReceivedOnceInOrder
<1> SUFFICES ASSUME NEW e \in Endpoints PROVE IsPrefix(got[e], AddressedTo(e, mailbox))
  BY DEF ReceivedOnceInOrder
<1>1. PICK k \in 0..Len(mailbox) : got[e] = AddressedTo(e, SubSeq(mailbox, 1, k))
  BY DEF ReadersInv
<1>2. mailbox \in Seq(Message) /\ Len(mailbox) \in Nat /\ \A i \in 1..Len(mailbox) : mailbox[i] \in Message
  BY LenProperties, ElementOfSeq DEF MailInv, MailTypes
<1> HIDE DEF Message
<1> DEFINE s == SubSeq(mailbox, 1, k)
           t == SubSeq(mailbox, k + 1, Len(mailbox))
           a == AddressedTo(e, s)
           b == AddressedTo(e, t)
<1>3. s \in Seq(Message) /\ t \in Seq(Message)
  <2>1. \A i \in k + 1..Len(mailbox) : mailbox[i] \in Message
    BY <1>2
  <2>2. t \in Seq(Message)
    BY <1>2, <2>1, SubSeqProperties
  <2> QED BY <1>2, <2>2, FirstLines
<1>4. s \o t = mailbox
  <2>1. 1 \in 1..Len(mailbox) + 1 /\ k \in 1 - 1..Len(mailbox) /\ Len(mailbox) \in k..Len(mailbox)
    BY <1>2
  <2>2. s \o t = SubSeq(mailbox, 1, Len(mailbox))
    BY <1>2, <2>1, ConcatAdjacentSubSeq
  <2> QED BY <1>2, <2>2, SubSeqFull, Zenon
<1>5. got[e] = a
  BY <1>1
<1> HIDE DEF s, t
<1>6. a \in Seq(Message) /\ b \in Seq(Message) /\ AddressedTo(e, s \o t) = a \o b
  BY <1>3, AddressedAreMessages, AddressedOfConcat
<1> HIDE DEF a, b
<1>7. AddressedTo(e, mailbox) = a \o b
  BY <1>4, <1>6, Zenon
<1> DEFINE w == a \o b
<1>8. /\ w \in Seq(Message) /\ Len(w) = Len(a) + Len(b) /\ Len(a) \in Nat /\ Len(b) \in Nat
      /\ \A i \in 1..Len(a) : w[i] = a[i]
  BY <1>6, ConcatProperties, LenProperties
<1> HIDE DEF w
<1>9. Len(a) <= Len(w) /\ SubSeq(a, 1, Len(a)) = SubSeq(w, 1, Len(a))
  <2> DEFINE x == SubSeq(a, 1, Len(a))
             y == SubSeq(w, 1, Len(a))
  <2>1. Len(a) \in 0..Len(a) /\ Len(a) \in 0..Len(w)
    BY <1>8
  <2>2. /\ x \in Seq(Message) /\ y \in Seq(Message) /\ Len(x) = Len(a) /\ Len(y) = Len(a)
        /\ \A i \in 1..Len(a) : x[i] = a[i] /\ y[i] = w[i]
    BY <1>6, <1>8, <2>1, FirstLines
  <2>3. \A i \in 1..Len(a) : x[i] = y[i]
    BY <1>8, <2>2
  <2> HIDE DEF x, y
  <2>4. x = y
    BY <2>2, <2>3, SeqEqual
  <2> QED BY <1>8, <2>4 DEF x, y
<1>10. IsPrefix(a, w)
  BY <1>9 DEF IsPrefix
<1> QED BY <1>5, <1>7, <1>10 DEF w

\* Whatever is sent, by whomever and to whom, and however often the readers read on: what an
\* endpoint has received is addressed to it, in the order of the mailbox, nothing twice and
\* nothing left out before the last (receive_messages, team_executor.py:1620-1663).
THEOREM MessagesArriveOnce == AllSpec => []ReceivedOnceInOrder
<1>1. AllInit => ReadersInv
  BY ReadersInit DEF AllInit
<1>2. MailInv /\ ReadersInv /\ [AllNext]_AllVars => ReadersInv'
  <2>1. [AllNext]_AllVars => [Next]_vars
    BY Zenon DEF AllNext, AllVars, vars, talked
  <2> QED BY <2>1, ReadersStep
<1> QED BY <1>1, <1>2, MailInit, MailStep, ReadersFollow, PTL DEF AllSpec

--------------------------------------------------------------------------------
(* Launches                                                                     *)

\* The launches of a wave, and those outside of one, keep the invariant of TeamWorkersProofs.
LaunchPart ==
  /\ part = "wave" => Launching!IInv
  /\ part = "added" => Adding!IInv

LEMMA LaunchInit == AllInit => LaunchPart
<1>1. part = "wave" /\ AllInit => Launching!Init
  BY DEF AllInit
<1>2. part = "added" /\ AllInit => Adding!Init
  BY DEF AllInit
<1>3. Launching!Init => Launching!IInv
  BY LaunchingAssumption, Launching!Initially
<1>4. Adding!Init => Adding!IInv
  BY AddingAssumption, Adding!Initially
<1> QED BY <1>1, <1>2, <1>3, <1>4, Zenon DEF LaunchPart

LEMMA LaunchStep ==
  ASSUME LaunchPart, [AllNext]_AllVars
  PROVE  LaunchPart'
<1>1. part' = part
  BY DEF AllNext, AllVars
<1>2. /\ part = "wave" => [Launching!Next]_(Launching!vars)
      /\ part = "added" => [Adding!Next]_(Adding!vars)
  BY DEF AllNext, AllVars, launched, Launching!vars, Launching!records, Launching!ledger,
         Launching!tmux, Adding!vars, Adding!records, Adding!ledger, Adding!tmux
<1>3. Launching!IInv /\ [Launching!Next]_(Launching!vars) => Launching!IInv'
  BY LaunchingAssumption, Launching!Kept
<1>4. Adding!IInv /\ [Adding!Next]_(Adding!vars) => Adding!IInv'
  BY AddingAssumption, Adding!Kept
<1> QED BY <1>1, <1>2, <1>3, <1>4, Zenon DEF LaunchPart

\* However launches of the wave and of single workers race, fail and die, each start of a
\* worker follows an admission of its own, and members of the team are in the Core's ledger
\* and have their files (team_executor.py, launch_wave and launch_worker).
THEOREM LaunchesAreAdmitted == AllSpec => []LaunchInv
<1>1. Launching!IInv => Launching!DispatchOnce /\ Launching!MembersRegistered
  BY LaunchingAssumption, Launching!OnceDispatched, Launching!MembersAreRegistered
<1>2. Adding!IInv => Adding!DispatchOnce /\ Adding!MembersRegistered
  BY AddingAssumption, Adding!OnceDispatched, Adding!MembersAreRegistered
<1>3. LaunchPart => LaunchInv
  BY <1>1, <1>2, Zenon DEF LaunchPart, LaunchInv
<1> QED BY <1>3, LaunchInit, LaunchStep, PTL DEF AllSpec

\* Removing a worker takes no unreported work and no worktree that is still in use
\* (team_executor.py, remove_worker and its rollback).
THEOREM RemovalLosesNothing == AllSpec => NothingLost
<1> DEFINE Stands == /\ part = "wave" => Launching!LosesNothing
                     /\ part = "added" => Adding!LosesNothing
<1>1. Launching!IInv /\ [Launching!Next]_(Launching!vars)
        => [Launching!LosesNothing]_(Launching!vars)
  BY LaunchingAssumption, Launching!NothingIsLost
<1>2. Adding!IInv /\ [Adding!Next]_(Adding!vars) => [Adding!LosesNothing]_(Adding!vars)
  BY AddingAssumption, Adding!NothingIsLost
<1>3. /\ UNCHANGED Launching!vars => Launching!LosesNothing
      /\ UNCHANGED Adding!vars => Adding!LosesNothing
  BY DEF Launching!vars, Launching!records, Launching!ledger, Launching!tmux, Launching!LosesNothing,
         Adding!vars, Adding!records, Adding!ledger, Adding!tmux, Adding!LosesNothing
<1>4. LaunchPart /\ [AllNext]_AllVars => [Stands]_AllVars
  <2>1. /\ part = "wave" /\ [AllNext]_AllVars => [Launching!Next]_(Launching!vars)
        /\ part = "added" /\ [AllNext]_AllVars => [Adding!Next]_(Adding!vars)
    BY DEF AllNext, AllVars, launched, Launching!vars, Launching!records, Launching!ledger,
           Launching!tmux, Adding!vars, Adding!records, Adding!ledger, Adding!tmux
  <2>2. /\ [Launching!LosesNothing]_(Launching!vars) => Launching!LosesNothing
        /\ [Adding!LosesNothing]_(Adding!vars) => Adding!LosesNothing
    BY <1>3
  <2> QED BY <1>1, <1>2, <2>1, <2>2, Zenon DEF LaunchPart
<1> QED BY <1>4, LaunchInit, LaunchStep, PTL DEF AllSpec, NothingLost

--------------------------------------------------------------------------------
(* Leases of resources                                                          *)

LeaseRecord ==
  [worker : Holders, cap : Resources!Capabilities,
  source : {Resources!SourceOf[c] : c \in Resources!Capabilities},
   kind : {"host_runtime_group", "worktree"}, exact : BOOLEAN,
   status : Resources!TerminalStatuses \cup {"active", "releasing"},
   proofs : Resources!ProofLists \cup {<<>>},
   blocker : Resources!Blockers]

ReceiptRecord == {Resources!Projection(f, l) : f \in ResourceIds, l \in LeaseRecord}

LeasesTyped ==
  /\ lease \in [ResourceIds -> LeaseRecord \cup {Nil}]
  /\ receipts \in [Holders -> ReceiptRecord \cup {Nil}]
  /\ loaded \in [Cleaners -> [file : ResourceIds, lease : LeaseRecord] \cup {Nil}]

\* A lease that has ended, whose projection the delegation ledger accepts.
EndedLease(f, l) ==
  /\ lease[f] = l /\ l # Nil /\ l \in LeaseRecord
  /\ l.status \in Resources!TerminalStatuses

\* What a writer leaves: a lease its validator accepts, and one that cannot be loaded only when
\* it is to be released and its blocker is empty.
Written(l) ==
  /\ l \in LeaseRecord /\ Resources!ValidLease(l)
  /\ Resources!Readable(l) \/ (l.status = "releasing" /\ l.blocker = "empty")

\* What a loader has read or a receipt says is a lease that has ended and will not change.
LeasesValid == \A f \in ResourceIds : lease[f] # Nil => Written(lease[f])
LoadedEnded == \A p \in Cleaners : loaded[p] # Nil => EndedLease(loaded[p].file, loaded[p].lease)
ReceiptsEnded ==
  \A w \in Holders : receipts[w] # Nil =>
    \E f \in ResourceIds, l \in LeaseRecord : EndedLease(f,
    l) /\ receipts[w] = Resources!Projection(f, l)

LeaseInv == LeasesTyped /\ LeasesValid /\ LoadedEnded /\ ReceiptsEnded

--------------------------------------------------------------------------------
\* The ledger accepts the projection of a valid lease that has ended; a projection that says
\* released comes from a lease its exact owner released.
LEMMA EndedIsAccepted ==
  ASSUME NEW f, NEW l \in LeaseRecord, Resources!ValidLease(l),
         l.status \in Resources!TerminalStatuses
  PROVE  /\ Resources!Readable(l)
         /\ Resources!ProjectionAccepted(Resources!Projection(f, l))
         /\ Resources!Projection(f, l).lease = f
         /\ Resources!Projection(f, l).status = "released" =>
              l.status = "released" /\ l.cap # "audit_only"
<1>1. l.status \in {"released", "preserved", "failed", "orphaned"}
  BY DEF Resources!TerminalStatuses, Resources!Unresolved
<1>2. l.proofs # <<>> /\ Resources!IsInjective(l.proofs)
  BY DEF Resources!ValidLease
<1>3. CASE l.status = "released"
  BY <1>2, <1>3 DEF Resources!ValidLease, Resources!Readable, Resources!ProjectionAccepted, Resources!Projection,
                    Resources!CleanupStatus, LeaseRecord
<1>4. CASE l.status \in {"preserved", "failed"}
  BY <1>2, <1>4 DEF Resources!ValidLease, Resources!Readable, Resources!ProjectionAccepted, Resources!Projection,
                    Resources!CleanupStatus, Resources!Unresolved, LeaseRecord
<1>5. CASE l.status = "orphaned"
  BY <1>2, <1>5 DEF Resources!ValidLease, Resources!Readable, Resources!ProjectionAccepted, Resources!Projection,
                    Resources!CleanupStatus, Resources!Unresolved, LeaseRecord
<1> QED BY <1>1, <1>3, <1>4, <1>5

\* A transition changes a lease that has not ended, and leaves a valid one.
LEMMA Transition ==
  ASSUME LeasesTyped, LeasesValid, NEW f \in ResourceIds,
         NEW status \in Resources!TerminalStatuses \cup {"releasing"},
         NEW proofs \in Resources!ProofLists, NEW blocker \in Resources!Blockers,
         Resources!TransitionLease(f, status, proofs, blocker)
  PROVE  /\ lease[f] # Nil /\ lease[f].status \notin Resources!TerminalStatuses
         /\ lease' = [lease EXCEPT ![f] = lease'[f]]
         /\ Written(lease'[f])
         /\ UNCHANGED <<reported, receipts, loaded>>
<1> DEFINE l == lease[f]
           updated == [l EXCEPT !.status = status, !.proofs = proofs, !.blocker = blocker]
<1>1. l # Nil /\ l \in LeaseRecord /\ l.status \in DOMAIN Resources!Allowed
      /\ Resources!ValidLease(updated) /\ lease' = [lease EXCEPT ![f] = updated]
      /\ UNCHANGED <<reported, receipts, loaded>>
  BY DEF Resources!TransitionLease, LeasesValid, Written
<1>2. updated \in LeaseRecord
  BY <1>1 DEF LeaseRecord
<1>3. l.status \notin Resources!TerminalStatuses
  BY <1>1 DEF Resources!Allowed, Resources!TerminalStatuses, Resources!Unresolved
<1>4. lease'[f] = updated
  BY <1>1 DEF LeasesTyped
<1>5. Written(updated)
  <2>1. updated.status = status /\ updated.blocker = blocker
    BY <1>1 DEF LeaseRecord
  <2>2. CASE status = "releasing"
    BY <1>1, <1>2, <2>1, <2>2 DEF Written, Resources!Readable
  <2>3. CASE status \in Resources!TerminalStatuses
    <3>1. blocker \in {"none", "text"}
      BY <1>1, <2>1, <2>3 DEF Resources!ValidLease, Resources!TerminalStatuses, Resources!Unresolved
    <3> QED BY <1>1, <1>2, <2>1, <3>1 DEF Written, Resources!Readable
  <2> QED BY <2>2, <2>3
<1> HIDE DEF updated
<1> QED BY <1>1, <1>2, <1>3, <1>4, <1>5

\* A new lease is one its validator accepts.
LEMMA Creation ==
  ASSUME LeasesTyped, NEW f \in ResourceIds, NEW w \in Holders, NEW cap \in Resources!Capabilities,
         NEW source \in {Resources!SourceOf[c] : c \in Resources!Capabilities},
         NEW kind \in {"host_runtime_group", "worktree"},
         NEW exact \in BOOLEAN, Resources!CreateLease(f, w, cap, source, kind, exact)
  PROVE  /\ lease[f] = Nil
         /\ lease' = [lease EXCEPT ![f] = lease'[f]]
         /\ Written(lease'[f])
         /\ UNCHANGED <<reported, receipts, loaded>>
<1> DEFINE l == [worker |-> w, cap |-> cap, source |-> source, kind |-> kind, exact |-> exact,
                 status |-> "active", proofs |-> <<>>, blocker |-> "none"]
<1>1. lease[f] = Nil /\ Resources!ValidLease(l) /\ lease' = [lease EXCEPT ![f] = l]
      /\ UNCHANGED <<reported, receipts, loaded>>
  BY DEF Resources!CreateLease
<1>2. l \in LeaseRecord /\ Written(l)
  <2>1. l \in LeaseRecord /\ l.blocker = "none"
    BY DEF LeaseRecord, Resources!Blockers
  <2> HIDE DEF l
  <2> QED BY <1>1, <2>1 DEF Written, Resources!Readable
<1>3. lease'[f] = l
  BY <1>1 DEF LeasesTyped
<1> HIDE DEF l
<1> QED BY <1>1, <1>2, <1>3

\* A lease that has ended stays as it is when another is written.
LEMMA OneLeaseChanges ==
  ASSUME LeaseInv, NEW f \in ResourceIds,
         lease[f] = Nil \/ lease[f].status \notin Resources!TerminalStatuses,
         lease' = [lease EXCEPT ![f] = lease'[f]], Written(lease'[f]),
         UNCHANGED <<reported, receipts, loaded>>
  PROVE  LeaseInv'
<1>1. \A g \in ResourceIds, l \in LeaseRecord : EndedLease(g, l) => EndedLease(g, l)'
  BY DEF EndedLease, LeaseInv, LeasesTyped
<1>2. LeasesTyped'
  <2>1. lease' \in [ResourceIds -> LeaseRecord \cup {Nil}]
    <3> DEFINE new == lease'[f]
    <3>1. lease' = [lease EXCEPT ![f] = new] /\ new \in LeaseRecord
      BY DEF Written
    <3> HIDE DEF new
    <3> QED BY <3>1 DEF LeaseInv, LeasesTyped
  <2> QED BY <2>1 DEF LeaseInv, LeasesTyped
<1>3. LeasesValid'
  BY DEF LeaseInv, LeasesTyped, LeasesValid
<1>4. LoadedEnded' /\ ReceiptsEnded'
  BY <1>1 DEF LeaseInv, LeasesTyped, LoadedEnded, ReceiptsEnded
<1> QED BY <1>2, <1>3, <1>4 DEF LeaseInv

LEMMA ResourcesStart == Resources!Init => LeaseInv
BY DEF Resources!Init, LeaseInv, LeasesTyped, LeasesValid, LoadedEnded, ReceiptsEnded

LEMMA ResourcesKept ==
  ASSUME LeaseInv, [Resources!Next]_held
  PROVE  LeaseInv'
<1>1. ASSUME NEW f \in ResourceIds, NEW w \in Holders, NEW cap \in Resources!Capabilities,
             NEW exact \in BOOLEAN,
             NEW source \in {Resources!SourceOf[c] : c \in Resources!Capabilities},
             NEW kind \in {"host_runtime_group", "worktree"}, Resources!CreateLease(f, w, cap,
             source, kind, exact)
      PROVE  LeaseInv'
  <2>1. LeasesTyped
    BY DEF LeaseInv
  <2> QED BY <1>1, <2>1, Creation, OneLeaseChanges
<1>2. ASSUME NEW f \in ResourceIds, NEW status \in Resources!TerminalStatuses \cup {"releasing"},
             NEW proofs \in Resources!ProofLists, NEW blocker \in Resources!Blockers,
             Resources!TransitionLease(f, status, proofs, blocker)
      PROVE  LeaseInv'
  <2>1. LeasesTyped /\ LeasesValid
    BY DEF LeaseInv
  <2> QED BY <1>2, <2>1, Transition, OneLeaseChanges
<1>3. ASSUME NEW w \in Holders, Resources!RecordTerminal(w) PROVE LeaseInv'
  BY <1>3 DEF Resources!RecordTerminal, LeaseInv, LeasesTyped, LeasesValid, LoadedEnded,
              ReceiptsEnded, EndedLease
<1>4. ASSUME NEW p \in Cleaners, NEW f \in ResourceIds, Resources!LoadLease(p, f) PROVE LeaseInv'
  <2> DEFINE l == lease[f]
  <2>1. /\ l # Nil /\ l \in LeaseRecord /\ Resources!CleanupStatus(l) # Nil
        /\ loaded' = [loaded EXCEPT ![p] = [file |-> f, lease |-> l]]
        /\ UNCHANGED <<lease, reported, receipts>>
    BY <1>4 DEF Resources!LoadLease, LeaseInv, LeasesValid, Written
  <2>2. l.status \in Resources!TerminalStatuses
    BY <2>1 DEF Resources!CleanupStatus, Resources!TerminalStatuses, Resources!Unresolved
  <2>3. EndedLease(f, l)
    BY <2>1, <2>2 DEF EndedLease
  <2>4. \A g, k : EndedLease(g, k)' = EndedLease(g, k)
    BY <2>1 DEF EndedLease
  <2>5. LeasesTyped'
    BY <2>1 DEF LeaseInv, LeasesTyped
  <2>6. LoadedEnded'
    BY <2>1, <2>3, <2>4 DEF LeaseInv, LeasesTyped, LoadedEnded
  <2> QED BY <2>1, <2>4, <2>5, <2>6 DEF LeaseInv, LeasesValid, ReceiptsEnded
<1>5. ASSUME NEW p \in Cleaners, Resources!RecordCleanup(p) PROVE LeaseInv'
  <2> DEFINE f == loaded[p].file
             l == loaded[p].lease
             w == l.worker
  <2>1. /\ EndedLease(f, l) /\ f \in ResourceIds /\ l \in LeaseRecord
        /\ loaded' = [loaded EXCEPT ![p] = Nil]
        /\ UNCHANGED <<lease, reported>>
        /\ \/ receipts' = receipts
           \/ receipts' = [receipts EXCEPT ![w] = Resources!Projection(f, l)]
    BY <1>5 DEF Resources!RecordCleanup, LeaseInv, LeasesTyped, LoadedEnded
  <2> HIDE DEF f, l
  <2>2. \A g, k : EndedLease(g, k)' = EndedLease(g, k)
    BY <2>1 DEF EndedLease
  <2>3. LeasesTyped'
    BY <2>1 DEF LeaseInv, LeasesTyped, ReceiptRecord
  <2>4. LoadedEnded'
    BY <2>1, <2>2 DEF LeaseInv, LeasesTyped, LoadedEnded
  <2>5. ReceiptsEnded'
    BY <2>1, <2>2 DEF LeaseInv, LeasesTyped, ReceiptsEnded
  <2> QED BY <2>1, <2>3, <2>4, <2>5 DEF LeaseInv, LeasesValid
<1>6. CASE UNCHANGED held
  BY <1>6 DEF held, LeaseInv, LeasesTyped, LeasesValid, LoadedEnded, ReceiptsEnded, EndedLease
<1> QED BY <1>1, <1>2, <1>3, <1>4, <1>5, <1>6 DEF Resources!Next

LEMMA ResourcesAgree == ASSUME LeaseInv PROVE Resources!CleanupIsTrue
<1>1. ASSUME NEW f \in ResourceIds, lease[f] # Nil
      PROVE  /\ \/ Resources!Readable(lease[f])
                \/ lease[f].status = "releasing" /\ lease[f].blocker = "empty"
             /\ lease[f].status \in Resources!TerminalStatuses =>
                  /\ Resources!Readable(lease[f])
                  /\ Resources!ProjectionAccepted(Resources!Projection(f, lease[f]))
  BY <1>1, EndedIsAccepted DEF LeaseInv, LeasesValid, Written
<1>2. ASSUME NEW f \in ResourceIds, lease[f] # Nil, f \notin Resources!Gaps
      PROVE  lease[f].status = "released" /\ lease[f].cap # "audit_only"
  <2>1. PICK w \in Holders : receipts[w] # Nil /\ receipts[w].lease = f
  /\ receipts[w].status = "released"
    BY <1>2 DEF Resources!Gaps
  <2>2. PICK g \in ResourceIds, l \in LeaseRecord : EndedLease(g,
  l) /\ receipts[w] = Resources!Projection(g, l)
    BY <2>1 DEF LeaseInv, ReceiptsEnded
  <2>3. Resources!ValidLease(l) /\ l.status \in Resources!TerminalStatuses /\ lease[g] = l
    BY <2>2 DEF EndedLease, LeaseInv, LeasesValid, Written
  <2>4. g = f /\ l.status = "released" /\ l.cap # "audit_only"
    BY <2>1, <2>2, <2>3, EndedIsAccepted
  <2> QED BY <2>3, <2>4
<1>3. ASSUME NEW w \in Holders, receipts[w] # Nil
      PROVE  receipts[w] = Resources!Projection(receipts[w].lease, lease[receipts[w].lease])
  <2>1. PICK f \in ResourceIds, l \in LeaseRecord : EndedLease(f,
  l) /\ receipts[w] = Resources!Projection(f, l)
    BY <1>3 DEF LeaseInv, ReceiptsEnded
  <2>2. lease[f] = l /\ Resources!Projection(f, l).lease = f
    BY <2>1, EndedIsAccepted DEF EndedLease, LeaseInv, LeasesValid, Written
  <2> QED BY <2>1, <2>2
<1> QED BY <1>1, <1>2, <1>3 DEF Resources!CleanupIsTrue

\* The leases of resources are what their writers left, whatever the behaviour is one of.
ResourcesPart == part = "resources" => LeaseInv

LEMMA ResourcesInit == AllInit => ResourcesPart
BY ResourcesStart, Zenon DEF AllInit, ResourcesPart

LEMMA ResourcesStep ==
  ASSUME ResourcesPart, [AllNext]_AllVars
  PROVE  ResourcesPart'
<1>1. part' = part
  BY DEF AllNext, AllVars
<1>2. part = "resources" => [Resources!Next]_held
  BY DEF AllNext, AllVars
<1> QED BY <1>1, <1>2, ResourcesKept, Zenon DEF ResourcesPart

\* The lease's writer, its loader and the receipts' checks agree for good on every lease but
\* one to be released with an empty blocker, although the lease is read outside its lock
\* (worker_resource_model.py:168-248, native_delegation_adapter.py:97-148,
\* delegation_cleanup.py:73-118).
THEOREM CleanupStaysTrue == AllSpec => []CleanupIsTrue
<1>1. ResourcesPart => CleanupIsTrue
  BY ResourcesAgree, Zenon DEF ResourcesPart, CleanupIsTrue
<1> QED BY <1>1, ResourcesInit, ResourcesStep, PTL DEF AllSpec

--------------------------------------------------------------------------------
(* Old runs                                                                     *)

TaskRecord ==
  [run : Runs, status : Retention!Statuses \cup {"none"}, raw : BOOLEAN, at : {"summary", "prune",
  "write"},
   todo : SUBSET Sessions, active : BOOLEAN, bad : BOOLEAN, rank : Nat]

RetentionKinds ==
  /\ dir \in [Runs -> Retention!RunRecord \cup {Nil}]
  /\ binding \in [Sessions -> Runs \cup {0}]
  /\ refs \in [Sessions -> SUBSET Runs]
  /\ task \in [Cleaners -> TaskRecord \cup {Nil}]
  /\ steady \in [Cleaners -> [Sessions -> Runs \cup {0, Nil}]]

\* What a command remembers of a session since its start is that session's binding still.
Remembered == \A p \in Cleaners, s \in Sessions : steady[p][s] # Nil => steady[p][s] = binding[s]

\* A command that has looked at a session that stayed as it was knows whether it protects the run.
Knows(j, p) ==
  j.at # "write" =>
    \A s \in Sessions \ j.todo : steady[p][s] # Nil => j.active \/ ~Retention!Protects(s, j.run)
Known == \A p \in Cleaners : task[p] # Nil => Knows(task[p], p)

RetentionInv == RetentionKinds /\ Remembered /\ Known

\* The place of a run among those that exist is a number; runs are finitely many.
LEMMA RankCounts == ASSUME NEW r PROVE Retention!Rank(r) \in Nat
<1> DEFINE before == {q \in Retention!Existing :
                        dir[q].age < dir[r].age \/ (dir[q].age = dir[r].age /\ q < r)}
<1>1. IsFiniteSet(Runs)
  BY RetentionAssumption DEF Retention!ConstantsAssumption, Retention!IsFiniteSet, IsFiniteSet
<1>2. Cardinality(before) \in Nat
  <2>1. before \subseteq Runs
    BY DEF Retention!Existing
  <2> QED BY <1>1, <2>1, FS_Subset, FS_CardinalityType
<1>3. Retention!Cardinality(before) = Cardinality(before)
  BY DEF Retention!Cardinality, Cardinality
<1> QED BY <1>2, <1>3 DEF Retention!Rank

\* Only run directories change.
LEMMA OnlyRuns ==
  ASSUME RetentionInv, dir' \in [Runs -> Retention!RunRecord \cup {Nil}], UNCHANGED <<binding,
         refs, task, steady>>
  PROVE  RetentionInv'
BY DEF RetentionInv, RetentionKinds, Remembered, Known, Knows, Retention!Protects

\* A process begins, goes on with a look that starts again, or ends.
LEMMA OnlyTask ==
  ASSUME RetentionInv, NEW p \in Cleaners, NEW j \in TaskRecord \cup {Nil},
         NEW seen \in [Sessions -> Runs \cup {0, Nil}],
         task' = [task EXCEPT ![p] = j], steady' = [steady EXCEPT ![p] = seen],
         dir' \in [Runs -> Retention!RunRecord \cup {Nil}], UNCHANGED <<binding, refs>>,
         \A s \in Sessions : seen[s] # Nil => seen[s] = binding[s],
         j = Nil \/ j.todo = Sessions \/ j.at = "write"
  PROVE  RetentionInv'
<1>1. RetentionKinds' /\ Remembered'
  BY DEF RetentionInv, RetentionKinds, Remembered
<1>2. ASSUME NEW q \in Cleaners, task'[q] # Nil, q # p PROVE Knows(task[q], q)'
  BY <1>2 DEF RetentionInv, RetentionKinds, Known, Knows, Retention!Protects
<1>3. ASSUME j # Nil PROVE Knows(j, p)'
  BY <1>3 DEF Knows
<1> QED BY <1>1, <1>2, <1>3 DEF RetentionInv, RetentionKinds, Known

\* A session binds, moves, unbinds, or loses its binding file.
LEMMA OnlySession ==
  ASSUME RetentionInv, NEW s \in Sessions, NEW b \in Runs \cup {0}, NEW named \in SUBSET Runs,
         binding' = [binding EXCEPT ![s] = b], refs' = [refs EXCEPT ![s] = named],
         steady' = [p \in Cleaners |-> [steady[p] EXCEPT ![s] = Nil]], UNCHANGED <<dir, task>>
  PROVE  RetentionInv'
<1>1. RetentionKinds' /\ Remembered'
  BY DEF RetentionInv, RetentionKinds, Remembered
<1>2. ASSUME NEW p \in Cleaners, task[p] # Nil PROVE Knows(task[p], p)'
  BY <1>2 DEF RetentionInv, RetentionKinds, Known, Knows, Retention!Protects
<1> QED BY <1>1, <1>2 DEF RetentionInv, Known

LEMMA RunTyped == ASSUME RetentionKinds, NEW r \in Runs,
                         dir[r] # Nil PROVE dir[r] \in Retention!RunRecord
BY DEF RetentionKinds

LEMMA RunWrites ==
  ASSUME NEW d \in Retention!RunRecord, NEW st \in Retention!Statuses \cup {"none"},
         NEW b \in BOOLEAN
  PROVE  /\ [d EXCEPT !.age = d.age + 1] \in Retention!RunRecord
         /\ [d EXCEPT !.raw = b, !.age = 0] \in Retention!RunRecord
         /\ [d EXCEPT !.promoted = TRUE, !.age = 0] \in Retention!RunRecord
         /\ [d EXCEPT !.status = st] \in Retention!RunRecord
<1>1. [d EXCEPT !.age = d.age + 1] \in Retention!RunRecord
  BY DEF Retention!RunRecord
<1>2. [d EXCEPT !.raw = b, !.age = 0] \in Retention!RunRecord
  BY DEF Retention!RunRecord
<1>3. [d EXCEPT !.promoted = TRUE, !.age = 0] \in Retention!RunRecord
  BY DEF Retention!RunRecord
<1>4. [d EXCEPT !.status = st] \in Retention!RunRecord
  BY DEF Retention!RunRecord
<1> QED BY <1>1, <1>2, <1>3, <1>4

LEMMA TaskWrites ==
  ASSUME NEW j \in TaskRecord, NEW b \in BOOLEAN
  PROVE  [j EXCEPT !.at = "summary", !.raw = b] \in TaskRecord
BY DEF TaskRecord

LEMMA TaskTyped ==
  ASSUME RetentionKinds, NEW p \in Cleaners, task[p] # Nil
  PROVE  task[p] \in TaskRecord /\ task[p].run \in Runs
BY DEF RetentionKinds, TaskRecord

LEMMA RetentionStart == ASSUME Retention!Init PROVE RetentionInv
BY DEF Retention!Init, RetentionInv, RetentionKinds, Remembered, Known

LEMMA Beginning ==
  ASSUME RetentionInv, NEW p \in Cleaners, NEW j \in TaskRecord, Retention!Begin(p, j)
  PROVE  RetentionInv'
<1> DEFINE seen == [s \in Sessions |-> binding[s]]
<1>1. Retention!Look(j) \in TaskRecord /\ Retention!Look(j).todo = Sessions
  BY DEF Retention!Look, TaskRecord
<1>2. seen \in [Sessions -> Runs \cup {0, Nil}] /\ \A s \in Sessions : seen[s] = binding[s]
  BY DEF RetentionInv, RetentionKinds
<1>3. task' = [task EXCEPT ![p] = Retention!Look(j)] /\ steady' = [steady EXCEPT ![p] = seen]
      /\ UNCHANGED <<dir, binding, refs>>
  BY DEF Retention!Begin
<1>4. dir' \in [Runs -> Retention!RunRecord \cup {Nil}]
  BY <1>3 DEF RetentionInv, RetentionKinds
<1> HIDE DEF seen
<1> QED BY <1>1, <1>2, <1>3, <1>4, OnlyTask

LEMMA Ending ==
  ASSUME RetentionInv, NEW p \in Cleaners, Retention!End(p),
         dir' \in [Runs -> Retention!RunRecord \cup {Nil}], UNCHANGED <<binding, refs>>
  PROVE  RetentionInv'
<1> DEFINE none == [s \in Sessions |-> Nil]
<1>1. none \in [Sessions -> Runs \cup {0, Nil}] /\ \A s \in Sessions : none[s] = Nil
  OBVIOUS
<1>2. task' = [task EXCEPT ![p] = Nil] /\ steady' = [steady EXCEPT ![p] = none]
  BY DEF Retention!End
<1> HIDE DEF none
<1> QED BY <1>1, <1>2, OnlyTask

\* One more look at a session.
LEMMA Looking ==
  ASSUME RetentionInv, NEW p \in Cleaners, Retention!LookAt(p)
  PROVE  RetentionInv'
<1> DEFINE j == task[p]
<1>1. j # Nil /\ j \in TaskRecord
  BY TaskTyped DEF Retention!LookAt, RetentionInv
<1>2. PICK s \in task[p].todo :
        task' = [task EXCEPT ![p] = Retention!Saw(j, s)]
  BY DEF Retention!LookAt
<1> DEFINE k == Retention!Saw(j, s)
<1>3. k \in TaskRecord /\ k.todo = j.todo \ {s} /\ k.run = j.run /\ k.at = j.at
      /\ k.active = (j.active \/ Retention!Protects(s, j.run))
  BY <1>1 DEF TaskRecord, Retention!Saw
<1>4. Knows(j, p)
  BY <1>1 DEF RetentionInv, Known
<1>5. s \in Sessions /\ j.todo \subseteq Sessions
  BY <1>1, <1>2 DEF TaskRecord
<1>6. Knows(k, p)
  BY <1>3, <1>4, <1>5 DEF Knows
<1>7. task' = [task EXCEPT ![p] = k] /\ UNCHANGED <<dir, binding, refs, steady>>
  <2>1. UNCHANGED <<dir, binding, refs, steady>>
    BY DEF Retention!LookAt
  <2> QED BY <1>2, <2>1
<1> HIDE DEF k, j
<1>8. RetentionKinds' /\ Remembered'
  BY <1>3, <1>7 DEF RetentionInv, RetentionKinds, Remembered
<1>9. ASSUME NEW q \in Cleaners, NEW i, Knows(i, q) PROVE Knows(i, q)'
  BY <1>7, <1>9 DEF Knows, Retention!Protects
<1>10. Known'
  <2> SUFFICES ASSUME NEW q \in Cleaners, task'[q] # Nil PROVE Knows(task[q], q)'
    BY DEF Known
  <2>1. CASE q = p
    <3>1. PICK i : i = k
      OBVIOUS
    <3>2. task'[p] = i
      BY <1>7, <3>1 DEF RetentionInv, RetentionKinds
    <3>3. Knows(i, p)'
      BY <1>6, <1>9, <3>1
    <3> QED BY <2>1, <3>2, <3>3 DEF Knows
  <2>2. CASE q # p
    <3>1. task'[q] = task[q]
      BY <2>2, <1>7 DEF RetentionInv, RetentionKinds
    <3>2. Knows(task[q], q)
      BY <3>1 DEF RetentionInv, Known
    <3>3. Knows(task[q], q)' = Knows(task'[q], q)
      BY <1>7 DEF Knows, Retention!Protects
    <3> QED BY <3>1, <3>2, <3>3
  <2> QED BY <2>1, <2>2
<1> QED BY <1>8, <1>10 DEF RetentionInv

LEMMA RetentionKept == ASSUME RetentionInv, [Retention!Next]_kept PROVE RetentionInv'
<1>1. CASE Retention!Day
  <2>1. \A r \in Runs : dir[r] # Nil =>
          [dir[r] EXCEPT !.age = dir[r].age + 1] \in Retention!RunRecord
    BY RunTyped, RunWrites DEF RetentionInv
  <2>2. dir' \in [Runs -> Retention!RunRecord \cup {Nil}]
    BY <1>1, <2>1 DEF Retention!Day, RetentionInv, RetentionKinds, Retention!Existing
  <2> QED BY <1>1, <2>2, OnlyRuns DEF Retention!Day
<1>2. ASSUME NEW r \in Runs, Retention!NewRun(r) PROVE RetentionInv'
  BY <1>2, OnlyRuns DEF Retention!NewRun, Retention!NewRunDir, RetentionInv, RetentionKinds,
                        Retention!RunRecord
<1>3. ASSUME NEW r \in Runs, Retention!Work(r) PROVE RetentionInv'
  <2>1. [dir[r] EXCEPT !.raw = TRUE, !.age = 0] \in Retention!RunRecord
    BY <1>3, RunTyped, RunWrites DEF Retention!Work, RetentionInv
  <2>2. dir' \in [Runs -> Retention!RunRecord \cup {Nil}]
    BY <1>3, <2>1 DEF Retention!Work, RetentionInv, RetentionKinds
  <2> QED BY <1>3, <2>2, OnlyRuns DEF Retention!Work
<1>4. ASSUME NEW r \in Runs, Retention!Promote(r) PROVE RetentionInv'
  <2>1. [dir[r] EXCEPT !.promoted = TRUE, !.age = 0] \in Retention!RunRecord
    BY <1>4, RunTyped, RunWrites DEF Retention!Promote, RetentionInv
  <2>2. dir' \in [Runs -> Retention!RunRecord \cup {Nil}]
    BY <1>4, <2>1 DEF Retention!Promote, RetentionInv, RetentionKinds
  <2> QED BY <1>4, <2>2, OnlyRuns DEF Retention!Promote
<1>5. ASSUME NEW r \in Runs, NEW st \in Retention!Statuses, Retention!FinalizeDry(r,
             st) PROVE RetentionInv'
  BY <1>5, OnlyRuns DEF Retention!FinalizeDry, RetentionInv, RetentionKinds, Retention!RunRecord
<1>6. ASSUME NEW s \in Sessions, Retention!Damage(s) PROVE RetentionInv'
  <2>1. 0 \in Runs \cup {0} /\ {} \in SUBSET Runs
    OBVIOUS
  <2> QED BY <1>6, <2>1, OnlySession DEF Retention!Damage
<1>7. ASSUME NEW s \in Sessions, NEW b \in Runs \cup {0}, NEW n \in Named, Retention!Rebind(s, b,
             n) PROVE RetentionInv'
  BY RetentionAssumption, <1>7, OnlySession DEF Retention!Rebind, Retention!ConstantsAssumption
<1>8. ASSUME NEW p \in Cleaners, Retention!LookAt(p) PROVE RetentionInv'
  BY <1>8, Looking
<1>9. ASSUME NEW p \in Cleaners, Retention!PruneDecides(p) PROVE RetentionInv'
  <2> DEFINE j == task[p]
             k == [j EXCEPT !.at = "summary", !.raw = Retention!RawExpired(j)]
  <2>1. j \in TaskRecord /\ j.run \in Runs
    BY <1>9, TaskTyped DEF Retention!PruneDecides, Retention!Looked, RetentionInv
  <2>2. CASE Retention!End(p)
    <3>1. dir' \in [Runs -> Retention!RunRecord \cup {Nil}] /\ UNCHANGED <<binding, refs>>
      BY <1>9, <2>1 DEF Retention!PruneDecides, RetentionInv, RetentionKinds
    <3> QED BY <2>2, <3>1, Ending
  <2>3. CASE task' = [task EXCEPT ![p] = Retention!Look(k)] /\ UNCHANGED <<dir, steady>>
    <3>1. Retention!Look(k) \in TaskRecord /\ Retention!Look(k).todo = Sessions
      <4>1. k \in TaskRecord
        <5> DEFINE b == Retention!RawExpired(j)
        <5>1. b \in BOOLEAN
          BY DEF Retention!RawExpired
        <5> HIDE DEF b
        <5>2. [j EXCEPT !.at = "summary", !.raw = b] \in TaskRecord
          BY <2>1, <5>1, TaskWrites
        <5> QED BY <5>2 DEF b
      <4> HIDE DEF k
      <4> QED BY <4>1 DEF Retention!Look, TaskRecord
    <3>2. steady[p] \in [Sessions -> Runs \cup {0,
    Nil}] /\ steady' = [steady EXCEPT ![p] = steady[p]]
          /\ \A s \in Sessions : steady[p][s] # Nil => steady[p][s] = binding[s]
      BY <2>3 DEF RetentionInv, RetentionKinds, Remembered
    <3>3. dir' \in [Runs -> Retention!RunRecord \cup {Nil}] /\ UNCHANGED <<binding, refs>>
      BY <1>9, <2>3 DEF Retention!PruneDecides, RetentionInv, RetentionKinds
    <3> HIDE DEF k, j
    <3> QED BY <2>3, <3>1, <3>2, <3>3, OnlyTask
  <2> QED BY <1>9, <2>2, <2>3 DEF Retention!PruneDecides
<1>10. ASSUME NEW p \in Cleaners, Retention!PrunesRaw(p) PROVE RetentionInv'
  <2> DEFINE j == task[p]
             k == [j EXCEPT !.at = "write"]
  <2>1. j \in TaskRecord /\ j.run \in Runs
    BY <1>10, TaskTyped DEF Retention!PrunesRaw, Retention!Looked, RetentionInv
  <2>2. dir' \in [Runs -> Retention!RunRecord \cup {Nil}] /\ UNCHANGED <<binding, refs>>
    <3>1. CASE UNCHANGED dir
      BY <1>10, <3>1 DEF Retention!PrunesRaw, RetentionInv, RetentionKinds
    <3>2. CASE dir[j.run] # Nil /\ dir' = [dir EXCEPT ![j.run] = [@ EXCEPT !.raw = FALSE,
    !.age = 0]]
      <4>1. [dir[j.run] EXCEPT !.raw = FALSE, !.age = 0] \in Retention!RunRecord
        BY <2>1, <3>2, RunTyped, RunWrites DEF RetentionInv
      <4> QED BY <1>10, <2>1, <3>2, <4>1 DEF Retention!PrunesRaw, RetentionInv, RetentionKinds
    <3> QED BY <1>10, <3>1, <3>2 DEF Retention!PrunesRaw
  <2>3. CASE Retention!End(p)
    BY <2>2, <2>3, Ending
  <2>4. CASE task' = [task EXCEPT ![p] = k] /\ UNCHANGED steady
    <3>1. k \in TaskRecord /\ k.at = "write"
      BY <2>1 DEF TaskRecord
    <3>2. steady[p] \in [Sessions -> Runs \cup {0,
    Nil}] /\ steady' = [steady EXCEPT ![p] = steady[p]]
          /\ \A s \in Sessions : steady[p][s] # Nil => steady[p][s] = binding[s]
      BY <2>4 DEF RetentionInv, RetentionKinds, Remembered
    <3> HIDE DEF k, j
    <3> QED BY <2>2, <2>4, <3>1, <3>2, OnlyTask
  <2> QED BY <1>10, <2>3, <2>4 DEF Retention!PrunesRaw
<1>11. ASSUME NEW p \in Cleaners, Retention!WritesSummary(p) PROVE RetentionInv'
  <2>1. task[p] \in TaskRecord /\ task[p].run \in Runs
    BY <1>11, TaskTyped DEF Retention!WritesSummary, Retention!Looked, RetentionInv
  <2>2. dir' \in [Runs -> Retention!RunRecord \cup {Nil}] /\ UNCHANGED <<binding, refs>>
    BY <1>11, <2>1 DEF Retention!WritesSummary, RetentionInv, RetentionKinds, Retention!RunRecord,
                       TaskRecord
  <2> QED BY <1>11, <2>2, Ending DEF Retention!WritesSummary
<1>12. ASSUME NEW p \in Cleaners, Retention!Dies(p) PROVE RetentionInv'
  <2>1. task[p] \in TaskRecord /\ task[p].run \in Runs
    BY <1>12, TaskTyped DEF Retention!Dies, RetentionInv
  <2>2. dir' \in [Runs -> Retention!RunRecord \cup {Nil}] /\ UNCHANGED <<binding, refs>>
    <3>1. CASE UNCHANGED dir
      BY <1>12, <3>1 DEF Retention!Dies, RetentionInv, RetentionKinds
    <3>2. CASE dir[task[p].run] # Nil /\ dir' = [dir EXCEPT ![task[p].run].status = "none"]
      <4>1. [dir[task[p].run] EXCEPT !.status = "none"] \in Retention!RunRecord
        BY <2>1, <3>2, RunTyped, RunWrites DEF RetentionInv
      <4> QED BY <1>12, <2>1, <3>2, <4>1 DEF Retention!Dies, RetentionInv, RetentionKinds
    <3> QED BY <1>12, <3>1, <3>2 DEF Retention!Dies
  <2> QED BY <1>12, <2>2, Ending DEF Retention!Dies
<1>13. ASSUME NEW p \in Cleaners, NEW r \in Runs, Retention!PruneRun(p, r) PROVE RetentionInv'
  <2> DEFINE j == [run |-> r, status |-> dir[r].status, raw |-> FALSE, at |-> "prune", todo |-> {},
                   active |-> FALSE, bad |-> FALSE, rank |-> Retention!Rank(r)]
  <2>1. dir[r].status \in Retention!Statuses \cup {"none"} /\ Retention!Rank(r) \in Nat
    BY <1>13, RankCounts DEF Retention!PruneRun, RetentionInv, RetentionKinds, Retention!RunRecord
  <2>2. j \in TaskRecord
    BY <2>1 DEF TaskRecord
  <2>3. Retention!Begin(p, j)
    BY <1>13 DEF Retention!PruneRun
  <2> HIDE DEF j
  <2> QED BY <2>2, <2>3, Beginning
<1>14. ASSUME NEW p \in Cleaners, NEW r \in Runs, NEW st \in Retention!Statuses,
              Retention!FinalizeRun(p, r, st) PROVE RetentionInv'
  <2> DEFINE j == [run |-> r, status |-> st, raw |-> st = "success", at |-> "summary", todo |-> {},
                   active |-> FALSE, bad |-> FALSE, rank |-> 0]
  <2>2. j \in TaskRecord
    BY DEF TaskRecord
  <2>3. Retention!Begin(p, j)
    BY <1>14 DEF Retention!FinalizeRun
  <2> HIDE DEF j
  <2> QED BY <2>2, <2>3, Beginning
<1>15. CASE UNCHANGED kept
  BY <1>15 DEF kept, RetentionInv, RetentionKinds, Remembered, Known, Knows, Retention!Protects
<1> QED BY <1>1, <1>2, <1>3, <1>4, <1>5, <1>6, <1>7, <1>8, <1>9, <1>10, <1>11, <1>12, <1>13,
           <1>14, <1>15 DEF Retention!Next

\* A command that removes something has looked at every session, and found none.
LEMMA FoundNone ==
  ASSUME RetentionInv, NEW p \in Cleaners, task[p] # Nil, task[p].todo = {}, task[p].at # "write",
         ~task[p].active,
         NEW s \in Sessions, steady[p][s] \notin {Nil, 0}
  PROVE  steady[p][s] # task[p].run /\ task[p].run \notin refs[s]
<1>1. Knows(task[p], p)
  BY DEF RetentionInv, Known
<1>2. ~Retention!Protects(s, task[p].run)
  BY <1>1 DEF Knows
<1>3. steady[p][s] = binding[s]
  BY DEF RetentionInv, Remembered
<1> QED BY <1>2, <1>3 DEF Retention!Protects

LEMMA NotRemoved ==
  ASSUME NEW r,
         dir'[r] = dir[r] \/ (dir'[r] # Nil /\ (dir'[r].raw = TRUE \/ dir'[r].raw = dir[r].raw))
  PROVE  ~Retention!Removes(r)
BY DEF Retention!Removes

SparedBy(p, r) ==
  /\ ~dir[r].promoted
  /\ task[p] # Nil /\ task[p].run = r /\ task'[p] # task[p]
  /\ \A s \in Sessions : steady[p][s] \notin {Nil, 0} => steady[p][s] # r /\ r \notin refs[s]
  /\ dir'[r] = Nil => dir[r].age >= CompactTtl /\ task[p].status \in Retention!Statuses

\* Only a prune removes a run, and only a prune or finalize-run its raw artifacts.
LEMMA Spares == ASSUME RetentionInv, Retention!Next PROVE Retention!SparesBound
<1> SUFFICES ASSUME NEW r \in Runs, Retention!Removes(r) PROVE \E p \in Cleaners : SparedBy(p, r)
  BY DEF Retention!SparesBound, SparedBy
<1>0. dir[r] # Nil /\ dir[r] \in Retention!RunRecord /\ dir'[r] # dir[r]
  <2>1. dir[r] # Nil
    BY DEF Retention!Removes
  <2>2. dir'[r] # dir[r]
    BY NotRemoved
  <2> QED BY <2>1, <2>2 DEF RetentionInv, RetentionKinds
<1>1. CASE Retention!Day
  <2>1. dir'[r] = [dir[r] EXCEPT !.age = dir[r].age + 1]
    BY <1>0, <1>1 DEF Retention!Day, Retention!Existing
  <2>2. [dir[r] EXCEPT !.age = dir[r].age + 1] \in Retention!RunRecord
        /\ [dir[r] EXCEPT !.age = dir[r].age + 1].raw = dir[r].raw
    BY <1>0 DEF Retention!RunRecord
  <2> QED BY RetentionAssumption, <2>1, <2>2, NotRemoved DEF Retention!ConstantsAssumption
<1>2. ASSUME NEW q \in Runs,
             Retention!NewRun(q) \/ Retention!Work(q) \/ Retention!Promote(q) PROVE FALSE
  <2> DEFINE d == IF Retention!NewRun(q) THEN Retention!NewRunDir
                  ELSE IF Retention!Work(q) THEN [dir[q] EXCEPT !.raw = TRUE, !.age = 0]
                  ELSE [dir[q] EXCEPT !.promoted = TRUE, !.age = 0]
  <2>1. dir' = [dir EXCEPT ![q] = d]
    BY <1>2 DEF Retention!NewRun, Retention!Work, Retention!Promote
  <2>2. q = r /\ dir'[r] = d
    <3> HIDE DEF d
    <3> QED BY <1>0, <2>1 DEF RetentionInv, RetentionKinds
  <2>3. ~Retention!NewRun(q)
    BY <1>0, <2>2 DEF Retention!NewRun
  <2>4. d \in Retention!RunRecord /\ (d.raw = TRUE \/ d.raw = dir[r].raw)
    BY <1>0, <2>2, <2>3 DEF Retention!RunRecord
  <2> QED BY RetentionAssumption, <2>2, <2>4, NotRemoved DEF Retention!ConstantsAssumption
<1>3. ASSUME NEW q \in Runs, NEW st \in Retention!Statuses \cup {"none"}, dir[q] # Nil,
             dir' = [dir EXCEPT ![q].status = st]
      PROVE  FALSE
  <2> DEFINE d == [dir[q] EXCEPT !.status = st]
  <2>1. dir' = [dir EXCEPT ![q] = d]
    BY <1>3
  <2>2. q = r /\ dir'[r] = d
    <3> HIDE DEF d
    <3> QED BY <1>0, <2>1 DEF RetentionInv, RetentionKinds
  <2>3. d \in Retention!RunRecord /\ d.raw = dir[r].raw
    BY <1>0, <2>2 DEF Retention!RunRecord
  <2> QED BY RetentionAssumption, <2>2, <2>3, NotRemoved DEF Retention!ConstantsAssumption
<1>4. ASSUME NEW q \in Runs, NEW st \in Retention!Statuses, Retention!FinalizeDry(q, st) PROVE FALSE
  BY <1>3, <1>4 DEF Retention!FinalizeDry
<1>5. ASSUME NEW s \in Sessions, Retention!Damage(s) \/ \E b \in Runs \cup {0},
             n \in Named : Retention!Rebind(s, b, n)
      PROVE  FALSE
  BY <1>0, <1>5 DEF Retention!Damage, Retention!Rebind
<1>6. ASSUME NEW p \in Cleaners,
             Retention!LookAt(p) \/ (\E q \in Runs : Retention!PruneRun(p,
             q) \/ \E st \in Retention!Statuses : Retention!FinalizeRun(p, q, st))
      PROVE  FALSE
  BY <1>0, <1>6 DEF Retention!LookAt, Retention!PruneRun, Retention!FinalizeRun, Retention!Begin
<1>7. ASSUME NEW p \in Cleaners, Retention!WritesSummary(p) \/ Retention!Dies(p) PROVE FALSE
  <2>1. task[p] \in TaskRecord /\ task[p].run \in Runs
  /\ task[p].status \in Retention!Statuses \cup {"none"}
    BY <1>7, TaskTyped DEF Retention!WritesSummary, Retention!Dies, Retention!Looked,
                           RetentionInv, TaskRecord
  <2>2. dir' # dir
    BY <1>0
  <2>3. dir[task[p].run] # Nil
  /\ \E st \in Retention!Statuses \cup {"none"} : dir' = [dir EXCEPT ![task[p].run].status = st]
    BY <1>7, <2>1, <2>2 DEF Retention!WritesSummary, Retention!Dies
  <2> QED BY <1>3, <2>1, <2>3
<1>8. ASSUME NEW p \in Cleaners, Retention!PruneDecides(p) PROVE SparedBy(p, r)
  <2> DEFINE j == task[p]
  <2>1. j # Nil /\ j \in TaskRecord /\ j.run \in Runs /\ j.todo = {} /\ j.at = "prune"
    BY <1>8, TaskTyped DEF Retention!PruneDecides, Retention!Looked, RetentionInv
  <2>0. dir' # dir
    BY <1>0
  <2>2. /\ j.status \in Retention!Statuses /\ ~j.bad /\ ~j.active /\ ~dir[j.run].promoted
        /\ Retention!Expired(j) /\ dir' = [dir EXCEPT ![j.run] = Nil] /\ Retention!End(p)
    BY <1>8, <2>0 DEF Retention!PruneDecides
  <2>3. j.run = r
    BY <2>1, <2>2, <1>0 DEF RetentionInv, RetentionKinds
  <2>4. task'[p] = Nil
    BY <2>2 DEF Retention!End, RetentionInv, RetentionKinds
  <2>5. \A s \in Sessions : steady[p][s] \notin {Nil, 0} => steady[p][s] # r /\ r \notin refs[s]
    BY <2>1, <2>2, <2>3, FoundNone
  <2>6. dir[r].age >= CompactTtl
    BY <2>2, <2>3 DEF Retention!Expired
  <2> QED BY <2>1, <2>2, <2>3, <2>4, <2>5, <2>6 DEF SparedBy
<1>9. ASSUME NEW p \in Cleaners, Retention!PrunesRaw(p) PROVE SparedBy(p, r)
  <2> DEFINE j == task[p]
             d == [dir[j.run] EXCEPT !.raw = FALSE, !.age = 0]
  <2>1. j # Nil /\ j \in TaskRecord /\ j.run \in Runs /\ j.todo = {} /\ j.at = "summary"
    BY <1>9, TaskTyped DEF Retention!PrunesRaw, Retention!Looked, RetentionInv
  <2>0. dir' # dir
    BY <1>0
  <2>2. /\ dir[j.run] # Nil /\ Retention!Deletes(j) /\ dir' = [dir EXCEPT ![j.run] = d]
        /\ task' = [task EXCEPT ![p].at = "write"]
    BY <1>9, <2>0 DEF Retention!PrunesRaw
  <2>3. j.run = r /\ dir'[r] = d
    <3> HIDE DEF d, j
    <3> QED BY <2>1, <2>2, <1>0 DEF RetentionInv, RetentionKinds
  <2>4. task'[p] # task[p]
    <3>1. task'[p] = [j EXCEPT !.at = "write"]
      BY <2>2 DEF RetentionInv, RetentionKinds
    <3>2. [j EXCEPT !.at = "write"].at = "write"
      BY <2>1 DEF TaskRecord
    <3> QED BY <2>1, <3>1, <3>2
  <2>5. ~j.active /\ ~dir[r].promoted
    BY <2>2, <2>3 DEF Retention!Deletes
  <2>6. \A s \in Sessions : steady[p][s] \notin {Nil, 0} => steady[p][s] # r /\ r \notin refs[s]
    BY <2>1, <2>3, <2>5, FoundNone
  <2>7. dir'[r] # Nil
    <3>1. d \in Retention!RunRecord
      BY <1>0, <2>3 DEF Retention!RunRecord
    <3> QED BY RetentionAssumption, <2>3, <3>1 DEF Retention!ConstantsAssumption
  <2> QED BY <2>1, <2>3, <2>4, <2>5, <2>6, <2>7 DEF SparedBy
<1> QED BY <1>1, <1>2, <1>4, <1>5, <1>6, <1>7, <1>8, <1>9 DEF Retention!Next

\* Commands remember what they saw of bindings, whatever the behaviour is one of.
RetentionPart == part = "retention" => RetentionInv

LEMMA RetentionInit == AllInit => RetentionPart
BY RetentionStart, Zenon DEF AllInit, RetentionPart

LEMMA RetentionStep ==
  ASSUME RetentionPart, [AllNext]_AllVars
  PROVE  RetentionPart'
<1>1. part' = part
  BY DEF AllNext, AllVars
<1>2. part = "retention" => [Retention!Next]_kept
  BY DEF AllNext, AllVars
<1> QED BY <1>1, <1>2, RetentionKept, Zenon DEF RetentionPart

\* finalize-run and prune-runs take nothing from a run that a session was bound to, or a Context
\* named, since before they began and all the while, although they look at one binding after
\* the other and delete later (bound_run_protection, sejong_cleanup.py).
THEOREM BoundRunsStay == AllSpec => BoundRunsSurvive
<1> DEFINE Stands == part = "retention" => Retention!SparesBound
<1>1. RetentionPart /\ [AllNext]_AllVars => [Stands]_AllVars
  <2> SUFFICES ASSUME RetentionPart, AllNext, part = "retention" PROVE Retention!SparesBound
    OBVIOUS
  <2>1. Retention!Next /\ RetentionInv
    BY DEF AllNext, RetentionPart
  <2> QED BY <2>1, Spares
<1> QED BY <1>1, RetentionInit, RetentionStep, PTL DEF AllSpec, BoundRunsSurvive
=================================================================================
