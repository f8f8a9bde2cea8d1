---------------------------- MODULE StorageProofs ----------------------------
(***************************************************************************)
(* Proofs about the storage of the platform: the volumes (Volumes) and the *)
(* object store (Objects).  Each part is an instance of its own module;    *)
(* they share the names of some variables and nothing else.                *)
(***************************************************************************)
EXTENDS Storage, TLAPS

-----------------------------------------------------------------------------
(* Sequences of blocks.                                                     *)

\* Where the elements of a concatenation and of a part are.
LEMMA ConcatAt ==
  ASSUME NEW p \in Seq(Nat), NEW q \in Seq(Nat)
  PROVE  /\ p \o q \in Seq(Nat) /\ Len(p \o q) = Len(p) + Len(q)
         /\ \A j \in 1..Len(p) : (p \o q)[j] = p[j]
         /\ \A j \in 1..Len(q) : (p \o q)[Len(p) + j] = q[j]
OBVIOUS

LEMMA PrefixAt ==
  ASSUME NEW p \in Seq(Nat), NEW n \in Nat, n <= Len(p)
  PROVE  SubSeq(p, 1, n) \in Seq(Nat) /\ Len(SubSeq(p, 1, n)) = n /\ \A j \in 1..n : SubSeq(p, 1, n)[j] = p[j]
OBVIOUS

LEMMA SuffixAt ==
  ASSUME NEW p \in Seq(Nat), NEW k \in Nat, k > 0
  PROVE  /\ SubSeq(p, k, Len(p)) \in Seq(Nat)
         /\ Len(SubSeq(p, k, Len(p))) = IF k <= Len(p) THEN Len(p) - k + 1 ELSE 0
         /\ \A j \in 1..Len(SubSeq(p, k, Len(p))) : SubSeq(p, k, Len(p))[j] = p[k + j - 1]
OBVIOUS

LEMMA SeqSame ==
  ASSUME NEW p \in Seq(Nat), NEW q \in Seq(Nat), Len(p) = Len(q), \A j \in 1..Len(q) : p[j] = q[j]
  PROVE  p = q
BY SMTT(60)

\* A block of the source replaces one of the target, and those behind it stay.
LEMMA BlockCopied ==
  ASSUME NEW s \in Seq(Nat), NEW f \in Seq(Nat), NEW a \in Nat, a + 1 <= Len(s), a <= Len(f)
  PROVE  LET g == SubSeq(f, 1, a) \o <<s[a + 1]>> \o SubSeq(f, a + 2, Len(f))
         IN  /\ g \in Seq(Nat) /\ a + 1 <= Len(g)
             /\ \A o \in Seq(Nat) : f = SubSeq(s, 1, a) \o SubSeq(o, a + 1, Len(o))
                                      => g = SubSeq(s, 1, a + 1) \o SubSeq(o, a + 2, Len(o))
<1> DEFINE l == SubSeq(f, 1, a)
           m == <<s[a + 1]>>
           r == SubSeq(f, a + 2, Len(f))
           lm == l \o m
           g == lm \o r
<1>1. s[a + 1] \in Nat /\ Len(s) \in Nat /\ Len(f) \in Nat
  OBVIOUS
<1>2. l \in Seq(Nat) /\ Len(l) = a /\ \A j \in 1..a : l[j] = f[j]
  BY Zenon, PrefixAt
<1>3. m \in Seq(Nat) /\ Len(m) = 1 /\ m[1] = s[a + 1]
  BY <1>1
<1>4. /\ r \in Seq(Nat) /\ Len(r) = IF a + 2 <= Len(f) THEN Len(f) - a - 1 ELSE 0
      /\ \A j \in 1..Len(r) : r[j] = f[a + 1 + j]
  <2>1. a + 2 \in Nat /\ a + 2 > 0
    OBVIOUS
  <2>2. /\ r \in Seq(Nat) /\ Len(r) = IF a + 2 <= Len(f) THEN Len(f) - (a + 2) + 1 ELSE 0
        /\ \A j \in 1..Len(r) : r[j] = f[a + 2 + j - 1]
    BY Zenon, <2>1, SuffixAt
  <2>3. \A j \in 1..Len(r) : a + 2 + j - 1 = a + 1 + j
    OBVIOUS
  <2> HIDE DEF r
  <2>4. Len(r) = IF a + 2 <= Len(f) THEN Len(f) - a - 1 ELSE 0
    BY <1>1, <2>2
  <2> QED
    BY <2>2, <2>3, <2>4, Zenon
<1> HIDE DEF l, m, r
<1>5. lm \in Seq(Nat) /\ Len(lm) = a + 1 /\ (\A j \in 1..a : lm[j] = f[j]) /\ lm[a + 1] = s[a + 1]
  <2>1. /\ lm \in Seq(Nat) /\ Len(lm) = Len(l) + Len(m) /\ \A j \in 1..Len(l) : lm[j] = l[j]
        /\ \A j \in 1..Len(m) : lm[Len(l) + j] = m[j]
    BY <1>2, <1>3, ConcatAt, ZenonT(60)
  <2> HIDE DEF lm
  <2>2. Len(lm) = a + 1
    BY Zenon, <1>2, <1>3, <2>1
  <2>3. \A j \in 1..a : lm[j] = f[j]
    BY <1>2, <2>1, Zenon
  <2>4. lm[a + 1] = s[a + 1]
    <3>1. 1 \in 1..1
      OBVIOUS
    <3> QED
      BY <1>2, <1>3, <2>1, <3>1, Zenon
  <2> QED
    BY <2>1, <2>2, <2>3, <2>4, Zenon
<1> HIDE DEF lm
<1>6. /\ g \in Seq(Nat) /\ Len(g) = a + 1 + Len(r)
      /\ \A j \in 1..a : g[j] = f[j]
      /\ g[a + 1] = s[a + 1]
      /\ \A j \in 1..Len(r) : g[a + 1 + j] = f[a + 1 + j]
  <2>1. /\ g \in Seq(Nat) /\ Len(g) = Len(lm) + Len(r) /\ \A j \in 1..Len(lm) : g[j] = lm[j]
        /\ \A j \in 1..Len(r) : g[Len(lm) + j] = r[j]
    BY <1>4, <1>5, ConcatAt, ZenonT(60)
  <2> HIDE DEF g
  <2>2. \A j \in 1..(a + 1) : g[j] = lm[j]
    BY Zenon, <1>5, <2>1
  <2>3. (\A j \in 1..a : g[j] = f[j]) /\ g[a + 1] = s[a + 1]
    <3>1. a + 1 \in 1..(a + 1) /\ \A j \in 1..a : j \in 1..(a + 1)
      OBVIOUS
    <3> QED
      BY <1>5, <2>2, <3>1, Zenon
  <2>4. \A j \in 1..Len(r) : g[a + 1 + j] = f[a + 1 + j]
    BY <1>4, <1>5, <2>1, Zenon
  <2> QED
    BY Zenon, <1>5, <2>1, <2>3, <2>4
<1> HIDE DEF g
<1>7. ASSUME NEW o \in Seq(Nat), f = SubSeq(s, 1, a) \o SubSeq(o, a + 1, Len(o))
      PROVE  g = SubSeq(s, 1, a + 1) \o SubSeq(o, a + 2, Len(o))
  <2> DEFINE u == SubSeq(s, 1, a)
             v == SubSeq(o, a + 1, Len(o))
             x == SubSeq(s, 1, a + 1)
             y == SubSeq(o, a + 2, Len(o))
             h == x \o y
  <2>0. Len(o) \in Nat
    OBVIOUS
  <2>1. u \in Seq(Nat) /\ Len(u) = a /\ \A j \in 1..a : u[j] = s[j]
    BY <1>1, PrefixAt
  <2>2. /\ v \in Seq(Nat) /\ Len(v) = IF a + 1 <= Len(o) THEN Len(o) - a ELSE 0
        /\ \A j \in 1..Len(v) : v[j] = o[a + j]
    <3>1. a + 1 \in Nat /\ a + 1 > 0
      OBVIOUS
    <3>2. /\ v \in Seq(Nat) /\ Len(v) = IF a + 1 <= Len(o) THEN Len(o) - (a + 1) + 1 ELSE 0
          /\ \A j \in 1..Len(v) : v[j] = o[a + 1 + j - 1]
      BY Zenon, <3>1, SuffixAt
    <3>3. \A j \in 1..Len(v) : a + 1 + j - 1 = a + j
      OBVIOUS
    <3> HIDE DEF v
    <3>4. Len(v) = IF a + 1 <= Len(o) THEN Len(o) - a ELSE 0
      BY <2>0, <3>2
    <3> QED
      BY <3>2, <3>3, <3>4, Zenon
  <2>3. x \in Seq(Nat) /\ Len(x) = a + 1 /\ \A j \in 1..(a + 1) : x[j] = s[j]
    BY SMTT(60), <1>1, PrefixAt
  <2>4. /\ y \in Seq(Nat) /\ Len(y) = IF a + 2 <= Len(o) THEN Len(o) - a - 1 ELSE 0
        /\ \A j \in 1..Len(y) : y[j] = o[a + 1 + j]
    <3>1. a + 2 \in Nat /\ a + 2 > 0
      OBVIOUS
    <3>2. /\ y \in Seq(Nat) /\ Len(y) = IF a + 2 <= Len(o) THEN Len(o) - (a + 2) + 1 ELSE 0
          /\ \A j \in 1..Len(y) : y[j] = o[a + 2 + j - 1]
      BY Zenon, <3>1, SuffixAt
    <3>3. \A j \in 1..Len(y) : a + 2 + j - 1 = a + 1 + j
      OBVIOUS
    <3> HIDE DEF y
    <3>4. Len(y) = IF a + 2 <= Len(o) THEN Len(o) - a - 1 ELSE 0
      BY <2>0, <3>2
    <3> QED
      BY <3>2, <3>3, <3>4, Zenon
  <2>5. f = u \o v
    BY Zenon, <1>7
  <2> HIDE DEF u, v, x, y
  <2>6. /\ Len(f) = a + Len(v) /\ \A j \in 1..a : f[j] = s[j]
        /\ \A j \in 1..Len(v) : f[a + j] = o[a + j]
    <3> DEFINE uv == u \o v
    <3>1. /\ Len(uv) = Len(u) + Len(v) /\ \A j \in 1..Len(u) : uv[j] = u[j]
          /\ \A j \in 1..Len(v) : uv[Len(u) + j] = v[j]
      BY <2>1, <2>2, ConcatAt, ZenonT(60)
    <3>2. f = uv
      BY Zenon, <2>5
    <3> HIDE DEF uv
    <3> QED
      BY <2>1, <2>2, <3>1, <3>2, Zenon
  <2>7. /\ h \in Seq(Nat) /\ Len(h) = a + 1 + Len(y)
        /\ \A j \in 1..(a + 1) : h[j] = s[j]
        /\ \A j \in 1..Len(y) : h[a + 1 + j] = o[a + 1 + j]
    <3>1. /\ h \in Seq(Nat) /\ Len(h) = Len(x) + Len(y) /\ \A j \in 1..Len(x) : h[j] = x[j]
          /\ \A j \in 1..Len(y) : h[Len(x) + j] = y[j]
      BY <2>3, <2>4, ConcatAt, ZenonT(60)
    <3> HIDE DEF h
    <3> QED
      BY <2>3, <2>4, <3>1, Zenon
  <2> HIDE DEF h
  <2>8. Len(y) = Len(r) /\ Len(v) \in Nat /\ Len(y) \in Nat
    <3>1. /\ Len(v) = IF a + 1 <= Len(o) THEN Len(o) - a ELSE 0
          /\ Len(y) = IF a + 2 <= Len(o) THEN Len(o) - a - 1 ELSE 0
          /\ Len(r) = IF a + 2 <= Len(f) THEN Len(f) - a - 1 ELSE 0
          /\ Len(f) = a + Len(v)
      BY Zenon, <1>4, <2>2, <2>4, <2>6
    <3>2. CASE a + 2 <= Len(o)
      BY <2>0, <3>1, <3>2
    <3>3. CASE a + 1 = Len(o)
      BY SMTT(60), <2>0, <3>1, <3>3
    <3>4. CASE Len(o) <= a
      BY SMTT(60), <2>0, <3>1, <3>4
    <3> QED
      BY <2>0, <3>2, <3>3, <3>4
  <2>9. ASSUME NEW j \in 1..Len(h) PROVE g[j] = h[j]
    <3>1. CASE j \in 1..a
      <4>1. j \in 1..(a + 1)
        BY <3>1
      <4> QED
        BY <1>6, <2>6, <2>7, <3>1, <4>1, Zenon
    <3>2. CASE j = a + 1
      <4>1. a + 1 \in 1..(a + 1)
        OBVIOUS
      <4> QED
        BY <1>6, <2>7, <3>2, <4>1, Zenon
    <3>3. CASE j > a + 1
      <4>1. PICK k \in 1..Len(y) : j = a + 1 + k
        <5>1. j - a - 1 \in 1..Len(y) /\ j = a + 1 + (j - a - 1)
          BY <2>7, <2>8, <3>3
        <5> QED
          BY Zenon, <5>1
      <4>2. g[j] = f[j] /\ h[j] = o[j]
        BY Zenon, <1>6, <2>7, <2>8, <4>1
      <4>3. k + 1 \in 1..Len(v) /\ a + (k + 1) = j
        <5>1. /\ Len(v) = IF a + 1 <= Len(o) THEN Len(o) - a ELSE 0
              /\ Len(y) = IF a + 2 <= Len(o) THEN Len(o) - a - 1 ELSE 0
          BY Zenon, <2>2, <2>4
        <5> QED
          BY <2>0, <4>1, <5>1
      <4>4. f[a + (k + 1)] = o[a + (k + 1)]
        BY Zenon, <2>6, <4>3
      <4> QED
        BY Zenon, <4>2, <4>3, <4>4
    <3>4. j \in 1..a \/ j = a + 1 \/ j > a + 1
      <4>1. Len(h) \in Nat
        BY <2>7
      <4> QED
        BY <4>1
    <3> QED
      BY Zenon, <3>1, <3>2, <3>3, <3>4
  <2>10. Len(g) = Len(h) /\ g \in Seq(Nat) /\ h \in Seq(Nat)
    BY Zenon, <1>6, <2>7, <2>8
  <2>11. g = h
    BY Zenon, <2>9, <2>10, SeqSame
  <2> QED
    BY Zenon, <2>11 DEF h, x, y
<1>8. a + 1 <= Len(g)
  <2>1. Len(r) \in Nat /\ Len(g) = a + 1 + Len(r)
    BY <1>4, <1>6
  <2> QED
    BY <2>1
<1> QED
  BY <1>6, <1>7, <1>8, Zenon DEF g, lm, l, m, r

-----------------------------------------------------------------------------
(* The volumes.                                                             *)

Changing == {"touch", "remove", "attach", "detach"}
Updating == {"attach", "detach"}
CallFields == {"pc", "id", "size", "v", "dst", "old", "at", "alone"}
RecFields == {"node", "inUse", "size", "ver"}

VolCall(c) ==
  /\ DOMAIN c = CallFields
  /\ c.pc \in Changing \cup {"copy"} => c.id \in Ids
  /\ c.pc = "touch" => c.size \in Sizes
  /\ c.pc \in Updating => DOMAIN c.v = RecFields

VolTypes ==
  /\ call = [p \in Procs |-> call[p]] /\ \A p \in Procs : VolCall(call[p])
  /\ rec = [i \in Ids |-> rec[i]] /\ \A i \in Ids : rec[i] # None => DOMAIN rec[i] = RecFields
  /\ file = [i \in Ids |-> file[i]] /\ \A i \in Ids : file[i] # None => file[i] \in Seq(Nat)
  /\ writes \in Nat

\* The one Snapshot that holds the mutex copies between two files.
Copying ==
  /\ mu \in Procs \cup {None}
  /\ \A p \in Procs : call[p].pc = "copy" <=> mu = p
  /\ \A p \in Procs : call[p].pc = "copy" =>
       /\ call[p].dst \in Ids /\ call[p].id # call[p].dst
       /\ file[call[p].id] # None /\ file[call[p].dst] # None
       /\ call[p].at \in Nat /\ call[p].at <= Len(file[call[p].id]) /\ call[p].at <= Len(file[call[p].dst])
       /\ call[p].old \in Seq(Nat)

\* The target of a Snapshot is no volume, or one that is being created, unless
\* it counts as broken.
Targets ==
  \A p \in Procs : call[p].pc = "copy" =>
    \/ call[p].dst \in broken
    \/ rec[call[p].dst] = None
    \/ \E q \in Procs : call[q].pc = "touch" /\ call[q].id = call[p].dst

\* A call that no rival disturbed finds the record as it left it.
CreateAlone(p) ==
  call[p].alone /\ call[p].pc = "touch" =>
    /\ rec[call[p].id] # None => rec[call[p].id].size = call[p].size
    /\ \A q \in Procs : call[q].pc \in Updating /\ call[q].id = call[p].id => call[q].v.size = call[p].size
DeleteAlone(p) ==
  call[p].alone /\ call[p].pc = "remove" => rec[call[p].id] = None
UpdateAlone(p) ==
  call[p].alone /\ call[p].pc \in Updating =>
    /\ \A q \in Procs : call[q].pc \in {"touch", "remove"} => call[q].id # call[p].id
    /\ call[p].id \notin broken /\ rec[call[p].id] # None => rec[call[p].id].size = call[p].v.size
Undisturbed == \A p \in Procs : CreateAlone(p) /\ DeleteAlone(p) /\ UpdateAlone(p)

\* The target of an undisturbed copy, block by block: the part copied from the
\* source, and behind it what the target had before.
CopySoFar ==
  mu # None /\ source # None =>
    LET c == call[mu]
    IN /\ file[c.id] = source
       /\ file[c.dst] = SubSeq(source, 1, c.at) \o SubSeq(c.old, c.at + 1, Len(c.old))

VolInv == VolTypes /\ Copying /\ Targets /\ Undisturbed /\ Vol!VolumeHasFile /\ CopySoFar

LEMMA VolInit ==
  ASSUME Vol!NoneAssumption, Vol!Init
  PROVE  VolInv
<1>1. \A p \in Procs : call[p] = Vol!Idle /\ Vol!Idle.pc = "idle" /\ DOMAIN Vol!Idle = CallFields
  BY Zenon DEF Vol!Init, Vol!Idle, CallFields
<1>2. VolTypes /\ Copying
  BY Zenon, <1>1 DEF Vol!Init, VolTypes, VolCall, Copying, Changing, Updating, Vol!NoneAssumption
<1>3. Targets /\ Undisturbed
  BY Zenon, <1>1 DEF Targets, Undisturbed, CreateAlone, DeleteAlone, UpdateAlone, Updating
<1>4. Vol!VolumeHasFile /\ CopySoFar
  BY Zenon DEF Vol!Init, Vol!VolumeHasFile, CopySoFar
<1> QED
  BY Zenon, <1>2, <1>3, <1>4 DEF VolInv

\* What Truncate returns has the size that it is given.
LEMMA TruncateSizes ==
  ASSUME NEW f \in Seq(Nat), NEW n \in Nat
  PROVE  Vol!Truncate(f, n) \in Seq(Nat) /\ Len(Vol!Truncate(f, n)) = n
<1>1. Vol!Truncate(f, n) \in [1..n -> Nat]
  BY DEF Vol!Truncate
<1> QED
  BY <1>1

\* What Start makes of the calls: a rival of a Create or Delete is disturbed,
\* and so is the new call if it is one or meets one.
Same(c, d) ==
  /\ DOMAIN c = DOMAIN d /\ c.pc = d.pc /\ c.id = d.id /\ c.size = d.size /\ c.v = d.v
  /\ c.dst = d.dst /\ c.old = d.old /\ c.at = d.at
  /\ d.alone => c.alone

LEMMA VolStart ==
  ASSUME VolTypes, NEW p \in Procs, NEW c, DOMAIN c = CallFields, c.alone, Vol!Start(p, c)
  PROVE  /\ call[p].pc = "idle" /\ call' = [q \in Procs |-> call'[q]] /\ Same(c, call'[p])
         /\ \A q \in Procs \ {p} : Same(call[q], call'[q])
         /\ \A q \in Procs \ {p} : call[q].pc \in Changing /\ call[q].id = c.id =>
              /\ c.pc \in {"touch", "remove"} => ~call'[q].alone
              /\ call'[p].alone => c.pc # "touch" /\ call[q].pc \notin {"touch", "remove"}
<1>1. Vol!Rivals(p, c.id) = {q \in Procs \ {p} : call[q].pc \in Changing /\ call[q].id = c.id}
  BY Zenon DEF Vol!Rivals, Changing
<1>2. /\ call[p].pc = "idle" /\ call' = [q \in Procs |-> call'[q]]
      /\ call'[p] = [c EXCEPT !.alone = \A r \in Vol!Rivals(p, c.id) : c.pc # "touch" /\ call[r].pc \notin {"touch", "remove"}]
      /\ \A q \in Procs \ {p} :
           call'[q] = IF q \in Vol!Rivals(p, c.id) /\ c.pc \in {"touch", "remove"} THEN [call[q] EXCEPT !.alone = FALSE] ELSE call[q]
  BY Zenon DEF Vol!Start
<1>3. Same(c, call'[p])
  BY <1>2 DEF Same, CallFields
<1>4. ASSUME NEW q \in Procs \ {p} PROVE Same(call[q], call'[q])
  BY <1>2 DEF Same, CallFields, VolTypes, VolCall
<1>5. ASSUME NEW q \in Procs \ {p}, call[q].pc \in Changing, call[q].id = c.id
      PROVE  /\ c.pc \in {"touch", "remove"} => ~call'[q].alone
             /\ call'[p].alone => c.pc # "touch" /\ call[q].pc \notin {"touch", "remove"}
  <2>1. q \in Vol!Rivals(p, c.id)
    BY Zenon, <1>1, <1>5
  <2>2. c.pc \in {"touch", "remove"} => ~call'[q].alone
    BY ZenonT(60), <1>2, <2>1 DEF VolTypes, VolCall, CallFields
  <2>3. call'[p].alone => \A r \in Vol!Rivals(p, c.id) : c.pc # "touch" /\ call[r].pc \notin {"touch", "remove"}
    BY Zenon, <1>2 DEF CallFields
  <2> QED
    BY Zenon, <2>1, <2>2, <2>3
<1> QED
  BY Zenon, <1>2, <1>3, <1>4, <1>5

\* A step that leaves the Snapshot under way and the files alone.
SameCopy(c, d) == c.pc = d.pc /\ c.id = d.id /\ c.dst = d.dst /\ c.old = d.old /\ c.at = d.at

LEMMA CopyGoesOn ==
  ASSUME VolInv, UNCHANGED <<file, mu, source>>,
         \A q \in Procs : "copy" \in {call[q].pc, call'[q].pc} => SameCopy(call[q], call'[q])
  PROVE  Copying' /\ CopySoFar'
<1>1. Copying'
  BY ZenonT(60) DEF VolInv, Copying, SameCopy
<1>2. CopySoFar'
  <2> SUFFICES ASSUME mu' # None, source' # None
               PROVE  /\ file'[call'[mu'].id] = source'
                      /\ file'[call'[mu'].dst] = SubSeq(source', 1, call'[mu'].at) \o SubSeq(call'[mu'].old, call'[mu'].at + 1, Len(call'[mu'].old))
    BY Zenon DEF CopySoFar
  <2>1. mu \in Procs /\ call[mu].pc = "copy" /\ SameCopy(call[mu], call'[mu])
    BY Zenon DEF VolInv, Copying
  <2> QED
    BY Zenon, <2>1 DEF VolInv, CopySoFar, SameCopy
<1> QED
  BY Zenon, <1>1, <1>2

\* Where no Snapshot is under way.
LEMMA NoCopy ==
  ASSUME VolInv, mu' = None, Vol!NoneAssumption, \A q \in Procs : call'[q].pc # "copy"
  PROVE  Copying' /\ Targets' /\ CopySoFar'
BY Zenon DEF Copying, Targets, CopySoFar, Vol!NoneAssumption

\* A call goes on undisturbed where its record stays and no rival came.
LEMMA AloneStays ==
  ASSUME VolInv, NEW q \in Procs, Same(call[q], call'[q]), call'[q].alone, call[q].pc \in Changing,
         rec'[call[q].id] = rec[call[q].id],
         call[q].pc \in Updating /\ call[q].id \in broken => call[q].id \in broken',
         \A r \in Procs : call'[r].pc \in Updating /\ call'[r].id = call[q].id /\ call[q].pc = "touch" =>
            \/ call[r].pc \in Updating /\ call[r].id = call'[r].id /\ call[r].v = call'[r].v
            \/ call'[r].v.size = call[q].size,
         \A r \in Procs : call'[r].pc \in {"touch", "remove"} /\ call'[r].id = call[q].id /\ call[q].pc \in Updating =>
            call[r].pc \in {"touch", "remove"} /\ call[r].id = call'[r].id
  PROVE  CreateAlone(q)' /\ DeleteAlone(q)' /\ UpdateAlone(q)'
<1>1. /\ call[q].alone /\ call'[q].pc = call[q].pc /\ call'[q].id = call[q].id
      /\ call'[q].size = call[q].size /\ call'[q].v = call[q].v
  BY Zenon DEF Same
<1>2. CreateAlone(q) /\ DeleteAlone(q) /\ UpdateAlone(q)
  BY Zenon DEF VolInv, Undisturbed
<1>3. CreateAlone(q)'
  BY <1>1, <1>2 DEF CreateAlone
<1>4. DeleteAlone(q)'
  BY Zenon, <1>1, <1>2 DEF DeleteAlone
<1>5. UpdateAlone(q)'
  BY ZenonT(60), <1>1, <1>2 DEF UpdateAlone
<1> QED
  BY Zenon, <1>3, <1>4, <1>5

\* Create: nothing else has the record.
LEMMA VolBeginCreate ==
  ASSUME VolInv, NEW p \in Procs, NEW i \in Ids, NEW s \in Sizes, NEW n \in Nodes, Vol!BeginCreate(p, i, s, n)
  PROVE  VolInv'
<1> DEFINE c == [Vol!Idle EXCEPT !.pc = "touch", !.id = i, !.size = s]
<1>1. Vol!Start(p, c) /\ UNCHANGED <<file, mu, broken, source, stops, writes>>
  BY Zenon DEF Vol!BeginCreate
<1>2. c.pc = "touch" /\ c.id = i /\ c.size = s /\ c.alone = TRUE /\ DOMAIN c = CallFields
  BY Zenon DEF Vol!Idle, CallFields
<1> HIDE DEF c
<1>3. /\ call[p].pc = "idle" /\ call' = [q \in Procs |-> call'[q]] /\ Same(c, call'[p])
      /\ \A q \in Procs \ {p} : Same(call[q], call'[q])
      /\ \A q \in Procs \ {p} : call[q].pc \in Changing /\ call[q].id = i => ~call'[q].alone /\ ~call'[p].alone
  BY Zenon, <1>1, <1>2, VolStart DEF VolInv
<1>4. /\ rec' = [j \in Ids |-> rec'[j]]
      /\ rec'[i] # None => DOMAIN rec'[i] = RecFields /\ rec'[i].size = s
      /\ \A j \in Ids \ {i} : rec'[j] = rec[j]
  BY Zenon DEF VolInv, VolTypes, Vol!BeginCreate, RecFields
<1>5. /\ call'[p].pc = "touch" /\ call'[p].id = i /\ call'[p].size = s /\ VolCall(call'[p])
      /\ \A q \in Procs : call'[q].pc # call[q].pc => q = p
  BY Zenon, <1>2, <1>3 DEF Same, VolCall, Updating
<1>6. VolTypes'
  <2>1. ASSUME NEW q \in Procs PROVE VolCall(call'[q])
    BY <1>3, <1>5 DEF VolInv, VolTypes, Same, VolCall
  <2> QED
    BY Zenon, <1>1, <1>3, <1>4, <2>1 DEF VolInv, VolTypes
<1>7. Copying' /\ CopySoFar'
  BY ZenonT(60), <1>1, <1>3, <1>5, CopyGoesOn DEF Same, SameCopy
<1>8. Targets'
  <2> SUFFICES ASSUME NEW q \in Procs, call'[q].pc = "copy", call'[q].dst # i
               PROVE  \/ call'[q].dst \in broken' \/ rec'[call'[q].dst] = None
                      \/ \E r \in Procs : call'[r].pc = "touch" /\ call'[r].id = call'[q].dst
    BY Zenon, <1>5 DEF Targets
  <2>1. q # p /\ call[q].pc = "copy" /\ call[q].dst = call'[q].dst /\ call[q].dst \in Ids
    BY <1>3, <1>5 DEF Same, VolInv, Copying
  <2>2. \A r \in Procs : call[r].pc = "touch" => call'[r].pc = "touch" /\ call'[r].id = call[r].id
    BY Zenon, <1>3 DEF Same
  <2> QED
    BY <1>1, <1>4, <2>1, <2>2 DEF VolInv, Targets
<1>9. Undisturbed'
  <2> SUFFICES ASSUME NEW q \in Procs, call'[q].alone, call'[q].pc \in Changing
               PROVE  CreateAlone(q)' /\ DeleteAlone(q)' /\ UpdateAlone(q)'
    BY Zenon DEF Undisturbed, CreateAlone, DeleteAlone, UpdateAlone, Changing, Updating
  <2>1. CASE q = p
    <3>1. \A r \in Procs : call'[r].pc \in Updating => call'[r].id # i
      BY <1>3, <1>5, <2>1 DEF Same, Updating, Changing
    <3> QED
      BY Zenon, <1>4, <1>5, <2>1, <3>1 DEF CreateAlone, DeleteAlone, UpdateAlone, Updating
  <2>2. CASE q # p
    <3>1. Same(call[q], call'[q]) /\ call[q].pc \in Changing /\ call[q].id \in Ids /\ call[q].id # i
      BY Zenon, <1>3, <2>2 DEF Same, VolInv, VolTypes, VolCall
    <3>2. /\ \A r \in Procs : call'[r].pc \in Updating => call[r].pc \in Updating /\ call[r].id = call'[r].id /\ call[r].v = call'[r].v
          /\ \A r \in Procs : call'[r].pc \in {"touch", "remove"} /\ call'[r].id = call[q].id =>
                call[r].pc \in {"touch", "remove"} /\ call[r].id = call'[r].id
      BY ZenonT(60), <1>3, <1>5, <3>1 DEF Same, Updating
    <3> QED
      BY Zenon, <1>1, <1>4, <3>1, <3>2, AloneStays
  <2> QED
    BY Zenon, <2>1, <2>2
<1>10. Vol!VolumeHasFile'
  <2> SUFFICES ASSUME NEW j \in Ids \ broken', rec'[j] # None, \A q \in Procs : call'[q].pc = "touch" => call'[q].id # j
               PROVE  file'[j] # None /\ Len(file'[j]) = rec'[j].size
    BY Zenon DEF Vol!VolumeHasFile
  <2>1. j # i /\ rec'[j] = rec[j]
    BY Zenon, <1>4, <1>5
  <2>2. \A q \in Procs : call[q].pc = "touch" => call[q].id # j
    BY <1>3 DEF Same
  <2> QED
    BY Zenon, <1>1, <2>1, <2>2 DEF VolInv, Vol!VolumeHasFile
<1> QED
  BY Zenon, <1>6, <1>7, <1>8, <1>9, <1>10 DEF VolInv

\* Delete: the record goes, and a Delete that is undisturbed finds none.
LEMMA VolBeginDelete ==
  ASSUME VolInv, NEW p \in Procs, NEW i \in Ids, Vol!BeginDelete(p, i)
  PROVE  VolInv'
<1> DEFINE c == [Vol!Idle EXCEPT !.pc = "remove", !.id = i]
<1>1. Vol!Start(p, c) /\ UNCHANGED <<file, mu, broken, source, stops, writes>>
  BY Zenon DEF Vol!BeginDelete
<1>2. c.pc = "remove" /\ c.id = i /\ c.alone = TRUE /\ DOMAIN c = CallFields
  BY Zenon DEF Vol!Idle, CallFields
<1> HIDE DEF c
<1>3. /\ call[p].pc = "idle" /\ call' = [q \in Procs |-> call'[q]] /\ Same(c, call'[p])
      /\ \A q \in Procs \ {p} : Same(call[q], call'[q])
      /\ \A q \in Procs \ {p} : call[q].pc \in Changing /\ call[q].id = i => ~call'[q].alone
  BY Zenon, <1>1, <1>2, VolStart DEF VolInv
<1>4. rec' = [j \in Ids |-> rec'[j]] /\ rec'[i] = None /\ \A j \in Ids \ {i} : rec'[j] = rec[j]
  BY Zenon DEF VolInv, VolTypes, Vol!BeginDelete
<1>5. /\ call'[p].pc = "remove" /\ call'[p].id = i /\ VolCall(call'[p])
      /\ \A q \in Procs : call'[q].pc # call[q].pc => q = p
  BY Zenon, <1>2, <1>3 DEF Same, VolCall, Updating
<1>6. VolTypes'
  <2>1. ASSUME NEW q \in Procs PROVE VolCall(call'[q])
    BY <1>3, <1>5 DEF VolInv, VolTypes, Same, VolCall
  <2> QED
    BY Zenon, <1>1, <1>3, <1>4, <2>1 DEF VolInv, VolTypes
<1>7. Copying' /\ CopySoFar'
  BY ZenonT(60), <1>1, <1>3, <1>5, CopyGoesOn DEF Same, SameCopy
<1>8. Targets'
  <2> SUFFICES ASSUME NEW q \in Procs, call'[q].pc = "copy"
               PROVE  \/ call'[q].dst \in broken' \/ rec'[call'[q].dst] = None
                      \/ \E r \in Procs : call'[r].pc = "touch" /\ call'[r].id = call'[q].dst
    BY Zenon DEF Targets
  <2>1. q # p /\ call[q].pc = "copy" /\ call[q].dst = call'[q].dst /\ call[q].dst \in Ids
    BY <1>3, <1>5 DEF Same, VolInv, Copying
  <2>2. \A r \in Procs : call[r].pc = "touch" => call'[r].pc = "touch" /\ call'[r].id = call[r].id
    BY Zenon, <1>3 DEF Same
  <2> QED
    BY <1>1, <1>4, <2>1, <2>2 DEF VolInv, Targets
<1>9. Undisturbed'
  <2> SUFFICES ASSUME NEW q \in Procs, call'[q].alone, call'[q].pc \in Changing
               PROVE  CreateAlone(q)' /\ DeleteAlone(q)' /\ UpdateAlone(q)'
    BY Zenon DEF Undisturbed, CreateAlone, DeleteAlone, UpdateAlone, Changing, Updating
  <2>1. CASE q = p
    BY Zenon, <1>4, <1>5, <2>1 DEF CreateAlone, DeleteAlone, UpdateAlone, Updating
  <2>2. CASE q # p
    <3>1. Same(call[q], call'[q]) /\ call[q].pc \in Changing /\ call[q].id \in Ids /\ call[q].id # i
      BY ZenonT(60), <1>3, <2>2 DEF Same, VolInv, VolTypes, VolCall
    <3>2. /\ \A r \in Procs : call'[r].pc \in Updating => call[r].pc \in Updating /\ call[r].id = call'[r].id /\ call[r].v = call'[r].v
          /\ \A r \in Procs : call'[r].pc \in {"touch", "remove"} /\ call'[r].id = call[q].id =>
                call[r].pc \in {"touch", "remove"} /\ call[r].id = call'[r].id
      BY <1>3, <1>5, <3>1 DEF Same, Updating
    <3> QED
      BY Zenon, <1>1, <1>4, <3>1, <3>2, AloneStays
  <2> QED
    BY Zenon, <2>1, <2>2
<1>10. Vol!VolumeHasFile'
  <2> SUFFICES ASSUME NEW j \in Ids \ broken', rec'[j] # None, \A q \in Procs : call'[q].pc = "touch" => call'[q].id # j
               PROVE  file'[j] # None /\ Len(file'[j]) = rec'[j].size
    BY Zenon DEF Vol!VolumeHasFile
  <2>1. rec'[j] = rec[j]
    BY Zenon, <1>4
  <2>2. \A q \in Procs : call[q].pc = "touch" => call[q].id # j
    BY <1>3 DEF Same
  <2> QED
    BY Zenon, <1>1, <2>1, <2>2 DEF VolInv, Vol!VolumeHasFile
<1> QED
  BY Zenon, <1>6, <1>7, <1>8, <1>9, <1>10 DEF VolInv

\* Attach and Detach have read the record.
LEMMA VolBeginUpdate ==
  ASSUME VolInv, NEW p \in Procs, NEW i \in Ids, NEW c, Vol!Start(p, c),
         UNCHANGED <<rec, file, mu, broken, source, stops, writes>>, rec[i] # None,
         DOMAIN c = CallFields, c.pc \in Updating, c.id = i, c.alone, DOMAIN c.v = RecFields, c.v.size = rec[i].size
  PROVE  VolInv'
<1>1. /\ call[p].pc = "idle" /\ call' = [q \in Procs |-> call'[q]] /\ Same(c, call'[p])
      /\ \A q \in Procs \ {p} : Same(call[q], call'[q])
      /\ \A q \in Procs \ {p} : call[q].pc \in Changing /\ call[q].id = i /\ call'[p].alone =>
            call[q].pc \notin {"touch", "remove"}
  BY Zenon, VolStart DEF VolInv
<1>2. /\ call'[p].pc \in Updating /\ call'[p].id = i /\ call'[p].v = c.v /\ VolCall(call'[p])
      /\ \A q \in Procs : call'[q].pc # call[q].pc => q = p
  BY Zenon, <1>1 DEF Same, VolCall, Updating
<1>3. VolTypes'
  <2>1. ASSUME NEW q \in Procs PROVE VolCall(call'[q])
    BY ZenonT(60), <1>1, <1>2 DEF VolInv, VolTypes, Same, VolCall
  <2> QED
    BY Zenon, <1>1, <2>1 DEF VolInv, VolTypes
<1>4. Copying' /\ CopySoFar'
  BY ZenonT(60), <1>1, <1>2, CopyGoesOn DEF Same, SameCopy, Updating
<1>5. Targets'
  <2>1. \A q \in Procs : call'[q].pc = "copy" => call[q].pc = "copy" /\ call'[q].dst = call[q].dst
    BY Zenon, <1>1, <1>2 DEF Same, Updating
  <2>2. \A q \in Procs : call[q].pc = "touch" => call'[q].pc = "touch" /\ call'[q].id = call[q].id
    BY Zenon, <1>1 DEF Same
  <2> QED
    BY <2>1, <2>2 DEF VolInv, Targets
<1>6. Undisturbed'
  <2> SUFFICES ASSUME NEW q \in Procs, call'[q].alone, call'[q].pc \in Changing
               PROVE  CreateAlone(q)' /\ DeleteAlone(q)' /\ UpdateAlone(q)'
    BY Zenon DEF Undisturbed, CreateAlone, DeleteAlone, UpdateAlone, Changing, Updating
  <2>1. \A r \in Procs : call'[r].pc \in {"touch", "remove"} => call[r].pc = call'[r].pc /\ call[r].id = call'[r].id /\ r # p
    BY Zenon, <1>1, <1>2 DEF Same, Updating
  <2>2. CASE q = p
    BY ZenonT(60), <1>1, <1>2, <2>1, <2>2 DEF CreateAlone, DeleteAlone, UpdateAlone, Updating, Changing
  <2>3. CASE q # p
    <3>1. Same(call[q], call'[q]) /\ call[q].pc \in Changing /\ call[q].id \in Ids /\ call[q].alone
      BY ZenonT(60), <1>1, <2>3 DEF Same, VolInv, VolTypes, VolCall
    <3>2. CreateAlone(q)
      BY Zenon DEF VolInv, Undisturbed
    <3>3. ASSUME NEW r \in Procs, call'[r].pc \in Updating, call'[r].id = call[q].id, call[q].pc = "touch"
          PROVE  \/ call[r].pc \in Updating /\ call[r].id = call'[r].id /\ call[r].v = call'[r].v
                 \/ call'[r].v.size = call[q].size
      <4>1. CASE r = p
        <5>1. call[q].id = i /\ rec[i].size = call[q].size
          BY Zenon, <1>2, <3>1, <3>2, <3>3, <4>1 DEF CreateAlone
        <5> QED
          BY Zenon, <1>2, <4>1, <5>1
      <4>2. CASE r # p
        BY Zenon, <1>1, <3>3, <4>2 DEF Same
      <4> QED
        BY Zenon, <4>1, <4>2
    <3> QED
      BY Zenon, <2>1, <3>1, <3>3, AloneStays
  <2> QED
    BY Zenon, <2>2, <2>3
<1>7. Vol!VolumeHasFile'
  <2>1. \A q \in Procs : call[q].pc = "touch" => call'[q].pc = "touch" /\ call'[q].id = call[q].id
    BY ZenonT(60), <1>1 DEF Same
  <2> QED
    BY <2>1 DEF VolInv, Vol!VolumeHasFile
<1> QED
  BY Zenon, <1>3, <1>4, <1>5, <1>6, <1>7 DEF VolInv

LEMMA VolBeginAttach ==
  ASSUME VolInv, NEW p \in Procs, NEW i \in Ids, NEW n \in Nodes, Vol!BeginAttach(p, i, n)
  PROVE  VolInv'
<1> DEFINE w == [rec[i] EXCEPT !.node = n, !.inUse = TRUE]
           c == [Vol!Idle EXCEPT !.pc = "attach", !.id = i, !.v = w]
<1>1. Vol!Start(p, c) /\ UNCHANGED <<rec, file, mu, broken, source, stops, writes>> /\ rec[i] # None
  BY Zenon DEF Vol!BeginAttach
<1>2. DOMAIN w = RecFields /\ w.size = rec[i].size
  BY Zenon, <1>1 DEF VolInv, VolTypes, RecFields
<1> HIDE DEF w
<1>3. c.pc \in Updating /\ c.id = i /\ c.v = w /\ c.alone = TRUE /\ DOMAIN c = CallFields
  BY Zenon DEF Vol!Idle, CallFields, Updating
<1> HIDE DEF c
<1> QED
  BY Zenon, <1>1, <1>2, <1>3, VolBeginUpdate

LEMMA VolBeginDetach ==
  ASSUME VolInv, NEW p \in Procs, NEW i \in Ids, Vol!BeginDetach(p, i)
  PROVE  VolInv'
<1> DEFINE w == [rec[i] EXCEPT !.inUse = FALSE]
           c == [Vol!Idle EXCEPT !.pc = "detach", !.id = i, !.v = w]
<1>1. Vol!Start(p, c) /\ UNCHANGED <<rec, file, mu, broken, source, stops, writes>> /\ rec[i] # None
  BY Zenon DEF Vol!BeginDetach
<1>2. DOMAIN w = RecFields /\ w.size = rec[i].size
  BY Zenon, <1>1 DEF VolInv, VolTypes, RecFields
<1> HIDE DEF w
<1>3. c.pc \in Updating /\ c.id = i /\ c.v = w /\ c.alone = TRUE /\ DOMAIN c = CallFields
  BY Zenon DEF Vol!Idle, CallFields, Updating
<1> HIDE DEF c
<1> QED
  BY Zenon, <1>1, <1>2, <1>3, VolBeginUpdate

\* A call that returns leaves the other calls alone.
LEMMA VolReturn ==
  ASSUME VolTypes, NEW p \in Procs, Vol!Return(p)
  PROVE  /\ call' = [q \in Procs |-> call'[q]] /\ call'[p].pc = "idle" /\ \A q \in Procs : VolCall(call'[q])
         /\ \A q \in Procs \ {p} : call'[q] = call[q] /\ Same(call[q], call'[q]) /\ SameCopy(call[q], call'[q])
<1>1. Vol!Idle.pc = "idle" /\ VolCall(Vol!Idle)
  BY Zenon DEF Vol!Idle, VolCall, CallFields, Changing, Updating
<1> HIDE DEF Vol!Idle
<1>2. call' = [q \in Procs |-> call'[q]] /\ call'[p] = Vol!Idle /\ \A q \in Procs \ {p} : call'[q] = call[q]
  BY Zenon DEF Vol!Return, VolTypes
<1> QED
  BY Zenon, <1>1, <1>2 DEF VolTypes, Same, SameCopy

\* Create and Delete change the file under the mutex: no Snapshot is there.
LEMMA VolSettles ==
  ASSUME Vol!NoneAssumption, VolInv, NEW p \in Procs, call[p].pc \in {"touch", "remove"}, mu = None,
         NEW f, f # None => f \in Seq(Nat),
         call[p].pc = "touch" => f # None /\ Len(f) = call[p].size,
         file' = [file EXCEPT ![call[p].id] = f],
         Vol!Settle(p), Vol!Return(p), UNCHANGED <<rec, mu, source, calls, stops, writes>>
  PROVE  VolInv'
<1> DEFINE i == call[p].id
<1>1. /\ call' = [q \in Procs |-> call'[q]] /\ call'[p].pc = "idle" /\ \A q \in Procs : VolCall(call'[q])
      /\ \A q \in Procs \ {p} : call'[q] = call[q] /\ Same(call[q], call'[q])
  BY Zenon, VolReturn DEF VolInv
<1>2. i \in Ids
  BY Zenon DEF VolInv, VolTypes, VolCall, Changing
<1>3. broken' = IF call[p].alone THEN broken \ {i} ELSE broken \cup {i}
  BY Zenon DEF Vol!Settle
<1>4. file' = [j \in Ids |-> file'[j]] /\ file'[i] = f /\ \A j \in Ids \ {i} : file'[j] = file[j]
  BY Zenon, <1>2 DEF VolInv, VolTypes
<1> HIDE DEF i
<1>5. VolTypes'
  BY Zenon, <1>1, <1>4 DEF VolInv, VolTypes
<1>6. Copying' /\ Targets' /\ CopySoFar'
  <2>1. \A q \in Procs : call'[q].pc # "copy"
    BY ZenonT(60), <1>1 DEF VolInv, Copying, Vol!NoneAssumption
  <2> QED
    BY Zenon, <2>1, NoCopy
<1>7. Undisturbed'
  <2> SUFFICES ASSUME NEW q \in Procs, call'[q].alone, call'[q].pc \in Changing
               PROVE  CreateAlone(q)' /\ DeleteAlone(q)' /\ UpdateAlone(q)'
    BY Zenon DEF Undisturbed, CreateAlone, DeleteAlone, UpdateAlone, Changing, Updating
  <2>1. q # p /\ Same(call[q], call'[q]) /\ call[q].pc \in Changing /\ call[q].alone
    BY Zenon, <1>1 DEF Changing
  <2>2. call[q].pc \in Updating => call[q].id # i
    BY Zenon, <2>1 DEF VolInv, Undisturbed, UpdateAlone, i
  <2>3. call[q].pc \in Updating /\ call[q].id \in broken => call[q].id \in broken'
    BY Zenon, <1>3, <2>2
  <2>4. \A r \in Procs : call'[r].pc # "idle" => call'[r] = call[r]
    BY Zenon, <1>1
  <2>5. "idle" \notin Updating
    BY Zenon DEF Updating
  <2> QED
    BY Zenon, <2>1, <2>3, <2>4, <2>5, AloneStays
<1>8. Vol!VolumeHasFile'
  <2> SUFFICES ASSUME NEW j \in Ids \ broken', rec'[j] # None, \A q \in Procs : call'[q].pc = "touch" => call'[q].id # j
               PROVE  file'[j] # None /\ Len(file'[j]) = rec'[j].size
    BY Zenon DEF Vol!VolumeHasFile
  <2>1. CASE j = i
    <3>1. call[p].alone /\ CreateAlone(p) /\ DeleteAlone(p)
      BY Zenon, <1>3, <2>1 DEF VolInv, Undisturbed
    <3>2. call[p].pc = "touch" /\ rec[i].size = call[p].size
      BY Zenon, <2>1, <3>1 DEF CreateAlone, DeleteAlone, i
    <3> QED
      BY Zenon, <1>4, <2>1, <3>2
  <2>2. CASE j # i
    <3>1. \A q \in Procs : call[q].pc = "touch" => call[q].id # j
      BY Zenon, <1>1, <2>2 DEF i
    <3> QED
      BY ZenonT(60), <1>3, <1>4, <2>2, <3>1 DEF VolInv, Vol!VolumeHasFile
  <2> QED
    BY Zenon, <2>1, <2>2
<1> QED
  BY Zenon, <1>5, <1>6, <1>7, <1>8 DEF VolInv

LEMMA VolCreateFile ==
  ASSUME Vol!NoneAssumption, VolInv, NEW p \in Procs, Vol!CreateFile(p)
  PROVE  VolInv'
<1> DEFINE old == IF file[call[p].id] = None THEN <<>> ELSE file[call[p].id]
           f == Vol!Truncate(old, call[p].size)
<1>1. /\ call[p].pc = "touch" /\ mu = None /\ file' = [file EXCEPT ![call[p].id] = f]
      /\ Vol!Settle(p) /\ Vol!Return(p) /\ UNCHANGED <<rec, mu, source, calls, stops, writes>>
  BY Zenon DEF Vol!CreateFile
<1>2. call[p].id \in Ids /\ call[p].size \in Nat
  BY Zenon, <1>1 DEF VolInv, VolTypes, VolCall, Changing, Vol!NoneAssumption
<1>3. old \in Seq(Nat)
  BY <1>2 DEF VolInv, VolTypes
<1> HIDE DEF old
<1>4. f \in Seq(Nat) /\ Len(f) = call[p].size
  BY Zenon, <1>2, <1>3, TruncateSizes
<1> HIDE DEF f
<1>5. f # None
  BY Zenon, <1>4 DEF Vol!NoneAssumption
<1> QED
  BY Zenon, <1>1, <1>4, <1>5, VolSettles

LEMMA VolDeleteFile ==
  ASSUME Vol!NoneAssumption, VolInv, NEW p \in Procs, Vol!DeleteFile(p)
  PROVE  VolInv'
BY Zenon, VolSettles DEF Vol!DeleteFile

\* An update that was disturbed breaks the volume; one that was not finds the
\* size that it read.
LEMMA VolUpdate ==
  ASSUME VolInv, NEW p \in Procs, Vol!Update(p)
  PROVE  VolInv'
<1> DEFINE i == call[p].id
           w == [call[p].v EXCEPT !.ver = @ + 1]
<1>1. /\ call' = [q \in Procs |-> call'[q]] /\ call'[p].pc = "idle" /\ \A q \in Procs : VolCall(call'[q])
      /\ \A q \in Procs \ {p} : call'[q] = call[q] /\ Same(call[q], call'[q]) /\ SameCopy(call[q], call'[q])
  BY Zenon, VolReturn DEF VolInv, Vol!Update
<1>2. /\ call[p].pc \in Updating /\ UNCHANGED <<file, mu, source, calls, stops, writes>>
      /\ broken' = IF call[p].alone THEN broken ELSE broken \cup {i}
      /\ (rec' = [rec EXCEPT ![i] = w] /\ rec[i] # None) \/ rec' = rec
  BY Zenon DEF Vol!Update, Updating
<1>3. i \in Ids /\ DOMAIN w = RecFields /\ w.size = call[p].v.size
  BY Zenon, <1>2 DEF VolInv, VolTypes, VolCall, Changing, Updating, RecFields
<1> HIDE DEF i, w
<1>4. /\ rec' = [j \in Ids |-> rec'[j]] /\ \A j \in Ids \ {i} : rec'[j] = rec[j]
      /\ rec'[i] = rec[i] \/ (rec[i] # None /\ rec'[i] = w)
  BY Zenon, <1>2, <1>3 DEF VolInv, VolTypes
<1>5. VolTypes'
  BY ZenonT(60), <1>1, <1>2, <1>3, <1>4 DEF VolInv, VolTypes
<1>6. Copying' /\ CopySoFar'
  <2>1. \A q \in Procs : "copy" \in {call[q].pc, call'[q].pc} => SameCopy(call[q], call'[q])
    BY Zenon, <1>1, <1>2 DEF Updating
  <2> QED
    BY Zenon, <1>2, <2>1, CopyGoesOn
<1>7. Targets'
  <2>1. \A q \in Procs : call'[q].pc = "copy" => call'[q] = call[q] /\ call[q].dst \in Ids
    BY Zenon, <1>1 DEF VolInv, Copying
  <2>2. \A q \in Procs : call[q].pc = "touch" => call'[q] = call[q]
    BY Zenon, <1>1, <1>2 DEF Updating
  <2>3. \A j \in Ids : rec[j] = None => rec'[j] = None
    BY Zenon, <1>4
  <2>4. broken \subseteq broken'
    BY Zenon, <1>2
  <2> QED
    BY <2>1, <2>2, <2>3, <2>4 DEF VolInv, Targets
<1>8. Undisturbed'
  <2> SUFFICES ASSUME NEW q \in Procs, call'[q].alone, call'[q].pc \in Changing
               PROVE  CreateAlone(q)' /\ DeleteAlone(q)' /\ UpdateAlone(q)'
    BY Zenon DEF Undisturbed, CreateAlone, DeleteAlone, UpdateAlone, Changing, Updating
  <2>1. /\ q # p /\ Same(call[q], call'[q]) /\ call'[q] = call[q] /\ call[q].pc \in Changing
        /\ call[q].alone /\ call[q].id \in Ids
    BY Zenon, <1>1 DEF Changing, VolInv, VolTypes, VolCall
  <2>2. \A r \in Procs : call'[r].pc # "idle" => call'[r] = call[r]
    BY Zenon, <1>1
  <2>3. "idle" \notin Updating
    BY Zenon DEF Updating
  <2>4. CASE rec'[call[q].id] = rec[call[q].id]
    BY Zenon, <1>2, <2>1, <2>2, <2>3, <2>4, AloneStays
  <2>5. CASE call[q].id = i /\ rec[i] # None /\ rec'[i] = w
    <3>1. CreateAlone(q) /\ DeleteAlone(q) /\ UpdateAlone(q) /\ UpdateAlone(p)
      BY ZenonT(60) DEF VolInv, Undisturbed
    <3>2. CreateAlone(q)'
      BY <1>2, <1>3, <2>1, <2>2, <2>3, <2>5, <3>1 DEF CreateAlone, i
    <3>3. DeleteAlone(q)'
      BY ZenonT(60), <2>1, <2>5, <3>1 DEF DeleteAlone
    <3>4. UpdateAlone(q)'
      BY <1>2, <1>3, <2>1, <2>2, <2>5, <3>1 DEF UpdateAlone, i
    <3> QED
      BY Zenon, <3>2, <3>3, <3>4
  <2> QED
    BY Zenon, <1>4, <2>1, <2>4, <2>5
<1>9. Vol!VolumeHasFile'
  <2> SUFFICES ASSUME NEW j \in Ids \ broken', rec'[j] # None, \A q \in Procs : call'[q].pc = "touch" => call'[q].id # j
               PROVE  file'[j] # None /\ Len(file'[j]) = rec'[j].size
    BY Zenon DEF Vol!VolumeHasFile
  <2>1. \A q \in Procs : call[q].pc = "touch" => call[q].id # j
    BY Zenon, <1>1, <1>2 DEF Updating
  <2>2. rec[j] # None /\ rec'[j].size = rec[j].size
    <3>1. CASE j = i /\ rec[i] # None /\ rec'[i] = w
      BY Zenon, <1>2, <1>3, <3>1 DEF VolInv, Undisturbed, UpdateAlone, i
    <3> QED
      BY Zenon, <1>4, <3>1
  <2> QED
    BY Zenon, <1>2, <2>1, <2>2 DEF VolInv, Vol!VolumeHasFile
<1> QED
  BY Zenon, <1>5, <1>6, <1>7, <1>8, <1>9 DEF VolInv

\* Snapshot: a target that is a volume breaks.
LEMMA VolBeginSnapshot ==
  ASSUME Vol!NoneAssumption, VolInv, NEW p \in Procs, NEW i \in Ids, NEW d \in Ids, Vol!BeginSnapshot(p, i, d)
  PROVE  VolInv'
<1> DEFINE o == IF file[d] = None THEN <<>> ELSE file[d]
           c == [Vol!Idle EXCEPT !.pc = "copy", !.id = i, !.dst = d, !.old = o]
<1>1. /\ mu = None /\ file[i] # None /\ i # d /\ Vol!Start(p, c) /\ mu' = p /\ source' = file[i]
      /\ file' = [file EXCEPT ![d] = o]
      /\ broken' = IF rec[d] = None THEN broken ELSE broken \cup {d}
      /\ UNCHANGED <<rec, stops, writes>>
  BY Zenon DEF Vol!BeginSnapshot
<1>2. o \in Seq(Nat) /\ o # None /\ file[i] \in Seq(Nat)
  <2>1. <<>> \in Seq(Nat) /\ None \notin Seq(Nat)
    BY DEF Vol!NoneAssumption
  <2>2. \A j \in Ids : file[j] # None => file[j] \in Seq(Nat)
    BY Zenon DEF VolInv, VolTypes
  <2> QED
    BY Zenon, <1>1, <2>1, <2>2
<1>3. file[d] # None => o = file[d]
  OBVIOUS
<1> HIDE DEF o
<1>4. /\ c.pc = "copy" /\ c.id = i /\ c.dst = d /\ c.old = o /\ c.at = 0 /\ c.alone = TRUE
      /\ DOMAIN c = CallFields
  BY Zenon DEF Vol!Idle, CallFields
<1> HIDE DEF c
<1>5. /\ call[p].pc = "idle" /\ call' = [q \in Procs |-> call'[q]] /\ Same(c, call'[p])
      /\ \A q \in Procs \ {p} : Same(call[q], call'[q])
  BY ZenonT(60), <1>1, <1>4, VolStart DEF VolInv
<1>6. /\ call'[p].pc = "copy" /\ call'[p].id = i /\ call'[p].dst = d /\ call'[p].old = o /\ call'[p].at = 0
      /\ VolCall(call'[p])
      /\ \A q \in Procs : call'[q].pc # "copy" <=> q # p
  BY <1>1, <1>4, <1>5 DEF Same, VolCall, Updating, VolInv, Copying, Vol!NoneAssumption
<1>7. file' = [j \in Ids |-> file'[j]] /\ file'[d] = o /\ \A j \in Ids \ {d} : file'[j] = file[j]
  BY Zenon, <1>1 DEF VolInv, VolTypes
<1>8. VolTypes'
  <2>1. ASSUME NEW q \in Procs PROVE VolCall(call'[q])
    BY <1>5, <1>6 DEF VolInv, VolTypes, Same, VolCall
  <2> QED
    BY ZenonT(60), <1>1, <1>2, <1>5, <1>7, <2>1 DEF VolInv, VolTypes
<1>9. Copying'
  <2>1. file'[i] = file[i] /\ Len(file[i]) \in Nat /\ Len(o) \in Nat
    BY <1>1, <1>2, <1>7
  <2> QED
    BY <1>1, <1>2, <1>6, <1>7, <2>1 DEF Copying
<1>10. Targets'
  BY Zenon, <1>1, <1>6 DEF Targets
<1>11. Undisturbed'
  <2> SUFFICES ASSUME NEW q \in Procs, call'[q].alone, call'[q].pc \in Changing
               PROVE  CreateAlone(q)' /\ DeleteAlone(q)' /\ UpdateAlone(q)'
    BY Zenon DEF Undisturbed, CreateAlone, DeleteAlone, UpdateAlone, Changing, Updating
  <2>1. "copy" \notin Changing \cup Updating
    BY Zenon DEF Changing, Updating
  <2>2. q # p /\ Same(call[q], call'[q]) /\ call[q].pc \in Changing
    BY ZenonT(60), <1>5, <1>6, <2>1 DEF Same
  <2>3. \A r \in Procs : call'[r].pc \in Updating \/ call'[r].pc \in {"touch", "remove"} =>
          call[r].pc = call'[r].pc /\ call[r].id = call'[r].id /\ call[r].v = call'[r].v
    BY ZenonT(60), <1>5, <1>6, <2>1 DEF Same
  <2>4. broken \subseteq broken'
    BY Zenon, <1>1
  <2> QED
    BY Zenon, <1>1, <2>2, <2>3, <2>4, AloneStays
<1>12. Vol!VolumeHasFile'
  <2> SUFFICES ASSUME NEW j \in Ids \ broken', rec'[j] # None, \A q \in Procs : call'[q].pc = "touch" => call'[q].id # j
               PROVE  file'[j] # None /\ Len(file'[j]) = rec'[j].size
    BY Zenon DEF Vol!VolumeHasFile
  <2>1. j # d
    BY Zenon, <1>1
  <2>2. \A q \in Procs : call[q].pc = "touch" => call[q].id # j
    BY <1>5 DEF Same
  <2> QED
    BY Zenon, <1>1, <1>7, <2>1, <2>2 DEF VolInv, Vol!VolumeHasFile
<1>13. CopySoFar'
  <2>1. o = SubSeq(file[i], 1, 0) \o SubSeq(o, 0 + 1, Len(o))
    <3>1. SubSeq(file[i], 1, 0) = <<>> /\ SubSeq(o, 0 + 1, Len(o)) = o
      BY <1>2
    <3>2. <<>> \o o = o
      BY <1>2
    <3> QED
      BY Zenon, <3>1, <3>2
  <2> QED
    BY ZenonT(60), <1>1, <1>6, <1>7, <2>1 DEF CopySoFar
<1> QED
  BY Zenon, <1>8, <1>9, <1>10, <1>11, <1>12, <1>13 DEF VolInv

LEMMA VolCopyBlock ==
  ASSUME Vol!NoneAssumption, VolInv, NEW p \in Procs, Vol!CopyBlock(p)
  PROVE  VolInv'
<1> DEFINE i == call[p].id
           d == call[p].dst
           a == call[p].at
           s == file[i]
           f == file[d]
           g == SubSeq(f, 1, a) \o <<s[a + 1]>> \o SubSeq(f, a + 2, Len(f))
<1>1. /\ call[p].pc = "copy" /\ mu = p /\ i \in Ids /\ d \in Ids /\ i # d /\ s # None /\ f # None
      /\ a \in Nat /\ a <= Len(f) /\ call[p].old \in Seq(Nat)
  BY Zenon DEF Vol!CopyBlock, VolInv, Copying, VolTypes, VolCall
<1>2. s \in Seq(Nat) /\ f \in Seq(Nat)
  BY Zenon, <1>1 DEF VolInv, VolTypes
<1>3. /\ a + 1 <= Len(s) /\ call' = [call EXCEPT ![p].at = a + 1] /\ UNCHANGED <<rec, mu, broken, source, calls, stops, writes>>
      /\ file' = [file EXCEPT ![d] = g]
  <2>1. (a + 1) - 1 = a /\ (a + 1) + 1 = a + 2
    BY <1>1
  <2> QED
    BY Zenon, <2>1 DEF Vol!CopyBlock
<1> HIDE DEF i, d, a, s, f
<1>4. /\ g \in Seq(Nat) /\ a + 1 <= Len(g)
      /\ \A o \in Seq(Nat) : f = SubSeq(s, 1, a) \o SubSeq(o, a + 1, Len(o))
                               => g = SubSeq(s, 1, a + 1) \o SubSeq(o, a + 2, Len(o))
  BY <1>1, <1>2, <1>3, BlockCopied, ZenonT(60)
<1> HIDE DEF g
<1>5. file' = [j \in Ids |-> file'[j]] /\ file'[d] = g /\ \A j \in Ids \ {d} : file'[j] = file[j]
  BY Zenon, <1>1, <1>3 DEF VolInv, VolTypes
<1>6. /\ call' = [q \in Procs |-> call'[q]] /\ \A q \in Procs \ {p} : call'[q] = call[q]
      /\ call'[p].pc = "copy" /\ call'[p].id = i /\ call'[p].dst = d /\ call'[p].old = call[p].old /\ call'[p].at = a + 1
      /\ VolCall(call'[p])
  BY ZenonT(60), <1>1, <1>3 DEF VolInv, VolTypes, VolCall, CallFields, Updating, i, d, a
<1>7. \A q \in Procs : call'[q].pc = call[q].pc /\ (call[q].pc # "copy" => call'[q] = call[q]) /\ (call'[q].pc = "copy" <=> q = p)
  BY <1>1, <1>6 DEF VolInv, Copying
<1>8. VolTypes'
  BY Zenon, <1>3, <1>4, <1>5, <1>6 DEF VolInv, VolTypes
<1>9. Copying'
  <2>1. file'[i] = s /\ s # None /\ g # None
    BY Zenon, <1>1, <1>4, <1>5 DEF s, Vol!NoneAssumption
  <2>2. /\ call'[p].dst \in Ids /\ call'[p].id # call'[p].dst
        /\ file'[call'[p].id] # None /\ file'[call'[p].dst] # None
        /\ call'[p].at \in Nat /\ call'[p].at <= Len(file'[call'[p].id]) /\ call'[p].at <= Len(file'[call'[p].dst])
        /\ call'[p].old \in Seq(Nat)
    BY SMTT(60), <1>1, <1>3, <1>4, <1>5, <1>6, <2>1
  <2>3. mu' = p
    BY Zenon, <1>1, <1>3
  <2> QED
    BY Zenon, <1>7, <2>2, <2>3 DEF Copying
<1>10. Targets'
  BY <1>3, <1>6, <1>7 DEF VolInv, Targets, d
<1>11. Undisturbed'
  <2> SUFFICES ASSUME NEW q \in Procs, call'[q].alone, call'[q].pc \in Changing
               PROVE  CreateAlone(q)' /\ DeleteAlone(q)' /\ UpdateAlone(q)'
    BY Zenon DEF Undisturbed, CreateAlone, DeleteAlone, UpdateAlone, Changing, Updating
  <2>1. "copy" \notin Changing \cup Updating
    BY Zenon DEF Changing, Updating
  <2>2. call'[q] = call[q] /\ Same(call[q], call'[q])
    BY Zenon, <1>7, <2>1 DEF Same
  <2> QED
    BY <1>3, <1>7, <2>1, <2>2, AloneStays
<1>12. Vol!VolumeHasFile'
  <2> SUFFICES ASSUME NEW j \in Ids \ broken', rec'[j] # None, \A q \in Procs : call'[q].pc = "touch" => call'[q].id # j
               PROVE  file'[j] # None /\ Len(file'[j]) = rec'[j].size
    BY Zenon DEF Vol!VolumeHasFile
  <2>1. \A q \in Procs : call[q].pc = "touch" => call[q].id # j
    BY Zenon, <1>7
  <2>2. j # d
    BY Zenon, <1>1, <1>3, <2>1 DEF VolInv, Targets, d
  <2> QED
    BY Zenon, <1>3, <1>5, <2>1, <2>2 DEF VolInv, Vol!VolumeHasFile
<1>13. CopySoFar'
  <2> SUFFICES ASSUME source # None
               PROVE  /\ file'[i] = source
                      /\ file'[d] = SubSeq(source, 1, a + 1) \o SubSeq(call[p].old, (a + 1) + 1, Len(call[p].old))
    BY Zenon, <1>1, <1>3, <1>6 DEF CopySoFar
  <2>1. s = source /\ f = SubSeq(source, 1, a) \o SubSeq(call[p].old, a + 1, Len(call[p].old))
    BY Zenon, <1>1 DEF VolInv, CopySoFar, s, f, a, i, d, Vol!NoneAssumption
  <2>2. (a + 1) + 1 = a + 2
    BY <1>1
  <2>3. file'[i] = source
    BY Zenon, <1>1, <1>5, <2>1 DEF s
  <2>4. g = SubSeq(source, 1, a + 1) \o SubSeq(call[p].old, a + 2, Len(call[p].old))
    BY Zenon, <1>1, <1>4, <2>1
  <2> QED
    BY Zenon, <1>5, <2>2, <2>3, <2>4
<1> QED
  BY Zenon, <1>8, <1>9, <1>10, <1>11, <1>12, <1>13 DEF VolInv

\* A call that ends without a change of a record or a file, and breaks no less
\* than it must.
LEMMA VolEnds ==
  ASSUME Vol!NoneAssumption, VolInv, NEW p \in Procs, Vol!Return(p), UNCHANGED <<rec, file, writes>>,
         broken \subseteq broken', call[p].pc = "touch" => call[p].id \in broken',
         \/ mu = p /\ mu' = None
         \/ mu # p /\ UNCHANGED <<mu, source>>
  PROVE  VolInv'
<1>1. /\ call' = [q \in Procs |-> call'[q]] /\ call'[p].pc = "idle" /\ \A q \in Procs : VolCall(call'[q])
      /\ \A q \in Procs \ {p} : call'[q] = call[q] /\ Same(call[q], call'[q]) /\ SameCopy(call[q], call'[q])
  BY Zenon, VolReturn DEF VolInv
<1>2. VolTypes'
  BY Zenon, <1>1 DEF VolInv, VolTypes
<1>3. Copying' /\ Targets' /\ CopySoFar'
  <2>1. CASE mu = p /\ mu' = None
    <3>1. \A q \in Procs : call'[q].pc # "copy"
      BY Zenon, <1>1, <2>1 DEF VolInv, Copying
    <3> QED
      BY Zenon, <2>1, <3>1, NoCopy
  <2>2. CASE mu # p /\ UNCHANGED <<mu, source>>
    <3>1. \A q \in Procs : "copy" \in {call[q].pc, call'[q].pc} => SameCopy(call[q], call'[q])
      BY Zenon, <1>1, <2>2 DEF VolInv, Copying
    <3>2. Copying' /\ CopySoFar'
      BY Zenon, <2>2, <3>1, CopyGoesOn
    <3>3. Targets'
      BY <1>1 DEF VolInv, Targets
    <3> QED
      BY Zenon, <3>2, <3>3
  <2> QED
    BY Zenon, <2>1, <2>2
<1>4. Undisturbed'
  <2> SUFFICES ASSUME NEW q \in Procs, call'[q].alone, call'[q].pc \in Changing
               PROVE  CreateAlone(q)' /\ DeleteAlone(q)' /\ UpdateAlone(q)'
    BY Zenon DEF Undisturbed, CreateAlone, DeleteAlone, UpdateAlone, Changing, Updating
  <2>1. "idle" \notin Changing \cup Updating
    BY Zenon DEF Changing, Updating
  <2>2. q # p /\ call'[q] = call[q] /\ Same(call[q], call'[q])
    BY Zenon, <1>1, <2>1
  <2>3. \A r \in Procs : call'[r].pc # "idle" => call'[r] = call[r]
    BY Zenon, <1>1
  <2> QED
    BY Zenon, <2>1, <2>2, <2>3, AloneStays
<1>5. Vol!VolumeHasFile'
  <2> SUFFICES ASSUME NEW j \in Ids \ broken', rec'[j] # None, \A q \in Procs : call'[q].pc = "touch" => call'[q].id # j
               PROVE  file'[j] # None /\ Len(file'[j]) = rec'[j].size
    BY Zenon DEF Vol!VolumeHasFile
  <2>1. \A q \in Procs : call[q].pc = "touch" => call[q].id # j
    BY Zenon, <1>1
  <2> QED
    BY Zenon, <2>1 DEF VolInv, Vol!VolumeHasFile
<1> QED
  BY Zenon, <1>2, <1>3, <1>4, <1>5 DEF VolInv

LEMMA VolSnapshotDone ==
  ASSUME Vol!NoneAssumption, VolInv, NEW p \in Procs, Vol!SnapshotDone(p)
  PROVE  VolInv'
BY Zenon, VolEnds DEF Vol!SnapshotDone, VolInv, Copying

LEMMA VolStop ==
  ASSUME Vol!NoneAssumption, VolInv, NEW p \in Procs, Vol!Stop(p)
  PROVE  VolInv'
<1>1. /\ Vol!Return(p) /\ UNCHANGED <<rec, file, writes>>
      /\ broken \subseteq broken' /\ (call[p].pc = "touch" => call[p].id \in broken')
      /\ IF mu = p THEN mu' = None /\ source' = None ELSE UNCHANGED <<mu, source>>
  BY Zenon DEF Vol!Stop
<1> QED
  BY Zenon, <1>1, VolEnds

\* A workload's write keeps the size, and a Snapshot that it hits copies no
\* one state of its source.
LEMMA VolWorkloadWrite ==
  ASSUME Vol!NoneAssumption, VolInv, NEW i \in Ids, NEW j, Vol!WorkloadWrite(i, j)
  PROVE  VolInv'
<1> DEFINE g == [file[i] EXCEPT ![j] = writes + 1]
<1>1. /\ file[i] # None /\ j \in 1..Len(file[i]) /\ file' = [file EXCEPT ![i] = g] /\ writes' = writes + 1
      /\ source' = IF mu # None /\ i \in {call[mu].id, call[mu].dst} THEN None ELSE source
      /\ UNCHANGED <<rec, mu, call, broken, calls, stops>>
  BY Zenon DEF Vol!WorkloadWrite
<1>2. file[i] \in Seq(Nat) /\ writes \in Nat /\ writes' \in Nat
  BY <1>1 DEF VolInv, VolTypes
<1>3. g \in Seq(Nat) /\ Len(g) = Len(file[i])
  BY <1>1, <1>2
<1> HIDE DEF g
<1>4. g # None
  BY Zenon, <1>3 DEF Vol!NoneAssumption
<1>5. file' = [h \in Ids |-> file'[h]] /\ file'[i] = g /\ \A h \in Ids \ {i} : file'[h] = file[h]
  BY Zenon, <1>1 DEF VolInv, VolTypes
<1>6. \A h \in Ids : (file'[h] = None <=> file[h] = None) /\ Len(file'[h]) = Len(file[h])
  BY Zenon, <1>1, <1>3, <1>4, <1>5
<1>7. VolTypes'
  BY ZenonT(60), <1>1, <1>2, <1>3, <1>5 DEF VolInv, VolTypes
<1>8. Copying' /\ Targets'
  <2>1. \A q \in Procs : call[q].pc = "copy" => call[q].id \in Ids /\ call[q].dst \in Ids
    BY Zenon DEF VolInv, VolTypes, VolCall, Copying
  <2> QED
    BY SMTT(60), <1>1, <1>6, <2>1 DEF VolInv, Copying, Targets
<1>9. Undisturbed'
  BY Zenon, <1>1 DEF VolInv, Undisturbed, CreateAlone, DeleteAlone, UpdateAlone
<1>10. Vol!VolumeHasFile'
  BY Zenon, <1>1, <1>6 DEF VolInv, Vol!VolumeHasFile
<1>11. CopySoFar'
  <2> SUFFICES ASSUME mu # None, source' # None
               PROVE  /\ file'[call[mu].id] = source'
                      /\ file'[call[mu].dst] = SubSeq(source', 1, call[mu].at) \o SubSeq(call[mu].old, call[mu].at + 1, Len(call[mu].old))
    BY Zenon, <1>1 DEF CopySoFar
  <2>1. source' = source /\ i # call[mu].id /\ i # call[mu].dst
    BY Zenon, <1>1
  <2>2. call[mu].id \in Ids /\ call[mu].dst \in Ids
    BY Zenon DEF VolInv, VolTypes, VolCall, Copying
  <2> QED
    BY Zenon, <1>5, <2>1, <2>2 DEF VolInv, CopySoFar
<1> QED
  BY Zenon, <1>7, <1>8, <1>9, <1>10, <1>11 DEF VolInv

\* The API's POST makes a volume without a file.
LEMMA VolPost ==
  ASSUME Vol!NoneAssumption, VolInv, NEW i \in Ids, NEW s \in Sizes, NEW n \in Nodes, Vol!HandleVolumesPost(i, s, n)
  PROVE  VolInv'
<1>1. /\ rec' = [j \in Ids |-> rec'[j]] /\ rec[i] = None /\ \A j \in Ids \ {i} : rec'[j] = rec[j]
      /\ rec'[i] = [node |-> n, inUse |-> FALSE, size |-> s, ver |-> 1]
      /\ broken' = broken \cup {i} /\ UNCHANGED <<file, mu, source, stops, writes>>
  BY Zenon DEF Vol!HandleVolumesPost, VolInv, VolTypes
<1>2. /\ call' = [q \in Procs |-> call'[q]]
      /\ \A q \in Procs : call'[q] = IF call[q].pc \in Changing /\ call[q].id = i THEN [call[q] EXCEPT !.alone = FALSE] ELSE call[q]
  BY Zenon DEF Vol!HandleVolumesPost, Vol!Rivals, Changing, Vol!NoneAssumption
<1>3. \A q \in Procs : Same(call[q], call'[q]) /\ (call[q].pc \in Changing /\ call[q].id = i => ~call'[q].alone)
  BY ZenonT(60), <1>2 DEF VolInv, VolTypes, VolCall, CallFields, Same
<1>4. VolTypes'
  <2>1. DOMAIN rec'[i] = RecFields
    BY Zenon, <1>1 DEF RecFields
  <2>2. \A q \in Procs : VolCall(call'[q])
    BY ZenonT(60), <1>3 DEF VolInv, VolTypes, Same, VolCall
  <2> QED
    BY Zenon, <1>1, <1>2, <2>1, <2>2 DEF VolInv, VolTypes
<1>5. Copying' /\ CopySoFar'
  <2>1. \A q \in Procs : SameCopy(call[q], call'[q])
    BY Zenon, <1>3 DEF Same, SameCopy
  <2> QED
    BY Zenon, <1>1, <2>1, CopyGoesOn
<1>6. Targets'
  <2>1. \A q \in Procs : call'[q].pc = "copy" => call[q].pc = "copy" /\ call'[q].dst = call[q].dst /\ call[q].dst \in Ids
    BY Zenon, <1>3 DEF Same, VolInv, Copying
  <2>2. \A q \in Procs : call[q].pc = "touch" => call'[q].pc = "touch" /\ call'[q].id = call[q].id
    BY Zenon, <1>3 DEF Same
  <2> QED
    BY <1>1, <2>1, <2>2 DEF VolInv, Targets
<1>7. Undisturbed'
  <2> SUFFICES ASSUME NEW q \in Procs, call'[q].alone, call'[q].pc \in Changing
               PROVE  CreateAlone(q)' /\ DeleteAlone(q)' /\ UpdateAlone(q)'
    BY Zenon DEF Undisturbed, CreateAlone, DeleteAlone, UpdateAlone, Changing, Updating
  <2>1. Same(call[q], call'[q]) /\ call[q].pc \in Changing /\ call[q].id \in Ids /\ call[q].id # i
    BY Zenon, <1>3 DEF Same, VolInv, VolTypes, VolCall
  <2>2. \A r \in Procs : call'[r].pc = call[r].pc /\ call'[r].id = call[r].id /\ call'[r].v = call[r].v
    BY Zenon, <1>3 DEF Same
  <2> QED
    BY Zenon, <1>1, <2>1, <2>2, AloneStays
<1>8. Vol!VolumeHasFile'
  <2> SUFFICES ASSUME NEW j \in Ids \ broken', rec'[j] # None, \A q \in Procs : call'[q].pc = "touch" => call'[q].id # j
               PROVE  file'[j] # None /\ Len(file'[j]) = rec'[j].size
    BY Zenon DEF Vol!VolumeHasFile
  <2>1. \A q \in Procs : call[q].pc = "touch" => call[q].id # j
    BY <1>3 DEF Same
  <2> QED
    BY Zenon, <1>1, <2>1 DEF VolInv, Vol!VolumeHasFile
<1> QED
  BY Zenon, <1>4, <1>5, <1>6, <1>7, <1>8 DEF VolInv

LEMMA VolAlways ==
  ASSUME Vol!NoneAssumption
  PROVE  Vol!Spec => []VolInv
<1>1. Vol!Init => VolInv
  BY Zenon, VolInit
<1>2. VolInv /\ [Vol!Next]_(Vol!vars) => VolInv'
  <2> SUFFICES ASSUME VolInv, [Vol!Next]_(Vol!vars) PROVE VolInv'
    BY ZenonT(60)
  <2>1. CASE UNCHANGED Vol!vars
    <3>1. UNCHANGED <<rec, file, mu, call, broken, source, writes>>
      BY Zenon, <2>1 DEF Vol!vars
    <3>2. VolTypes'
      BY ZenonT(60), <3>1 DEF VolInv, VolTypes
    <3>3. Copying'
      BY ZenonT(60), <3>1 DEF VolInv, Copying
    <3>4. Targets'
      BY ZenonT(60), <3>1 DEF VolInv, Targets
    <3>5. Undisturbed'
      BY ZenonT(60), <3>1 DEF VolInv, Undisturbed, CreateAlone, DeleteAlone, UpdateAlone
    <3>6. Vol!VolumeHasFile' /\ CopySoFar'
      BY ZenonT(60), <3>1 DEF VolInv, Vol!VolumeHasFile, CopySoFar
    <3> QED
      BY Zenon, <3>2, <3>3, <3>4, <3>5, <3>6 DEF VolInv
  <2>2. CASE \E p \in Procs : Vol!CreateFile(p) \/ Vol!DeleteFile(p) \/ Vol!Update(p) \/ Vol!CopyBlock(p) \/ Vol!SnapshotDone(p) \/ Vol!Stop(p)
    BY Zenon, <2>2, VolCreateFile, VolDeleteFile, VolUpdate, VolCopyBlock, VolSnapshotDone, VolStop
  <2>3. CASE \E p \in Procs, i \in Ids :
               \/ Vol!BeginDelete(p, i) \/ Vol!BeginDetach(p, i)
               \/ \E n \in Nodes : Vol!BeginAttach(p, i, n) \/ \E s \in Sizes : Vol!BeginCreate(p, i, s, n)
               \/ \E d \in Ids : Vol!BeginSnapshot(p, i, d)
    BY Zenon, <2>3, VolBeginDelete, VolBeginDetach, VolBeginAttach, VolBeginCreate, VolBeginSnapshot
  <2>4. CASE \E i \in Ids : \/ \E j \in Vol!Blocks : Vol!WorkloadWrite(i, j)
                            \/ \E s \in Sizes, n \in Nodes : Vol!HandleVolumesPost(i, s, n)
    BY Zenon, <2>4, VolWorkloadWrite, VolPost
  <2> QED
    BY Zenon, <2>1, <2>2, <2>3, <2>4 DEF Vol!Next
<1> QED
  BY <1>1, <1>2, PTL DEF Vol!Spec

\* Create and Delete, with Attach, Detach, Snapshot, the API's POST and calls
\* that are cut off at any step around them: a volume whose Create returned has
\* a file of its recorded size, where its calls did not overlap.
THEOREM VolFileAlways == Vol!Spec => []VolumeHasFile
<1>1. VolInv => VolumeHasFile
  BY Zenon DEF VolInv, VolumeHasFile
<1>2. Vol!Spec => []VolInv
  BY Zenon, VolAlways, StorageAssumption
<1> QED
  BY <1>1, <1>2, PTL

\* Snapshot: as far as it got, the target has the blocks that the source had
\* when the mutex was taken, and nothing else if it was new, unless a workload
\* wrote to one of them.
THEOREM VolSnapshotAlways == Vol!Spec => []SnapshotIsCopy
<1>1. Vol!NoneAssumption /\ VolInv => SnapshotIsCopy
  <2> SUFFICES ASSUME Vol!NoneAssumption, VolInv, mu # None, source # None
               PROVE  LET c == call[mu]
                      IN /\ file[c.id] = source
                         /\ \A j \in 1..c.at : file[c.dst][j] = source[j]
                         /\ c.old = <<>> => Len(file[c.dst]) = c.at
    BY Zenon DEF SnapshotIsCopy, Vol!SnapshotIsCopy
  <2> DEFINE c == call[mu]
             l == SubSeq(source, 1, c.at)
             r == SubSeq(c.old, c.at + 1, Len(c.old))
  <2>1. mu \in Procs /\ c.pc = "copy"
    BY Zenon DEF VolInv, Copying
  <2>2. file[c.id] = source /\ file[c.dst] = l \o r
    BY Zenon DEF VolInv, CopySoFar
  <2>3. c.at \in Nat /\ c.at <= Len(source) /\ c.old \in Seq(Nat) /\ source # None /\ c.id \in Ids
    BY Zenon, <2>1, <2>2 DEF VolInv, Copying, VolTypes, VolCall
  <2>4. source \in Seq(Nat)
    BY Zenon, <2>2, <2>3 DEF VolInv, VolTypes
  <2>5. l \in Seq(Nat) /\ Len(l) = c.at /\ \A j \in 1..c.at : l[j] = source[j]
    BY Zenon, <2>3, <2>4, PrefixAt
  <2>6. c.at + 1 \in Nat /\ c.at + 1 > 0
    BY <2>3
  <2>7. r \in Seq(Nat) /\ Len(r) = IF c.at + 1 <= Len(c.old) THEN Len(c.old) - (c.at + 1) + 1 ELSE 0
    BY Zenon, <2>3, <2>6, SuffixAt
  <2>8. Len(l \o r) = Len(l) + Len(r) /\ \A j \in 1..Len(l) : (l \o r)[j] = l[j]
    BY Zenon, <2>5, <2>7, ConcatAt
  <2>9. \A j \in 1..c.at : file[c.dst][j] = source[j]
    BY Zenon, <2>2, <2>5, <2>8
  <2>10. ASSUME c.old = <<>> PROVE Len(file[c.dst]) = c.at
    <3>1. Len(c.old) = 0
      BY <2>10
    <3>2. Len(r) = 0
      BY <2>3, <2>7, <3>1
    <3> HIDE DEF l, r, c
    <3>3. Len(l \o r) = c.at
      BY <2>3, <2>5, <2>8, <3>2
    <3> QED
      BY Zenon, <2>2, <3>3
  <2> QED
    BY Zenon, <2>2, <2>9, <2>10
<1>2. Vol!Spec => []VolInv
  BY ZenonT(60), VolAlways, StorageAssumption
<1>3. Vol!NoneAssumption
  BY Zenon, StorageAssumption
<1> QED
  BY <1>1, <1>2, <1>3, PTL

-----------------------------------------------------------------------------
(* The object store.                                                        *)

ObjFields == {"pc", "op", "id", "data", "linked", "alone"}

ObjCall(c) ==
  /\ DOMAIN c = ObjFields
  /\ \/ c.op = "" /\ c.pc = "idle"
     \/ c.op = "put" /\ c.pc \in {"open", "write", "record"} /\ c.id \in Obj!ObjectIds /\ c.data \in Contents
     \/ c.op = "get" /\ c.pc \in {"open", "read"} /\ c.id \in Obj!ObjectIds
     \/ c.op = "delete" /\ c.pc = "remove" /\ c.id \in Obj!ObjectIds
     \/ c.op = "mkbucket" /\ c.pc = "mkdir"
     \/ c.op = "rmbucket" /\ c.pc = "rmall" /\ c.id[1] \in Buckets

ObjTypes ==
  /\ call = [p \in Procs |-> call[p]] /\ \A p \in Procs : ObjCall(call[p])
  /\ rec = [i \in Obj!ObjectIds |-> rec[i]] /\ file = [i \in Obj!ObjectIds |-> file[i]]

\* A call that is alone shares its object with no call that changes it.
Apart ==
  \A p, q \in Procs :
    p # q /\ call[p].op # "" /\ call[p].alone /\ call[q].op \in {"put", "delete", "rmbucket"}
      => ~Obj!SameObject(call[q], call[p])

\* The objects of which DigestMatches does not say that their bytes are there.
Marked == dirty \cup lost

\* How far a PutObject that is alone got, and what a DeleteObject and a
\* GetObject that are alone find.
PutAlone(p) ==
  call[p].alone /\ call[p].op = "put" =>
    /\ call[p].pc = "open" =>
         /\ call[p].id[1] \in dirs
         /\ call[p].id \notin Marked /\ rec[call[p].id] # None => file[call[p].id] = rec[call[p].id]
    /\ call[p].pc = "write" => call[p].linked /\ file[call[p].id] = <<>>
    /\ call[p].pc = "record" => file[call[p].id] = call[p].data
DropAlone(p) ==
  call[p].alone /\ call[p].op = "delete" => rec[call[p].id] = None
GetAlone(p) ==
  call[p].alone /\ call[p].op = "get" /\ call[p].id \notin Marked =>
    /\ file[call[p].id] = call[p].data
    /\ call[p].pc = "read" => call[p].linked

\* The objects that no PutObject or DeleteObject is at work on.
Settled ==
  \A i \in Obj!ObjectIds \ Marked :
    (rec[i] # None /\ \A p \in Procs : call[p].op \in {"put", "delete"} => call[p].id # i) => file[i] = rec[i]

\* The record that a DeleteBucket left behind has no file, as long as no
\* PutObject of the object has opened one.
Writing(i) ==
  \E p \in Procs : call[p].op = "put" /\ call[p].id = i /\ call[p].pc \in {"write", "record"}
LostAt(i) == i \in lost \ dirty /\ rec[i] # None => file[i] = None \/ Writing(i)
LostInv == \A i \in Obj!ObjectIds : LostAt(i)

ObjInv == ObjTypes /\ Apart /\ Settled /\ \A p \in Procs : PutAlone(p) /\ DropAlone(p) /\ GetAlone(p)

LEMMA ObjInit == Obj!Init => ObjInv
<1> SUFFICES ASSUME Obj!Init PROVE ObjInv
  OBVIOUS
<1>1. \A p \in Procs : call[p].op = "" /\ ObjCall(call[p])
  BY Zenon DEF Obj!Init, Obj!Idle, ObjCall, ObjFields
<1>2. ObjTypes /\ Settled
  BY Zenon, <1>1 DEF Obj!Init, ObjTypes, Settled
<1> QED
  BY Zenon, <1>1, <1>2 DEF ObjInv, Apart, PutAlone, DropAlone, GetAlone

\* The second clause of DigestMatches is what GetAlone says of a read.
LEMMA ObjDigest == ObjInv /\ LostInv => Obj!DigestMatches
<1> SUFFICES ASSUME ObjInv, LostInv PROVE Obj!DigestMatches
  OBVIOUS
<1>1. ASSUME NEW i \in Obj!ObjectIds \ dirty, Obj!On(i) = {}, rec[i] # None
      PROVE  file[i] = IF i \in lost THEN None ELSE rec[i]
  <2>1. ASSUME NEW p \in Procs, call[p].op \in {"put", "delete"}, call[p].id = i PROVE FALSE
    <3>1. call[p].pc # "idle"
      BY Zenon, <2>1 DEF ObjInv, ObjTypes, ObjCall
    <3>2. p \in Obj!On(i)
      BY Zenon, <2>1, <3>1 DEF Obj!On, Obj!Changes, Obj!SameObject
    <3> QED
      BY Zenon, <1>1, <3>2
  <2>2. CASE i \in lost
    BY Zenon, <1>1, <2>1, <2>2 DEF LostInv, LostAt, Writing
  <2>3. CASE i \notin lost
    BY Zenon, <1>1, <2>1, <2>3 DEF ObjInv, Settled, Marked
  <2> QED
    BY Zenon, <2>2, <2>3
<1>2. ASSUME NEW p \in Procs, call[p].pc = "read", call[p].alone, call[p].id \notin dirty \cup lost
      PROVE  call[p].linked /\ file[call[p].id] = call[p].data
  BY Zenon, <1>2 DEF ObjInv, ObjTypes, ObjCall, GetAlone, Marked
<1> QED
  BY Zenon, <1>1, <1>2 DEF Obj!DigestMatches

\* A step of the calls in A, one or none, that changes the objects in S: the
\* other calls are at work elsewhere or not alone.
Near(c, d, S) ==
  /\ DOMAIN c = DOMAIN d /\ c.pc = d.pc /\ c.op = d.op /\ c.id = d.id /\ c.data = d.data
  /\ d.alone => c.alone
  /\ c.linked = d.linked \/ c.id \in S

LEMMA NearCall ==
  ASSUME NEW c, NEW d, NEW S, ObjCall(c), Near(c, d, S)
  PROVE  ObjCall(d)
BY Zenon DEF ObjCall, Near

LEMMA ObjStep ==
  ASSUME ObjInv, NEW A \in SUBSET Procs, NEW S \in SUBSET Obj!ObjectIds,
         call' = [q \in Procs |-> call'[q]], rec' = [i \in Obj!ObjectIds |-> rec'[i]], file' = [i \in Obj!ObjectIds |-> file'[i]],
         \A q \in Procs \ A : Near(call[q], call'[q], S),
         \A q \in Procs \ A : call'[q].alone /\ call[q].op \in {"put", "get", "delete"} =>
            call[q].id \notin S /\ (call[q].id[1] \in dirs => call[q].id[1] \in dirs'),
         \A i \in Obj!ObjectIds \ S : rec'[i] = rec[i] /\ file'[i] = file[i] /\ (i \in Marked => i \in Marked'),
         \A i \in S : \/ i \in Marked' \/ rec'[i] = None \/ file'[i] = rec'[i]
                      \/ \E p \in A : call'[p].op \in {"put", "delete"} /\ call'[p].id = i,
         \A p \in A : /\ ObjCall(call'[p]) /\ PutAlone(p)' /\ DropAlone(p)' /\ GetAlone(p)'
                      /\ call[p].op \in {"put", "delete"} =>
                           call[p].id \in S \/ (call'[p].op = call[p].op /\ call'[p].id = call[p].id),
         Apart'
  PROVE  ObjInv'
<1>1. ObjTypes'
  <2>1. ASSUME NEW q \in Procs \ A PROVE ObjCall(call'[q])
    BY Zenon, NearCall DEF ObjInv, ObjTypes
  <2> QED
    BY Zenon, <2>1 DEF ObjTypes
<1>2. Settled'
  <2> SUFFICES ASSUME NEW i \in Obj!ObjectIds \ Marked', rec'[i] # None,
                      \A p \in Procs : call'[p].op \in {"put", "delete"} => call'[p].id # i
               PROVE  file'[i] = rec'[i]
    BY Zenon DEF Settled
  <2>1. CASE i \in S
    BY Zenon, <2>1
  <2>2. CASE i \notin S
    <3>1. \A p \in Procs : call[p].op \in {"put", "delete"} => call[p].id # i
      BY <2>2 DEF Near
    <3> QED
      BY Zenon, <2>2, <3>1 DEF ObjInv, Settled
  <2> QED
    BY Zenon, <2>1, <2>2
<1>3. ASSUME NEW q \in Procs \ A PROVE PutAlone(q)' /\ DropAlone(q)' /\ GetAlone(q)'
  <2> SUFFICES ASSUME call'[q].alone, call[q].op \in {"put", "get", "delete"}
               PROVE  PutAlone(q)' /\ DropAlone(q)' /\ GetAlone(q)'
    BY ZenonT(60) DEF PutAlone, DropAlone, GetAlone, Near
  <2>1. /\ call[q].id \in Obj!ObjectIds \ S /\ (call[q].id[1] \in dirs => call[q].id[1] \in dirs')
        /\ rec'[call[q].id] = rec[call[q].id] /\ file'[call[q].id] = file[call[q].id]
        /\ call[q].id \in Marked => call[q].id \in Marked'
    <3>1. ObjCall(call[q])
      BY ZenonT(60) DEF ObjInv, ObjTypes
    <3>2. call[q].id \in Obj!ObjectIds
      BY ZenonT(60), <3>1 DEF ObjCall
    <3>3. call[q].id \notin S /\ (call[q].id[1] \in dirs => call[q].id[1] \in dirs')
      BY ZenonT(60)
    <3> QED
      BY ZenonT(60), <3>2, <3>3
  <2>2. /\ call'[q].pc = call[q].pc /\ call'[q].op = call[q].op /\ call'[q].id = call[q].id /\ call'[q].data = call[q].data
        /\ call'[q].linked = call[q].linked /\ call[q].alone
    BY Zenon, <2>1 DEF Near
  <2>3. PutAlone(q) /\ DropAlone(q) /\ GetAlone(q)
    BY Zenon DEF ObjInv
  <2>4. PutAlone(q)'
    BY <2>1, <2>2, <2>3 DEF PutAlone
  <2>5. DropAlone(q)' /\ GetAlone(q)'
    BY <2>1, <2>2, <2>3 DEF DropAlone, GetAlone
  <2> QED
    BY Zenon, <2>4, <2>5
<1> QED
  BY Zenon, <1>1, <1>2, <1>3 DEF ObjInv

LEMMA ObjActs ==
  ASSUME ObjInv, NEW p \in Procs, NEW S \in SUBSET Obj!ObjectIds,
         call' = [q \in Procs |-> call'[q]], rec' = [i \in Obj!ObjectIds |-> rec'[i]], file' = [i \in Obj!ObjectIds |-> file'[i]],
         \A q \in Procs \ {p} : Near(call[q], call'[q], S),
         \A q \in Procs \ {p} : call'[q].alone /\ call[q].op \in {"put", "get", "delete"} =>
            call[q].id \notin S /\ (call[q].id[1] \in dirs => call[q].id[1] \in dirs'),
         \A i \in Obj!ObjectIds \ S : rec'[i] = rec[i] /\ file'[i] = file[i] /\ (i \in Marked => i \in Marked'),
         \A i \in S : \/ i \in Marked' \/ rec'[i] = None \/ file'[i] = rec'[i]
                      \/ call'[p].op \in {"put", "delete"} /\ call'[p].id = i,
         ObjCall(call'[p]), PutAlone(p)', DropAlone(p)', GetAlone(p)',
         call[p].op \in {"put", "delete"} => call[p].id \in S \/ (call'[p].op = call[p].op /\ call'[p].id = call[p].id),
         Apart'
  PROVE  ObjInv'
<1> DEFINE A == {p}
<1>1. A \in SUBSET Procs /\ \A q \in A : q = p
  OBVIOUS
<1>2. \A i \in S : \/ i \in Marked' \/ rec'[i] = None \/ file'[i] = rec'[i]
                   \/ \E q \in A : call'[q].op \in {"put", "delete"} /\ call'[q].id = i
  OBVIOUS
<1>3. \A q \in A : /\ ObjCall(call'[q]) /\ PutAlone(q)' /\ DropAlone(q)' /\ GetAlone(q)'
                   /\ call[q].op \in {"put", "delete"} =>
                        call[q].id \in S \/ (call'[q].op = call[q].op /\ call'[q].id = call[q].id)
  BY Zenon, <1>1
<1>4. /\ \A q \in Procs \ A : Near(call[q], call'[q], S)
      /\ \A q \in Procs \ A : call'[q].alone /\ call[q].op \in {"put", "get", "delete"} =>
            call[q].id \notin S /\ (call[q].id[1] \in dirs => call[q].id[1] \in dirs')
  OBVIOUS
<1> HIDE DEF A
<1> QED
  BY ZenonT(60), <1>1, <1>2, <1>3, <1>4, ObjStep

\* Calls that go on or return stay apart.
LEMMA ApartStays ==
  ASSUME Apart,
         \A q \in Procs : call'[q].op # "" => call'[q].op = call[q].op /\ call'[q].id = call[q].id /\ (call'[q].alone => call[q].alone)
  PROVE  Apart'
<1> SUFFICES ASSUME NEW p \in Procs, NEW q \in Procs, p # q, call'[p].op # "", call'[p].alone,
                    call'[q].op \in {"put", "delete", "rmbucket"}
             PROVE  ~Obj!SameObject(call'[q], call'[p])
  BY Zenon DEF Apart
<1>1. ~Obj!SameObject(call[q], call[p])
  BY Zenon DEF Apart
<1> QED
  BY Zenon, <1>1 DEF Obj!SameObject

\* What Start makes of the calls.
LEMMA ObjStart ==
  ASSUME ObjInv, NEW p \in Procs, NEW c, ObjCall(c), c.alone, c.op # "", Obj!Start(p, c)
  PROVE  /\ call[p].op = "" /\ call' = [q \in Procs |-> call'[q]] /\ Near(c, call'[p], {}) /\ call'[p].linked = c.linked
         /\ \A q \in Procs \ {p} : Near(call[q], call'[q], {})
         /\ \A q \in Procs \ {p} : call[q].op # "" /\ c.op \in {"put", "delete", "rmbucket"} /\ Obj!SameObject(call[q], c) => ~call'[q].alone
         /\ \A q \in Procs \ {p} : call[q].op \in {"put", "delete", "rmbucket"} /\ Obj!SameObject(call[q], c) => ~call'[p].alone
         /\ Apart'
<1>1. \A q \in Procs : ObjCall(call[q])
  BY Zenon DEF ObjInv, ObjTypes
<1>2. /\ call[p].pc = "idle" /\ call' = [q \in Procs |-> call'[q]]
      /\ call'[p] = [c EXCEPT !.alone = \A r \in Procs : ~(Obj!Changes(call[r]) /\ Obj!SameObject(call[r], c))]
      /\ \A q \in Procs \ {p} :
           call'[q] = IF Obj!Changes(c) /\ call[q].pc # "idle" /\ Obj!SameObject(call[q], c)
                      THEN [call[q] EXCEPT !.alone = FALSE] ELSE call[q]
  BY Zenon DEF Obj!Start
<1>3. /\ \A q \in Procs : call[q].pc = "idle" <=> call[q].op = ""
      /\ \A q \in Procs : Obj!Changes(call[q]) <=> call[q].op \in {"put", "delete", "rmbucket"}
      /\ Obj!Changes(c) <=> c.op \in {"put", "delete", "rmbucket"}
  BY Zenon, <1>1 DEF ObjCall, Obj!Changes
<1>4. Near(c, call'[p], {}) /\ call'[p].linked = c.linked
  BY Zenon, <1>2 DEF Near, ObjCall, ObjFields
<1>5. ASSUME NEW q \in Procs \ {p} PROVE Near(call[q], call'[q], {})
  <2>1. DOMAIN call[q] = ObjFields
    BY Zenon, <1>1 DEF ObjCall
  <2>2. CASE call'[q] = [call[q] EXCEPT !.alone = FALSE]
    BY ZenonT(60), <2>1, <2>2 DEF Near, ObjFields
  <2>3. CASE call'[q] = call[q]
    BY Zenon, <2>3 DEF Near
  <2> QED
    BY Zenon, <1>2, <2>2, <2>3
<1>6. ASSUME NEW q \in Procs \ {p}, call[q].op # "", c.op \in {"put", "delete", "rmbucket"}, Obj!SameObject(call[q], c)
      PROVE  ~call'[q].alone
  <2>1. call'[q] = [call[q] EXCEPT !.alone = FALSE]
    BY Zenon, <1>2, <1>3, <1>6
  <2> QED
    BY Zenon, <1>1, <2>1 DEF ObjCall, ObjFields
<1>7. ASSUME NEW q \in Procs \ {p}, call[q].op \in {"put", "delete", "rmbucket"}, Obj!SameObject(call[q], c)
      PROVE  ~call'[p].alone
  <2>1. ~(\A r \in Procs : ~(Obj!Changes(call[r]) /\ Obj!SameObject(call[r], c)))
    BY Zenon, <1>3, <1>7
  <2>2. call'[p].alone = (\A r \in Procs : ~(Obj!Changes(call[r]) /\ Obj!SameObject(call[r], c)))
    BY Zenon, <1>2 DEF ObjCall, ObjFields
  <2> QED
    BY Zenon, <2>1, <2>2
<1>8. Apart'
  <2> SUFFICES ASSUME NEW q \in Procs, NEW r \in Procs, q # r, call'[q].op # "", call'[q].alone,
                      call'[r].op \in {"put", "delete", "rmbucket"}
               PROVE  ~Obj!SameObject(call'[r], call'[q])
    BY Zenon DEF Apart
  <2>1. call'[p].op = c.op /\ call'[p].id = c.id /\ \A s \in Procs \ {p} : call'[s].op = call[s].op /\ call'[s].id = call[s].id
    BY Zenon, <1>4, <1>5 DEF Near
  <2>2. CASE q = p
    <3>1. ~Obj!SameObject(call[r], c)
      BY Zenon, <1>7, <2>1, <2>2
    <3> QED
      BY Zenon, <2>1, <2>2, <3>1 DEF Obj!SameObject
  <2>3. CASE r = p
    <3>1. ~Obj!SameObject(call[q], c)
      BY Zenon, <1>6, <2>1, <2>3
    <3> QED
      BY Zenon, <2>1, <2>3, <3>1 DEF Obj!SameObject
  <2>4. CASE q # p /\ r # p
    <3>1. ~Obj!SameObject(call[r], call[q])
      BY Zenon, <1>5, <2>1, <2>4 DEF ObjInv, Apart, Near
    <3> QED
      BY Zenon, <2>1, <2>4, <3>1 DEF Obj!SameObject
  <2> QED
    BY Zenon, <2>2, <2>3, <2>4
<1> QED
  BY ZenonT(60), <1>2, <1>3, <1>4, <1>5, <1>6, <1>7, <1>8

\* Where the calls of an object that is at rest start from.
LEMMA AtRest ==
  ASSUME ObjInv, NEW p \in Procs, NEW i \in Obj!ObjectIds, NEW c, c.id = i, call[p].op = "",
         \A q \in Procs \ {p} : call[q].op \in {"put", "delete", "rmbucket"} => ~Obj!SameObject(call[q], c),
         i \notin Marked, rec[i] # None
  PROVE  file[i] = rec[i]
BY Zenon DEF ObjInv, Settled, Obj!SameObject

LEMMA ObjBeginPut ==
  ASSUME ObjInv, NEW p \in Procs, NEW i \in Obj!ObjectIds, NEW d \in Contents, Obj!BeginPut(p, i, d)
  PROVE  ObjInv'
<1> DEFINE c == [Obj!Idle EXCEPT !.pc = "open", !.op = "put", !.id = i, !.data = d]
<1>1. Obj!Start(p, c) /\ dirs' = dirs \cup {i[1]} /\ UNCHANGED <<buckets, rec, file, Marked, stops>>
  BY Zenon DEF Obj!BeginPut, Marked
<1>2. c.pc = "open" /\ c.op = "put" /\ c.id = i /\ c.data = d /\ c.alone = TRUE /\ DOMAIN c = ObjFields
  BY Zenon DEF Obj!Idle, ObjFields
<1> HIDE DEF c
<1>3. ObjCall(c)
  BY Zenon, <1>2 DEF ObjCall
<1>4. /\ call[p].op = "" /\ call' = [q \in Procs |-> call'[q]] /\ Near(c, call'[p], {})
      /\ \A q \in Procs \ {p} : Near(call[q], call'[q], {})
      /\ \A q \in Procs \ {p} : call[q].op \in {"put", "delete", "rmbucket"} /\ Obj!SameObject(call[q], c) => ~call'[p].alone
      /\ Apart'
  BY Zenon, <1>1, <1>2, <1>3, ObjStart
<1>5. ObjCall(call'[p]) /\ call'[p].op = "put" /\ call'[p].pc = "open" /\ call'[p].id = i
  BY Zenon, <1>2, <1>3, <1>4, NearCall DEF Near
<1>6. PutAlone(p)' /\ DropAlone(p)' /\ GetAlone(p)'
  <2>1. ASSUME call'[p].alone, i \notin Marked, rec[i] # None PROVE file[i] = rec[i]
    BY Zenon, <1>2, <1>4, <2>1, AtRest
  <2> QED
    BY Zenon, <1>1, <1>5, <2>1 DEF PutAlone, DropAlone, GetAlone
<1>7. rec' = [j \in Obj!ObjectIds |-> rec'[j]] /\ file' = [j \in Obj!ObjectIds |-> file'[j]]
  BY Zenon, <1>1 DEF ObjInv, ObjTypes
<1>8. {} \in SUBSET Obj!ObjectIds
  OBVIOUS
<1> QED
  BY ZenonT(60), <1>1, <1>4, <1>5, <1>6, <1>7, <1>8, ObjActs

LEMMA ObjBeginGet ==
  ASSUME ObjInv, NEW p \in Procs, NEW i \in Obj!ObjectIds, Obj!BeginGet(p, i)
  PROVE  ObjInv'
<1> DEFINE c == [Obj!Idle EXCEPT !.pc = "open", !.op = "get", !.id = i, !.data = rec[i]]
<1>1. Obj!Start(p, c) /\ UNCHANGED <<buckets, dirs, rec, file, Marked, stops>> /\ rec[i] # None
  BY Zenon DEF Obj!BeginGet, Marked
<1>2. c.pc = "open" /\ c.op = "get" /\ c.id = i /\ c.data = rec[i] /\ c.alone = TRUE /\ DOMAIN c = ObjFields
  BY Zenon DEF Obj!Idle, ObjFields
<1> HIDE DEF c
<1>3. ObjCall(c)
  BY Zenon, <1>2 DEF ObjCall
<1>4. /\ call[p].op = "" /\ call' = [q \in Procs |-> call'[q]] /\ Near(c, call'[p], {})
      /\ \A q \in Procs \ {p} : Near(call[q], call'[q], {})
      /\ \A q \in Procs \ {p} : call[q].op \in {"put", "delete", "rmbucket"} /\ Obj!SameObject(call[q], c) => ~call'[p].alone
      /\ Apart'
  BY Zenon, <1>1, <1>2, <1>3, ObjStart
<1>5. ObjCall(call'[p]) /\ call'[p].op = "get" /\ call'[p].pc = "open" /\ call'[p].id = i /\ call'[p].data = rec[i]
  BY Zenon, <1>2, <1>3, <1>4, NearCall DEF Near
<1>6. PutAlone(p)' /\ DropAlone(p)' /\ GetAlone(p)'
  <2>1. ASSUME call'[p].alone, i \notin Marked PROVE file[i] = rec[i]
    BY Zenon, <1>1, <1>2, <1>4, <2>1, AtRest
  <2> QED
    BY Zenon, <1>1, <1>5, <2>1 DEF PutAlone, DropAlone, GetAlone
<1>7. rec' = [j \in Obj!ObjectIds |-> rec'[j]] /\ file' = [j \in Obj!ObjectIds |-> file'[j]]
  BY Zenon, <1>1 DEF ObjInv, ObjTypes
<1>8. {} \in SUBSET Obj!ObjectIds
  OBVIOUS
<1> QED
  BY ZenonT(60), <1>1, <1>4, <1>5, <1>6, <1>7, <1>8, ObjActs

LEMMA ObjBeginDelete ==
  ASSUME ObjInv, NEW p \in Procs, NEW i \in Obj!ObjectIds, Obj!BeginDelete(p, i)
  PROVE  ObjInv'
<1> DEFINE c == [Obj!Idle EXCEPT !.pc = "remove", !.op = "delete", !.id = i]
<1>1. Obj!Start(p, c) /\ rec' = [rec EXCEPT ![i] = None] /\ UNCHANGED <<buckets, dirs, file, Marked, stops>>
  BY Zenon DEF Obj!BeginDelete, Marked
<1>2. c.pc = "remove" /\ c.op = "delete" /\ c.id = i /\ c.alone = TRUE /\ DOMAIN c = ObjFields
  BY Zenon DEF Obj!Idle, ObjFields
<1> HIDE DEF c
<1>3. ObjCall(c)
  BY Zenon, <1>2 DEF ObjCall
<1>4. /\ call[p].op = "" /\ call' = [q \in Procs |-> call'[q]] /\ Near(c, call'[p], {})
      /\ \A q \in Procs \ {p} : Near(call[q], call'[q], {})
      /\ \A q \in Procs \ {p} : call[q].op # "" /\ Obj!SameObject(call[q], c) => ~call'[q].alone
      /\ Apart'
  BY Zenon, <1>1, <1>2, <1>3, ObjStart
<1>5. ObjCall(call'[p]) /\ call'[p].op = "delete" /\ call'[p].id = i
  BY Zenon, <1>2, <1>3, <1>4, NearCall DEF Near
<1>6. /\ rec' = [j \in Obj!ObjectIds |-> rec'[j]] /\ file' = [j \in Obj!ObjectIds |-> file'[j]] /\ rec'[i] = None
      /\ \A j \in Obj!ObjectIds \ {i} : rec'[j] = rec[j]
  BY Zenon, <1>1 DEF ObjInv, ObjTypes
<1>7. PutAlone(p)' /\ DropAlone(p)' /\ GetAlone(p)'
  BY Zenon, <1>5, <1>6 DEF PutAlone, DropAlone, GetAlone
<1>8. \A q \in Procs \ {p} : Near(call[q], call'[q], {i})
  BY Zenon, <1>4 DEF Near
<1>9. \A q \in Procs \ {p} : call'[q].alone /\ call[q].op \in {"put", "get", "delete"} => call[q].id \notin {i}
  BY Zenon, <1>2, <1>4 DEF Obj!SameObject
<1>10. {i} \in SUBSET Obj!ObjectIds
  OBVIOUS
<1> QED
  BY ZenonT(60), <1>1, <1>4, <1>5, <1>6, <1>7, <1>8, <1>9, <1>10, ObjActs

LEMMA ObjBeginCreateBucket ==
  ASSUME ObjInv, NEW p \in Procs, NEW b \in Buckets, NEW k, Obj!BeginCreateBucket(p, b, k)
  PROVE  ObjInv'
<1> DEFINE c == [Obj!Idle EXCEPT !.pc = "mkdir", !.op = "mkbucket", !.id = <<b, k>>]
<1>1. Obj!Start(p, c) /\ UNCHANGED <<dirs, rec, file, Marked, stops>>
  BY Zenon DEF Obj!BeginCreateBucket, Marked
<1>2. c.pc = "mkdir" /\ c.op = "mkbucket" /\ c.alone = TRUE /\ DOMAIN c = ObjFields
  BY Zenon DEF Obj!Idle, ObjFields
<1> HIDE DEF c
<1>3. ObjCall(c)
  BY Zenon, <1>2 DEF ObjCall
<1>4. /\ call[p].op = "" /\ call' = [q \in Procs |-> call'[q]] /\ Near(c, call'[p], {})
      /\ \A q \in Procs \ {p} : Near(call[q], call'[q], {})
      /\ Apart'
  BY Zenon, <1>1, <1>2, <1>3, ObjStart
<1>5. ObjCall(call'[p]) /\ call'[p].op = "mkbucket"
  BY Zenon, <1>2, <1>3, <1>4, NearCall DEF Near
<1>6. PutAlone(p)' /\ DropAlone(p)' /\ GetAlone(p)'
  BY Zenon, <1>5 DEF PutAlone, DropAlone, GetAlone
<1>7. rec' = [j \in Obj!ObjectIds |-> rec'[j]] /\ file' = [j \in Obj!ObjectIds |-> file'[j]]
  BY Zenon, <1>1 DEF ObjInv, ObjTypes
<1>8. {} \in SUBSET Obj!ObjectIds
  OBVIOUS
<1> QED
  BY Zenon, <1>1, <1>4, <1>5, <1>6, <1>7, <1>8, ObjActs

LEMMA ObjBeginDeleteBucket ==
  ASSUME ObjInv, NEW p \in Procs, NEW b \in Buckets, NEW k, Obj!BeginDeleteBucket(p, b, k)
  PROVE  ObjInv'
<1> DEFINE c == [Obj!Idle EXCEPT !.pc = "rmall", !.op = "rmbucket", !.id = <<b, k>>]
<1>1. Obj!Start(p, c) /\ UNCHANGED <<dirs, rec, file, Marked, stops>>
  BY Zenon DEF Obj!BeginDeleteBucket, Marked
<1>2. c.pc = "rmall" /\ c.op = "rmbucket" /\ c.id = <<b, k>> /\ c.alone = TRUE /\ DOMAIN c = ObjFields
  BY Zenon DEF Obj!Idle, ObjFields
<1> HIDE DEF c
<1>3. ObjCall(c)
  BY <1>2 DEF ObjCall
<1>4. /\ call[p].op = "" /\ call' = [q \in Procs |-> call'[q]] /\ Near(c, call'[p], {})
      /\ \A q \in Procs \ {p} : Near(call[q], call'[q], {})
      /\ Apart'
  BY Zenon, <1>1, <1>2, <1>3, ObjStart
<1>5. ObjCall(call'[p]) /\ call'[p].op = "rmbucket"
  BY Zenon, <1>2, <1>3, <1>4, NearCall DEF Near
<1>6. PutAlone(p)' /\ DropAlone(p)' /\ GetAlone(p)'
  BY Zenon, <1>5 DEF PutAlone, DropAlone, GetAlone
<1>7. rec' = [j \in Obj!ObjectIds |-> rec'[j]] /\ file' = [j \in Obj!ObjectIds |-> file'[j]]
  BY ZenonT(60), <1>1 DEF ObjInv, ObjTypes
<1>8. {} \in SUBSET Obj!ObjectIds
  OBVIOUS
<1> QED
  BY ZenonT(60), <1>1, <1>4, <1>5, <1>6, <1>7, <1>8, ObjActs

\* Who is alone while p changes an object is at work on another one.
LEMMA Elsewhere ==
  ASSUME ObjInv, NEW p \in Procs, call[p].op \in {"put", "delete"}, NEW q \in Procs \ {p},
         call[q].alone, call[q].op \in {"put", "get", "delete"}
  PROVE  call[q].id # call[p].id
<1>1. ~Obj!SameObject(call[p], call[q])
  BY Zenon DEF ObjInv, Apart
<1> QED
  BY Zenon, <1>1 DEF Obj!SameObject

LEMMA ObjReturns ==
  ASSUME ObjInv, NEW p \in Procs, Obj!Return(p)
  PROVE  /\ call' = [q \in Procs |-> call'[q]] /\ call'[p].op = "" /\ ObjCall(call'[p])
         /\ \A q \in Procs \ {p} : call'[q] = call[q]
         /\ PutAlone(p)' /\ DropAlone(p)' /\ GetAlone(p)' /\ Apart'
<1>1. Obj!Idle.op = "" /\ ObjCall(Obj!Idle)
  BY Zenon DEF Obj!Idle, ObjCall, ObjFields
<1> HIDE DEF Obj!Idle
<1>2. call' = [q \in Procs |-> call'[q]] /\ call'[p] = Obj!Idle /\ \A q \in Procs \ {p} : call'[q] = call[q]
  BY Zenon DEF Obj!Return, ObjInv, ObjTypes
<1>3. Apart'
  BY Zenon, <1>1, <1>2, ApartStays DEF ObjInv
<1>4. PutAlone(p)' /\ DropAlone(p)' /\ GetAlone(p)'
  BY Zenon, <1>1, <1>2 DEF PutAlone, DropAlone, GetAlone
<1> QED
  BY Zenon, <1>1, <1>2, <1>3, <1>4

\* Calls that end with their object in order, or dirty.
LEMMA ObjEnds ==
  ASSUME ObjInv, NEW p \in Procs, Obj!Return(p), NEW S \in SUBSET Obj!ObjectIds, UNCHANGED file,
         call[p].op \in {"put", "delete"} => S = {call[p].id}, call[p].op \notin {"put", "delete"} => S = {},
         dirs \subseteq dirs',
         rec' = [i \in Obj!ObjectIds |-> rec'[i]],
         \A i \in Obj!ObjectIds \ S : rec'[i] = rec[i] /\ (i \in Marked => i \in Marked'),
         \A i \in S : i \in Marked' \/ rec'[i] = None \/ file[i] = rec'[i]
  PROVE  ObjInv'
<1>1. /\ call' = [q \in Procs |-> call'[q]] /\ call'[p].op = "" /\ ObjCall(call'[p])
      /\ \A q \in Procs \ {p} : call'[q] = call[q]
      /\ PutAlone(p)' /\ DropAlone(p)' /\ GetAlone(p)' /\ Apart'
  BY Zenon, ObjReturns
<1>2. \A q \in Procs \ {p} : Near(call[q], call'[q], S)
  BY Zenon, <1>1 DEF Near
<1>3. ASSUME NEW q \in Procs \ {p}, call'[q].alone, call[q].op \in {"put", "get", "delete"} PROVE call[q].id \notin S
  <2>1. CASE call[p].op \in {"put", "delete"}
    <3>1. call[q].id # call[p].id
      BY Zenon, <1>1, <1>3, <2>1, Elsewhere
    <3> QED
      BY Zenon, <2>1, <3>1
  <2>2. CASE call[p].op \notin {"put", "delete"}
    BY Zenon, <2>2
  <2> QED
    BY Zenon, <2>1, <2>2
<1>4. file' = [i \in Obj!ObjectIds |-> file'[i]]
  BY Zenon DEF ObjInv, ObjTypes
<1> QED
  BY Zenon, <1>1, <1>2, <1>3, <1>4, ObjActs

\* PutObject writes its own object only.
LEMMA ObjPutGoesOn ==
  ASSUME ObjInv, NEW p \in Procs, call[p].op = "put", NEW f, file' = [file EXCEPT ![call[p].id] = f],
         UNCHANGED <<dirs, rec, Marked>>,
         call' = [q \in Procs |-> call'[q]], \A q \in Procs \ {p} : call'[q] = call[q],
         call'[p].op = "put", call'[p].id = call[p].id, call'[p].alone = call[p].alone, ObjCall(call'[p]), PutAlone(p)'
  PROVE  ObjInv'
<1> DEFINE i == call[p].id
<1>1. i \in Obj!ObjectIds
  BY Zenon DEF ObjInv, ObjTypes, ObjCall
<1>2. /\ rec' = [j \in Obj!ObjectIds |-> rec'[j]] /\ file' = [j \in Obj!ObjectIds |-> file'[j]]
      /\ \A j \in Obj!ObjectIds \ {i} : file'[j] = file[j]
  BY Zenon, <1>1 DEF ObjInv, ObjTypes
<1>3. \A q \in Procs \ {p} : Near(call[q], call'[q], {i})
  BY Zenon DEF Near
<1>4. \A q \in Procs \ {p} : call'[q].alone /\ call[q].op \in {"put", "get", "delete"} => call[q].id \notin {i}
  BY Zenon, Elsewhere
<1>5. Apart'
  BY Zenon, ApartStays DEF ObjInv
<1>6. DropAlone(p)' /\ GetAlone(p)'
  BY Zenon DEF DropAlone, GetAlone
<1>7. {i} \in SUBSET Obj!ObjectIds /\ call'[p].id = i /\ call[p].id \in {i}
  BY Zenon, <1>1
<1> HIDE DEF i
<1> QED
  BY ZenonT(60), <1>2, <1>3, <1>4, <1>5, <1>6, <1>7, ObjActs

LEMMA ObjPutOpen ==
  ASSUME ObjInv, NEW p \in Procs, Obj!PutOpen(p)
  PROVE  ObjInv'
<1>1. /\ call[p].op = "put" /\ call[p].pc = "open" /\ call[p].id \in Obj!ObjectIds /\ ObjCall(call[p])
      /\ UNCHANGED <<buckets, dirs, rec, calls, stops>>
  BY Zenon DEF Obj!PutOpen, ObjInv, ObjTypes, ObjCall
<1>2. CASE call[p].id[1] \in dirs
  <2>1. /\ file' = [file EXCEPT ![call[p].id] = <<>>] /\ call' = [call EXCEPT ![p].pc = "write", ![p].linked = TRUE]
        /\ UNCHANGED Marked
    BY Zenon, <1>2 DEF Obj!PutOpen, Marked
  <2>2. /\ call' = [q \in Procs |-> call'[q]] /\ \A q \in Procs \ {p} : call'[q] = call[q]
        /\ call'[p].op = "put" /\ call'[p].pc = "write" /\ call'[p].id = call[p].id /\ call'[p].data = call[p].data
        /\ call'[p].linked = TRUE /\ call'[p].alone = call[p].alone /\ DOMAIN call'[p] = ObjFields
    BY Zenon, <1>1, <2>1 DEF ObjInv, ObjTypes, ObjCall, ObjFields
  <2>3. ObjCall(call'[p])
    BY Zenon, <1>1, <2>2 DEF ObjCall
  <2>4. PutAlone(p)'
    <3>1. file'[call[p].id] = <<>>
      BY Zenon, <1>1, <2>1 DEF ObjInv, ObjTypes
    <3> QED
      BY Zenon, <2>2, <3>1 DEF PutAlone
  <2> QED
    BY ZenonT(60), <1>1, <2>1, <2>2, <2>3, <2>4, ObjPutGoesOn
<1>3. CASE call[p].id[1] \notin dirs
  <2>1. Obj!Return(p) /\ Obj!Settle(p) /\ UNCHANGED file /\ ~call[p].alone
    BY Zenon, <1>1, <1>3 DEF Obj!PutOpen, ObjInv, PutAlone
  <2>2. Marked' = Marked \cup {call[p].id} /\ {call[p].id} \in SUBSET Obj!ObjectIds
    BY Zenon, <1>1, <2>1 DEF Obj!Settle, Marked
  <2>3. rec' = [i \in Obj!ObjectIds |-> rec'[i]]
    BY Zenon, <1>1 DEF ObjInv, ObjTypes
  <2> QED
    BY Zenon, <1>1, <2>1, <2>2, <2>3, ObjEnds
<1> QED
  BY Zenon, <1>2, <1>3

LEMMA ObjPutWrite ==
  ASSUME Obj!ContentsAssumption, ObjInv, NEW p \in Procs, Obj!PutWrite(p)
  PROVE  ObjInv'
<1> DEFINE i == call[p].id
           d == call[p].data
           f == IF call[p].linked THEN d \o SubSeq(file[i], Len(d) + 1, Len(file[i])) ELSE file[i]
<1>1. /\ call[p].op = "put" /\ call[p].pc = "write" /\ i \in Obj!ObjectIds /\ d \in Contents /\ DOMAIN call[p] = ObjFields
      /\ call' = [call EXCEPT ![p].pc = "record"] /\ UNCHANGED <<buckets, dirs, rec, Marked, calls, stops>>
  BY Zenon DEF Obj!PutWrite, Obj!Goto, ObjInv, ObjTypes, ObjCall, Marked
<1>2. file' = [file EXCEPT ![i] = f]
  BY Zenon, <1>1 DEF Obj!PutWrite, ObjInv, ObjTypes
<1>3. call[p].alone => f = d
  <2> SUFFICES ASSUME call[p].alone PROVE f = d
    OBVIOUS
  <2>1. call[p].linked /\ file[i] = <<>>
    BY Zenon, <1>1 DEF ObjInv, PutAlone
  <2>2. d \in Seq(Nat) /\ Len(d) \in Nat
    BY <1>1 DEF Obj!ContentsAssumption
  <2>3. SubSeq(<<>>, Len(d) + 1, Len(<<>>)) = <<>> /\ d \o <<>> = d
    BY <2>2
  <2> QED
    BY Zenon, <2>1, <2>3
<1> HIDE DEF f
<1>4. /\ call' = [q \in Procs |-> call'[q]] /\ \A q \in Procs \ {p} : call'[q] = call[q]
      /\ call'[p].op = "put" /\ call'[p].pc = "record" /\ call'[p].id = i /\ call'[p].data = d
      /\ call'[p].alone = call[p].alone /\ DOMAIN call'[p] = ObjFields
  BY Zenon, <1>1 DEF ObjInv, ObjTypes, ObjFields
<1>5. ObjCall(call'[p])
  BY Zenon, <1>1, <1>4 DEF ObjCall
<1>6. PutAlone(p)'
  <2>1. file'[i] = f
    BY Zenon, <1>1, <1>2 DEF ObjInv, ObjTypes
  <2> QED
    BY Zenon, <1>3, <1>4, <2>1 DEF PutAlone
<1> QED
  BY ZenonT(60), <1>1, <1>2, <1>4, <1>5, <1>6, ObjPutGoesOn

LEMMA ObjPutRecord ==
  ASSUME ObjInv, NEW p \in Procs, Obj!PutRecord(p)
  PROVE  ObjInv'
<1> DEFINE i == call[p].id
<1>1. /\ call[p].op = "put" /\ call[p].pc = "record" /\ i \in Obj!ObjectIds /\ Obj!Return(p)
      /\ rec' = [rec EXCEPT ![i] = call[p].data] /\ UNCHANGED <<buckets, dirs, file, calls, stops>>
      /\ Marked' = IF call[p].alone THEN Marked \ {i} ELSE Marked \cup {i}
  BY Zenon DEF Obj!PutRecord, Obj!Settle, ObjInv, ObjTypes, ObjCall, Marked
<1>2. /\ rec' = [j \in Obj!ObjectIds |-> rec'[j]] /\ rec'[i] = call[p].data /\ \A j \in Obj!ObjectIds \ {i} : rec'[j] = rec[j]
  BY Zenon, <1>1 DEF ObjInv, ObjTypes
<1>3. call[p].alone => file[i] = call[p].data
  BY Zenon, <1>1 DEF ObjInv, PutAlone
<1>4. {i} \in SUBSET Obj!ObjectIds /\ (call[p].op \in {"put", "delete"} => {i} = {call[p].id})
  BY ZenonT(60), <1>1
<1>5. /\ \A j \in Obj!ObjectIds \ {i} : rec'[j] = rec[j] /\ (j \in Marked => j \in Marked')
      /\ \A j \in {i} : j \in Marked' \/ rec'[j] = None \/ file[j] = rec'[j]
  BY Zenon, <1>1, <1>2, <1>3
<1> HIDE DEF i
<1> QED
  BY ZenonT(60), <1>1, <1>2, <1>4, <1>5, ObjEnds

LEMMA ObjGetOpen ==
  ASSUME ObjInv, NEW p \in Procs, Obj!GetOpen(p)
  PROVE  ObjInv'
<1>1. /\ call[p].op = "get" /\ call[p].pc = "open" /\ call[p].id \in Obj!ObjectIds /\ ObjCall(call[p])
      /\ UNCHANGED <<buckets, dirs, rec, file, Marked, calls, stops>>
  BY Zenon DEF Obj!GetOpen, ObjInv, ObjTypes, ObjCall, Marked
<1>2. /\ rec' = [i \in Obj!ObjectIds |-> rec'[i]] /\ file' = [i \in Obj!ObjectIds |-> file'[i]] /\ {} \in SUBSET Obj!ObjectIds
  BY Zenon, <1>1 DEF ObjInv, ObjTypes
<1>3. CASE Obj!Return(p)
  BY ZenonT(60), <1>1, <1>2, <1>3, ObjEnds
<1>4. CASE call' = [call EXCEPT ![p].pc = "read", ![p].linked = TRUE]
  <2>1. /\ call' = [q \in Procs |-> call'[q]] /\ \A q \in Procs \ {p} : call'[q] = call[q]
        /\ call'[p].op = "get" /\ call'[p].pc = "read" /\ call'[p].id = call[p].id /\ call'[p].data = call[p].data
        /\ call'[p].linked = TRUE /\ call'[p].alone = call[p].alone /\ DOMAIN call'[p] = ObjFields
    BY Zenon, <1>1, <1>4 DEF ObjInv, ObjTypes, ObjCall, ObjFields
  <2>2. ObjCall(call'[p])
    BY ZenonT(60), <1>1, <2>1 DEF ObjCall
  <2>3. PutAlone(p)' /\ DropAlone(p)' /\ GetAlone(p)'
    BY <1>1, <2>1 DEF ObjInv, PutAlone, DropAlone, GetAlone
  <2>4. Apart'
    BY Zenon, <1>1, <2>1, ApartStays DEF ObjInv
  <2>5. \A q \in Procs \ {p} : Near(call[q], call'[q], {})
    BY Zenon, <2>1 DEF Near
  <2> QED
    BY Zenon, <1>1, <1>2, <2>1, <2>2, <2>3, <2>4, <2>5, ObjActs
<1> QED
  BY Zenon, <1>3, <1>4 DEF Obj!GetOpen

\* GetRead and CreateDir change no object.
LEMMA ObjOthersEnd ==
  ASSUME ObjInv, NEW p \in Procs, Obj!GetRead(p) \/ Obj!CreateDir(p)
  PROVE  ObjInv'
<1>1. /\ call[p].op \notin {"put", "delete"} /\ Obj!Return(p) /\ dirs \subseteq dirs' /\ UNCHANGED <<rec, file, Marked>>
  BY Zenon DEF Obj!GetRead, Obj!CreateDir, ObjInv, ObjTypes, ObjCall, Marked
<1>2. rec' = [i \in Obj!ObjectIds |-> rec'[i]] /\ {} \in SUBSET Obj!ObjectIds
  BY Zenon, <1>1 DEF ObjInv, ObjTypes
<1> QED
  BY Zenon, <1>1, <1>2, ObjEnds

\* Removing files: the calls that had them open write to no file any more.
LEMMA ObjRemoves ==
  ASSUME ObjInv, NEW p \in Procs, NEW S \in SUBSET Obj!ObjectIds, call' = [Obj!Unlink(S) EXCEPT ![p] = Obj!Idle],
         call[p].op \in {"put", "delete"} => call[p].id \in S,
         file' = [i \in Obj!ObjectIds |-> file'[i]], \A i \in Obj!ObjectIds \ S : file'[i] = file[i] /\ (i \in Marked => i \in Marked'),
         UNCHANGED rec, \A i \in S : i \in Marked' \/ rec[i] = None,
         \A q \in Procs \ {p} : call[q].alone /\ call[q].op \in {"put", "get", "delete"} =>
            call[q].id \notin S /\ (call[q].id[1] \in dirs => call[q].id[1] \in dirs')
  PROVE  ObjInv'
<1>1. Obj!Idle.op = "" /\ ObjCall(Obj!Idle)
  BY Zenon DEF Obj!Idle, ObjCall, ObjFields
<1> HIDE DEF Obj!Idle
<1>2. /\ call' = [q \in Procs |-> call'[q]] /\ call'[p] = Obj!Idle
      /\ \A q \in Procs \ {p} : call'[q] = IF call[q].id \in S THEN [call[q] EXCEPT !.linked = FALSE] ELSE call[q]
  BY Zenon DEF Obj!Unlink
<1>3. ASSUME NEW q \in Procs \ {p} PROVE Near(call[q], call'[q], S) /\ call'[q].alone = call[q].alone
  <2>1. DOMAIN call[q] = ObjFields
    BY Zenon DEF ObjInv, ObjTypes, ObjCall
  <2>2. CASE call[q].id \in S
    <3>1. call'[q] = [call[q] EXCEPT !.linked = FALSE]
      BY Zenon, <1>2, <2>2
    <3> QED
      BY <2>1, <2>2, <3>1 DEF Near, ObjFields
  <2>3. CASE call[q].id \notin S
    BY Zenon, <1>2, <2>3 DEF Near
  <2> QED
    BY Zenon, <2>2, <2>3
<1>4. Apart'
  <2>1. \A q \in Procs : call'[q].op # "" =>
          call'[q].op = call[q].op /\ call'[q].id = call[q].id /\ (call'[q].alone => call[q].alone)
    BY ZenonT(60), <1>1, <1>2, <1>3 DEF Near
  <2> QED
    BY Zenon, <2>1, ApartStays DEF ObjInv
<1>5. PutAlone(p)' /\ DropAlone(p)' /\ GetAlone(p)'
  BY Zenon, <1>1, <1>2 DEF PutAlone, DropAlone, GetAlone
<1>6. rec' = [i \in Obj!ObjectIds |-> rec'[i]] /\ ObjCall(call'[p])
  BY Zenon, <1>1, <1>2 DEF ObjInv, ObjTypes
<1>7. /\ \A q \in Procs \ {p} : Near(call[q], call'[q], S)
      /\ \A q \in Procs \ {p} : call'[q].alone /\ call[q].op \in {"put", "get", "delete"} =>
            call[q].id \notin S /\ (call[q].id[1] \in dirs => call[q].id[1] \in dirs')
  BY Zenon, <1>3
<1>8. /\ \A i \in Obj!ObjectIds \ S : rec'[i] = rec[i] /\ file'[i] = file[i] /\ (i \in Marked => i \in Marked')
      /\ \A i \in S : \/ i \in Marked' \/ rec'[i] = None \/ file'[i] = rec'[i]
                      \/ call'[p].op \in {"put", "delete"} /\ call'[p].id = i
  OBVIOUS
<1>9. call[p].op \in {"put", "delete"} => call[p].id \in S \/ (call'[p].op = call[p].op /\ call'[p].id = call[p].id)
  OBVIOUS
<1> QED
  BY ZenonT(60), <1>2, <1>4, <1>5, <1>6, <1>7, <1>8, <1>9, ObjActs

LEMMA ObjDeleteFile ==
  ASSUME ObjInv, NEW p \in Procs, Obj!DeleteFile(p)
  PROVE  ObjInv'
<1> DEFINE i == call[p].id
<1>1. /\ call[p].op = "delete" /\ i \in Obj!ObjectIds
      /\ file' = [file EXCEPT ![i] = None] /\ call' = [Obj!Unlink({i}) EXCEPT ![p] = Obj!Idle]
      /\ Marked' = IF call[p].alone THEN Marked \ {i} ELSE Marked \cup {i}
      /\ UNCHANGED <<buckets, dirs, rec, calls, stops>>
  BY Zenon DEF Obj!DeleteFile, Obj!Settle, ObjInv, ObjTypes, ObjCall, Marked
<1>2. /\ file' = [j \in Obj!ObjectIds |-> file'[j]] /\ \A j \in Obj!ObjectIds \ {i} : file'[j] = file[j] /\ (j \in Marked => j \in Marked')
  BY Zenon, <1>1 DEF ObjInv, ObjTypes
<1>3. \A j \in {i} : j \in Marked' \/ rec[j] = None
  BY Zenon, <1>1 DEF ObjInv, DropAlone
<1>4. \A q \in Procs \ {p} : call[q].alone /\ call[q].op \in {"put", "get", "delete"} => call[q].id \notin {i}
  BY Zenon, <1>1, Elsewhere
<1>5. {i} \in SUBSET Obj!ObjectIds /\ call[p].id \in {i}
  BY Zenon, <1>1
<1> HIDE DEF i
<1> QED
  BY ZenonT(60), <1>1, <1>2, <1>3, <1>4, <1>5, ObjRemoves

LEMMA ObjRemoveAll ==
  ASSUME ObjInv, NEW p \in Procs, Obj!RemoveAll(p)
  PROVE  ObjInv'
<1> DEFINE b == call[p].id[1]
           S == {b} \X Keys
<1>1. /\ call[p].op = "rmbucket" /\ b \in Buckets
      /\ file' = [i \in Obj!ObjectIds |-> IF i \in S THEN None ELSE file[i]]
      /\ dirs' = dirs \ {b} /\ Marked' = Marked \cup {i \in S : rec[i] # None \/ ~call[p].alone}
      /\ call' = [Obj!Unlink(S) EXCEPT ![p] = Obj!Idle] /\ UNCHANGED <<buckets, rec, calls, stops>>
  BY Zenon DEF Obj!RemoveAll, ObjInv, ObjTypes, ObjCall, Marked
<1>2. S \in SUBSET Obj!ObjectIds
  BY Zenon, <1>1 DEF Obj!ObjectIds
<1>3. ASSUME NEW q \in Procs \ {p}, call[q].alone, call[q].op \in {"put", "get", "delete"}
      PROVE  call[q].id \notin S /\ (call[q].id[1] \in dirs => call[q].id[1] \in dirs')
  <2>1. ~Obj!SameObject(call[p], call[q])
    BY Zenon, <1>1, <1>3 DEF ObjInv, Apart
  <2>2. call[q].id[1] # b
    BY Zenon, <1>1, <2>1 DEF Obj!SameObject
  <2> QED
    BY Zenon, <1>1, <2>2
<1>4. /\ file' = [i \in Obj!ObjectIds |-> file'[i]] /\ \A i \in Obj!ObjectIds \ S : file'[i] = file[i] /\ (i \in Marked => i \in Marked')
      /\ \A i \in S : i \in Marked' \/ rec[i] = None
  BY Zenon, <1>1
<1> HIDE DEF S
<1> QED
  BY ZenonT(60), <1>1, <1>2, <1>3, <1>4, ObjRemoves

\* The API's DELETE disturbs whoever is at work on the object.
LEMMA ObjHandleDelete ==
  ASSUME ObjInv, NEW i \in Obj!ObjectIds, Obj!HandleObjectsDelete(i)
  PROVE  ObjInv'
<1>1. /\ rec' = [j \in Obj!ObjectIds |-> rec'[j]] /\ file' = [j \in Obj!ObjectIds |-> file'[j]] /\ rec'[i] = None
      /\ \A j \in Obj!ObjectIds \ {i} : rec'[j] = rec[j]
      /\ UNCHANGED <<buckets, dirs, file, Marked, stops>>
  BY Zenon DEF Obj!HandleObjectsDelete, ObjInv, ObjTypes, Marked
<1>2. /\ call' = [q \in Procs |-> call'[q]]
      /\ \A q \in Procs : call'[q] = IF q \in Obj!On(i) \/ (call[q].op = "get" /\ call[q].id = i)
                                    THEN [call[q] EXCEPT !.alone = FALSE] ELSE call[q]
  BY Zenon DEF Obj!HandleObjectsDelete
<1>3. ASSUME NEW q \in Procs PROVE Near(call[q], call'[q], {i})
  <2>1. DOMAIN call[q] = ObjFields
    BY Zenon DEF ObjInv, ObjTypes, ObjCall
  <2>2. CASE call'[q] = [call[q] EXCEPT !.alone = FALSE]
    BY Zenon, <2>1, <2>2 DEF Near, ObjFields
  <2>3. CASE call'[q] = call[q]
    BY Zenon, <2>3 DEF Near
  <2> QED
    BY Zenon, <1>2, <2>2, <2>3
<1>4. ASSUME NEW q \in Procs, call'[q].alone, call[q].op \in {"put", "get", "delete"}, call[q].id = i PROVE FALSE
  <2>1. DOMAIN call[q] = ObjFields /\ call[q].pc # "idle"
    BY Zenon, <1>4 DEF ObjInv, ObjTypes, ObjCall
  <2>2. q \in Obj!On(i) \/ call[q].op = "get"
    BY Zenon, <1>4, <2>1 DEF Obj!On, Obj!Changes, Obj!SameObject
  <2>3. call'[q] = [call[q] EXCEPT !.alone = FALSE]
    BY Zenon, <1>2, <1>4, <2>2
  <2> QED
    BY Zenon, <1>4, <2>1, <2>3 DEF ObjFields
<1>5. Apart'
  BY Zenon, <1>3, ApartStays DEF Near, ObjInv
<1> DEFINE A == {}
           S == {i}
<1>6. /\ A \in SUBSET Procs /\ S \in SUBSET Obj!ObjectIds
      /\ \A q \in Procs \ A : Near(call[q], call'[q], S)
      /\ \A q \in Procs \ A : call'[q].alone /\ call[q].op \in {"put", "get", "delete"} => call[q].id \notin S
      /\ \A j \in Obj!ObjectIds \ S : rec'[j] = rec[j] /\ file'[j] = file[j]
      /\ \A j \in S : rec'[j] = None
      /\ \A p : p \notin A
  BY Zenon, <1>1, <1>3, <1>4
<1> HIDE DEF A, S
<1>7. /\ \A q \in Procs \ A : call'[q].alone /\ call[q].op \in {"put", "get", "delete"} =>
           call[q].id \notin S /\ (call[q].id[1] \in dirs => call[q].id[1] \in dirs')
      /\ \A j \in Obj!ObjectIds \ S : rec'[j] = rec[j] /\ file'[j] = file[j] /\ (j \in Marked => j \in Marked')
      /\ \A j \in S : \/ j \in Marked' \/ rec'[j] = None \/ file'[j] = rec'[j]
                      \/ \E p \in A : call'[p].op \in {"put", "delete"} /\ call'[p].id = j
  BY Zenon, <1>1, <1>6
<1>8. \A p \in A : /\ ObjCall(call'[p]) /\ PutAlone(p)' /\ DropAlone(p)' /\ GetAlone(p)'
                   /\ call[p].op \in {"put", "delete"} =>
                        call[p].id \in S \/ (call'[p].op = call[p].op /\ call'[p].id = call[p].id)
  BY Zenon, <1>6
<1> QED
  BY ZenonT(60), <1>1, <1>2, <1>5, <1>6, <1>7, <1>8, ObjStep

\* A call that is cut off leaves its object dirty if it had opened the file of
\* an object with a record, or if it was not alone.
LEMMA ObjStop ==
  ASSUME ObjInv, NEW p \in Procs, Obj!Stop(p)
  PROVE  ObjInv'
<1> DEFINE i == call[p].id
           S == IF call[p].op \in {"put", "delete"} THEN {i} ELSE {}
<1>1. /\ Obj!Return(p) /\ UNCHANGED <<buckets, dirs, rec, file, calls>> /\ call[p].pc # "idle"
      /\ Marked' = IF Obj!Changes(call[p]) /\ (~call[p].alone \/ (call[p].pc \in {"write", "record"} /\ rec[i] # None))
                  THEN Marked \cup {i} ELSE Marked
  BY Zenon DEF Obj!Stop, Marked
<1>2. ObjCall(call[p]) /\ PutAlone(p) /\ DropAlone(p)
  BY Zenon DEF ObjInv, ObjTypes
<1>3. ASSUME call[p].op \in {"put", "delete"} PROVE i \in Marked' \/ rec[i] = None \/ file[i] = rec[i]
  <2>1. CASE ~call[p].alone
    BY Zenon, <1>1, <1>3, <2>1 DEF Obj!Changes
  <2>2. CASE call[p].alone /\ call[p].op = "delete"
    BY Zenon, <1>2, <2>2 DEF DropAlone
  <2>3. CASE call[p].alone /\ call[p].op = "put"
    <3>1. CASE call[p].pc = "open"
      BY Zenon, <1>1, <1>2, <2>3, <3>1 DEF PutAlone
    <3>2. CASE call[p].pc \in {"write", "record"}
      BY Zenon, <1>1, <1>3, <3>2 DEF Obj!Changes
    <3> QED
      BY Zenon, <1>2, <2>3, <3>1, <3>2 DEF ObjCall
  <2> QED
    BY Zenon, <1>3, <2>1, <2>2, <2>3
<1>4. call[p].op \in {"put", "delete"} => i \in Obj!ObjectIds
  BY Zenon, <1>2 DEF ObjCall
<1>5. /\ S \in SUBSET Obj!ObjectIds /\ (call[p].op \in {"put", "delete"} => S = {call[p].id}) /\ (call[p].op \notin {"put", "delete"} => S = {})
      /\ \A j \in S : j \in Marked' \/ rec[j] = None \/ file[j] = rec[j]
  BY Zenon, <1>3, <1>4
<1>6. rec' = [j \in Obj!ObjectIds |-> rec'[j]] /\ Marked \subseteq Marked'
  BY Zenon, <1>1 DEF ObjInv, ObjTypes
<1> HIDE DEF S, i
<1> QED
  BY Zenon, <1>1, <1>5, <1>6, ObjEnds

-----------------------------------------------------------------------------
(* The records that DeleteBucket leaves behind.                             *)

\* An object that a step leaves alone, or whose record or file is gone then.
LEMMA LostStays ==
  ASSUME NEW i, LostAt(i),
         \/ i \notin lost' \/ i \in dirty' \/ rec'[i] = None \/ file'[i] = None \/ Writing(i)'
         \/ /\ i \in lost' => i \in lost
            /\ i \in dirty => i \in dirty'
            /\ rec'[i] = rec[i] /\ file'[i] = file[i]
            /\ Writing(i) => Writing(i)'
  PROVE  LostAt(i)'
BY ZenonT(60) DEF LostAt

\* The calls that write go on, but for one that returns.
LEMMA WritingStays ==
  ASSUME NEW p \in Procs, NEW i, Writing(i),
         \A q \in Procs \ {p} : call'[q].op = call[q].op /\ call'[q].id = call[q].id /\ call'[q].pc = call[q].pc,
         call[p].op = "put" /\ call[p].id = i =>
           \/ call[p].pc \notin {"write", "record"}
           \/ call'[p].op = "put" /\ call'[p].id = i /\ call'[p].pc \in {"write", "record"}
  PROVE  Writing(i)'
BY ZenonT(60) DEF Writing

\* The first step of a call, and the API's DELETE: at most a record goes.
LEMMA LostBegins ==
  ASSUME ObjInv, LostInv, UNCHANGED <<file, dirty, lost>>,
         \A i \in Obj!ObjectIds : rec'[i] \in {rec[i], None},
         \A q \in Procs : call[q].op # "" => call'[q].op = call[q].op /\ call'[q].id = call[q].id /\ call'[q].pc = call[q].pc
  PROVE  LostInv'
<1> SUFFICES ASSUME NEW i \in Obj!ObjectIds PROVE LostAt(i)'
  BY Zenon DEF LostInv
<1>1. Writing(i) => Writing(i)'
  BY ZenonT(60) DEF Writing
<1>2. LostAt(i)
  BY Zenon DEF LostInv
<1>3. CASE rec'[i] = None
  BY ZenonT(60), <1>2, <1>3, LostStays
<1>4. CASE rec'[i] = rec[i]
  BY ZenonT(60), <1>1, <1>2, <1>4, LostStays
<1> QED
  BY Zenon, <1>3, <1>4

LEMMA LostStart ==
  ASSUME ObjInv, LostInv, NEW p \in Procs, NEW c, ObjCall(c), c.alone, c.op # "", Obj!Start(p, c),
         UNCHANGED <<file, dirty, lost>>, \A i \in Obj!ObjectIds : rec'[i] \in {rec[i], None}
  PROVE  LostInv'
<1>1. call[p].op = "" /\ \A q \in Procs \ {p} : Near(call[q], call'[q], {})
  BY ZenonT(60), ObjStart
<1>2. \A q \in Procs : call[q].op # "" => call'[q].op = call[q].op /\ call'[q].id = call[q].id /\ call'[q].pc = call[q].pc
  BY ZenonT(60), <1>1 DEF Near
<1> QED
  BY ZenonT(60), <1>2, LostBegins

LEMMA LostBegin ==
  ASSUME ObjInv, LostInv, NEW p \in Procs, NEW i \in Obj!ObjectIds,
         Obj!BeginGet(p, i) \/ Obj!BeginDelete(p, i) \/ \E d \in Contents : Obj!BeginPut(p, i, d)
  PROVE  LostInv'
<1>1. CASE Obj!BeginGet(p, i)
  <2> DEFINE c == [Obj!Idle EXCEPT !.pc = "open", !.op = "get", !.id = i, !.data = rec[i]]
  <2>1. Obj!Start(p, c) /\ UNCHANGED <<file, rec, dirty, lost>>
    BY Zenon, <1>1 DEF Obj!BeginGet
  <2>2. c.pc = "open" /\ c.op = "get" /\ c.id = i /\ c.alone = TRUE /\ DOMAIN c = ObjFields
    BY Zenon DEF Obj!Idle, ObjFields
  <2> HIDE DEF c
  <2>3. ObjCall(c)
    BY Zenon, <2>2 DEF ObjCall
  <2> QED
    BY ZenonT(60), <2>1, <2>2, <2>3, LostStart
<1>2. CASE Obj!BeginDelete(p, i)
  <2> DEFINE c == [Obj!Idle EXCEPT !.pc = "remove", !.op = "delete", !.id = i]
  <2>1. Obj!Start(p, c) /\ UNCHANGED <<file, dirty, lost>> /\ rec' = [rec EXCEPT ![i] = None]
    BY Zenon, <1>2 DEF Obj!BeginDelete
  <2>2. c.pc = "remove" /\ c.op = "delete" /\ c.id = i /\ c.alone = TRUE /\ DOMAIN c = ObjFields
    BY Zenon DEF Obj!Idle, ObjFields
  <2> HIDE DEF c
  <2>3. ObjCall(c)
    BY Zenon, <2>2 DEF ObjCall
  <2>4. \A j \in Obj!ObjectIds : rec'[j] \in {rec[j], None}
    BY Zenon, <2>1 DEF ObjInv, ObjTypes
  <2> QED
    BY ZenonT(60), <2>1, <2>2, <2>3, <2>4, LostStart
<1>3. ASSUME NEW d \in Contents, Obj!BeginPut(p, i, d) PROVE LostInv'
  <2> DEFINE c == [Obj!Idle EXCEPT !.pc = "open", !.op = "put", !.id = i, !.data = d]
  <2>1. Obj!Start(p, c) /\ UNCHANGED <<file, rec, dirty, lost>>
    BY Zenon, <1>3 DEF Obj!BeginPut
  <2>2. c.pc = "open" /\ c.op = "put" /\ c.id = i /\ c.data = d /\ c.alone = TRUE /\ DOMAIN c = ObjFields
    BY Zenon DEF Obj!Idle, ObjFields
  <2> HIDE DEF c
  <2>3. ObjCall(c)
    BY Zenon, <2>2 DEF ObjCall
  <2> QED
    BY ZenonT(60), <2>1, <2>2, <2>3, LostStart
<1> QED
  BY Zenon, <1>1, <1>2, <1>3

LEMMA LostBuckets ==
  ASSUME ObjInv, LostInv, NEW p \in Procs, NEW b \in Buckets, NEW k,
         Obj!BeginCreateBucket(p, b, k) \/ Obj!BeginDeleteBucket(p, b, k)
  PROVE  LostInv'
<1>1. CASE Obj!BeginCreateBucket(p, b, k)
  <2> DEFINE c == [Obj!Idle EXCEPT !.pc = "mkdir", !.op = "mkbucket", !.id = <<b, k>>]
  <2>1. Obj!Start(p, c) /\ UNCHANGED <<file, rec, dirty, lost>>
    BY Zenon, <1>1 DEF Obj!BeginCreateBucket
  <2>2. c.pc = "mkdir" /\ c.op = "mkbucket" /\ c.alone = TRUE /\ DOMAIN c = ObjFields
    BY Zenon DEF Obj!Idle, ObjFields
  <2> HIDE DEF c
  <2>3. ObjCall(c)
    BY Zenon, <2>2 DEF ObjCall
  <2> QED
    BY ZenonT(60), <2>1, <2>2, <2>3, LostStart
<1>2. CASE Obj!BeginDeleteBucket(p, b, k)
  <2> DEFINE c == [Obj!Idle EXCEPT !.pc = "rmall", !.op = "rmbucket", !.id = <<b, k>>]
  <2>1. Obj!Start(p, c) /\ UNCHANGED <<file, rec, dirty, lost>>
    BY Zenon, <1>2 DEF Obj!BeginDeleteBucket
  <2>2. c.pc = "rmall" /\ c.op = "rmbucket" /\ c.id = <<b, k>> /\ c.alone = TRUE /\ DOMAIN c = ObjFields
    BY Zenon DEF Obj!Idle, ObjFields
  <2> HIDE DEF c
  <2>3. ObjCall(c)
    BY <2>2 DEF ObjCall
  <2> QED
    BY ZenonT(60), <2>1, <2>2, <2>3, LostStart
<1> QED
  BY Zenon, <1>1, <1>2

LEMMA LostHandleDelete ==
  ASSUME ObjInv, LostInv, NEW i \in Obj!ObjectIds, Obj!HandleObjectsDelete(i)
  PROVE  LostInv'
<1>1. UNCHANGED <<file, dirty, lost>> /\ \A j \in Obj!ObjectIds : rec'[j] \in {rec[j], None}
  BY Zenon DEF Obj!HandleObjectsDelete, ObjInv, ObjTypes
<1>2. ASSUME NEW q \in Procs PROVE call'[q].op = call[q].op /\ call'[q].id = call[q].id /\ call'[q].pc = call[q].pc
  <2>1. call'[q] = call[q] \/ call'[q] = [call[q] EXCEPT !.alone = FALSE]
    BY Zenon DEF Obj!HandleObjectsDelete
  <2>2. DOMAIN call[q] = ObjFields
    BY Zenon DEF ObjInv, ObjTypes, ObjCall
  <2> QED
    BY Zenon, <2>1, <2>2 DEF ObjFields
<1> QED
  BY ZenonT(60), <1>1, <1>2, LostBegins

\* The call of p goes on or ends: its own object, if it is at work on one, is
\* written, dirty, or has no file or no place among the lost ones.
LEMMA LostActs ==
  ASSUME LostInv, NEW p \in Procs, NEW S \in SUBSET Obj!ObjectIds,
         \A q \in Procs \ {p} : call'[q].op = call[q].op /\ call'[q].id = call[q].id /\ call'[q].pc = call[q].pc,
         call[p].op = "put" /\ call[p].pc \in {"write", "record"} => call[p].id \in S,
         \A i \in S : i \notin lost' \/ i \in dirty' \/ rec'[i] = None \/ file'[i] = None \/ Writing(i)',
         \A i \in Obj!ObjectIds \ S : /\ i \in lost' => i \in lost
                                      /\ i \in dirty => i \in dirty'
                                      /\ rec'[i] = rec[i] /\ file'[i] = file[i]
  PROVE  LostInv'
<1> SUFFICES ASSUME NEW i \in Obj!ObjectIds PROVE LostAt(i)'
  BY Zenon DEF LostInv
<1>1. LostAt(i)
  BY Zenon DEF LostInv
<1>2. CASE i \in S
  BY ZenonT(60), <1>1, <1>2, LostStays
<1>3. CASE i \notin S
  <2>1. Writing(i) => Writing(i)'
    BY ZenonT(60), <1>3, WritingStays
  <2> QED
    BY ZenonT(60), <1>1, <1>3, <2>1, LostStays
<1> QED
  BY Zenon, <1>2, <1>3

LEMMA LostPutOpen ==
  ASSUME ObjInv, LostInv, NEW p \in Procs, Obj!PutOpen(p)
  PROVE  LostInv'
<1> DEFINE i == call[p].id
<1>1. call[p].op = "put" /\ call[p].pc = "open" /\ i \in Obj!ObjectIds /\ DOMAIN call[p] = ObjFields /\ UNCHANGED rec
  BY Zenon DEF Obj!PutOpen, ObjInv, ObjTypes, ObjCall
<1>2. CASE i[1] \in dirs
  <2>1. /\ file' = [file EXCEPT ![i] = <<>>] /\ call' = [call EXCEPT ![p].pc = "write", ![p].linked = TRUE]
        /\ UNCHANGED <<dirty, lost>>
    BY Zenon, <1>2 DEF Obj!PutOpen
  <2>2. /\ \A q \in Procs \ {p} : call'[q] = call[q]
        /\ call'[p].op = "put" /\ call'[p].pc = "write" /\ call'[p].id = i
    BY Zenon, <1>1, <2>1 DEF ObjInv, ObjTypes, ObjFields
  <2>3. \A j \in {i} : Writing(j)'
    BY Zenon, <2>2 DEF Writing
  <2>4. \A j \in Obj!ObjectIds \ {i} : file'[j] = file[j]
    BY Zenon, <2>1 DEF ObjInv, ObjTypes
  <2>5. {i} \in SUBSET Obj!ObjectIds /\ call[p].id \in {i}
    BY Zenon, <1>1
  <2> HIDE DEF i
  <2> QED
    BY ZenonT(60), <1>1, <2>1, <2>2, <2>3, <2>4, <2>5, LostActs
<1>3. CASE i[1] \notin dirs
  <2>1. Obj!Return(p) /\ Obj!Settle(p) /\ UNCHANGED file
    BY Zenon, <1>1, <1>3 DEF Obj!PutOpen
  <2>2. \A q \in Procs \ {p} : call'[q] = call[q]
    BY Zenon, <2>1, ObjReturns
  <2>3. /\ i \notin lost' \/ i \in dirty'
        /\ \A j \in Obj!ObjectIds \ {i} : (j \in lost' => j \in lost) /\ (j \in dirty => j \in dirty')
    BY Zenon, <2>1 DEF Obj!Settle
  <2>4. {i} \in SUBSET Obj!ObjectIds
    BY Zenon, <1>1
  <2> QED
    BY ZenonT(60), <1>1, <2>1, <2>2, <2>3, <2>4, LostActs
<1> QED
  BY Zenon, <1>2, <1>3

LEMMA LostPutWrite ==
  ASSUME ObjInv, LostInv, NEW p \in Procs, Obj!PutWrite(p)
  PROVE  LostInv'
<1> DEFINE i == call[p].id
<1>1. /\ call[p].op = "put" /\ i \in Obj!ObjectIds /\ DOMAIN call[p] = ObjFields
      /\ call' = [call EXCEPT ![p].pc = "record"] /\ UNCHANGED <<rec, dirty, lost>>
  BY Zenon DEF Obj!PutWrite, Obj!Goto, ObjInv, ObjTypes, ObjCall
<1>2. \A j \in Obj!ObjectIds \ {i} : file'[j] = file[j]
  BY Zenon DEF Obj!PutWrite, ObjInv, ObjTypes
<1>3. /\ \A q \in Procs \ {p} : call'[q] = call[q]
      /\ call'[p].op = "put" /\ call'[p].pc = "record" /\ call'[p].id = i
  BY Zenon, <1>1 DEF ObjInv, ObjTypes, ObjFields
<1>4. /\ \A j \in {i} : Writing(j)'
      /\ {i} \in SUBSET Obj!ObjectIds /\ call[p].id \in {i}
  BY Zenon, <1>1, <1>3 DEF Writing
<1> HIDE DEF i
<1> QED
  BY ZenonT(60), <1>1, <1>2, <1>3, <1>4, LostActs

LEMMA LostPutRecord ==
  ASSUME ObjInv, LostInv, NEW p \in Procs, Obj!PutRecord(p)
  PROVE  LostInv'
<1> DEFINE i == call[p].id
<1>1. /\ i \in Obj!ObjectIds /\ Obj!Return(p) /\ Obj!Settle(p) /\ rec' = [rec EXCEPT ![i] = call[p].data] /\ UNCHANGED file
  BY Zenon DEF Obj!PutRecord, ObjInv, ObjTypes, ObjCall
<1>2. \A q \in Procs \ {p} : call'[q] = call[q]
  BY Zenon, <1>1, ObjReturns
<1>3. /\ i \notin lost' \/ i \in dirty'
      /\ \A j \in Obj!ObjectIds \ {i} : (j \in lost' => j \in lost) /\ (j \in dirty => j \in dirty')
  BY Zenon, <1>1 DEF Obj!Settle
<1>4. {i} \in SUBSET Obj!ObjectIds /\ \A j \in Obj!ObjectIds \ {i} : rec'[j] = rec[j]
  BY Zenon, <1>1 DEF ObjInv, ObjTypes
<1> QED
  BY ZenonT(60), <1>1, <1>2, <1>3, <1>4, LostActs

\* GetOpen, GetRead and CreateDir change no object.
LEMMA LostOthers ==
  ASSUME ObjInv, LostInv, NEW p \in Procs, Obj!GetOpen(p) \/ Obj!GetRead(p) \/ Obj!CreateDir(p)
  PROVE  LostInv'
<1>1. call[p].op # "put" /\ UNCHANGED <<rec, file, dirty, lost>>
  BY Zenon DEF Obj!GetOpen, Obj!GetRead, Obj!CreateDir, ObjInv, ObjTypes, ObjCall
<1>2. \A q \in Procs \ {p} : call'[q] = call[q]
  BY Zenon DEF Obj!GetOpen, Obj!GetRead, Obj!CreateDir, Obj!Return, ObjInv, ObjTypes
<1>3. {} \in SUBSET Obj!ObjectIds
  OBVIOUS
<1> QED
  BY ZenonT(60), <1>1, <1>2, <1>3, LostActs

\* Unlink touches the descriptors only.
LEMMA LostUnlink ==
  ASSUME ObjInv, NEW p \in Procs, NEW S, call' = [Obj!Unlink(S) EXCEPT ![p] = Obj!Idle], NEW q \in Procs \ {p}
  PROVE  call'[q].op = call[q].op /\ call'[q].id = call[q].id /\ call'[q].pc = call[q].pc
<1>1. call'[q] = call[q] \/ call'[q] = [call[q] EXCEPT !.linked = FALSE]
  BY Zenon DEF Obj!Unlink
<1>2. DOMAIN call[q] = ObjFields
  BY Zenon DEF ObjInv, ObjTypes, ObjCall
<1> QED
  BY Zenon, <1>1, <1>2 DEF ObjFields

LEMMA LostDeleteFile ==
  ASSUME ObjInv, LostInv, NEW p \in Procs, Obj!DeleteFile(p)
  PROVE  LostInv'
<1> DEFINE i == call[p].id
<1>1. /\ call[p].op = "delete" /\ i \in Obj!ObjectIds /\ Obj!Settle(p) /\ UNCHANGED rec
      /\ file' = [file EXCEPT ![i] = None] /\ call' = [Obj!Unlink({i}) EXCEPT ![p] = Obj!Idle]
  BY Zenon DEF Obj!DeleteFile, ObjInv, ObjTypes, ObjCall
<1>2. \A q \in Procs \ {p} : call'[q].op = call[q].op /\ call'[q].id = call[q].id /\ call'[q].pc = call[q].pc
  BY Zenon, <1>1, LostUnlink
<1>3. \A j \in Obj!ObjectIds \ {i} : (j \in lost' => j \in lost) /\ (j \in dirty => j \in dirty')
  BY Zenon, <1>1 DEF Obj!Settle
<1>4. /\ \A j \in {i} : file'[j] = None
      /\ \A j \in Obj!ObjectIds \ {i} : file'[j] = file[j]
      /\ {i} \in SUBSET Obj!ObjectIds
  BY Zenon, <1>1 DEF ObjInv, ObjTypes
<1> QED
  BY ZenonT(60), <1>1, <1>2, <1>3, <1>4, LostActs

LEMMA LostRemoveAll ==
  ASSUME ObjInv, LostInv, NEW p \in Procs, Obj!RemoveAll(p)
  PROVE  LostInv'
<1> DEFINE b == call[p].id[1]
           S == {b} \X Keys
<1>1. /\ call[p].op = "rmbucket" /\ b \in Buckets /\ UNCHANGED rec
      /\ file' = [i \in Obj!ObjectIds |-> IF i \in S THEN None ELSE file[i]]
      /\ dirty \subseteq dirty' /\ lost' = lost \cup {i \in S : rec[i] # None}
      /\ call' = [Obj!Unlink(S) EXCEPT ![p] = Obj!Idle]
  BY Zenon DEF Obj!RemoveAll, ObjInv, ObjTypes, ObjCall
<1>2. S \in SUBSET Obj!ObjectIds
  BY Zenon, <1>1 DEF Obj!ObjectIds
<1>3. \A q \in Procs \ {p} : call'[q].op = call[q].op /\ call'[q].id = call[q].id /\ call'[q].pc = call[q].pc
  BY Zenon, <1>1, LostUnlink
<1>4. /\ \A i \in S : file'[i] = None
      /\ \A i \in Obj!ObjectIds \ S : file'[i] = file[i] /\ (i \in lost' => i \in lost)
  BY Zenon, <1>1, <1>2
<1> HIDE DEF S
<1> QED
  BY ZenonT(60), <1>1, <1>2, <1>3, <1>4, LostActs

LEMMA LostStop ==
  ASSUME ObjInv, LostInv, NEW p \in Procs, Obj!Stop(p)
  PROVE  LostInv'
<1> DEFINE i == call[p].id
<1>1. /\ Obj!Return(p) /\ UNCHANGED <<rec, file, lost>> /\ call[p].pc # "idle"
      /\ dirty' = IF Obj!Changes(call[p]) /\ (~call[p].alone \/ (call[p].pc \in {"write", "record"} /\ rec[i] # None))
                  THEN dirty \cup {i} ELSE dirty
  BY Zenon DEF Obj!Stop
<1>2. \A q \in Procs \ {p} : call'[q] = call[q]
  BY Zenon, <1>1, ObjReturns
<1>3. CASE call[p].op = "put" /\ call[p].pc \in {"write", "record"}
  <2>1. i \in dirty' \/ rec'[i] = None
    BY Zenon, <1>1, <1>3 DEF Obj!Changes
  <2>2. {i} \in SUBSET Obj!ObjectIds
    BY Zenon, <1>3 DEF ObjInv, ObjTypes, ObjCall
  <2> QED
    BY ZenonT(60), <1>1, <1>2, <2>1, <2>2, LostActs
<1>4. CASE ~(call[p].op = "put" /\ call[p].pc \in {"write", "record"})
  <2>1. {} \in SUBSET Obj!ObjectIds /\ dirty \subseteq dirty'
    BY Zenon, <1>1
  <2> QED
    BY ZenonT(60), <1>1, <1>2, <1>4, <2>1, LostActs
<1> QED
  BY Zenon, <1>3, <1>4

\* PutObject, GetObject, DeleteObject, the buckets, the API's DELETE and calls
\* that are cut off at any step: an object with a record has the bytes of its
\* digest, and a GetObject reads them, where no call disturbed another one and
\* no DeleteBucket took the file; a record that DeleteBucket left has no file.
THEOREM ObjDigestAlways == Obj!Spec => []DigestMatches
<1>0. Obj!ContentsAssumption
  BY Zenon, StorageAssumption
<1>1. ObjInv /\ LostInv /\ [Obj!Next]_(Obj!vars) => ObjInv' /\ LostInv'
  <2> SUFFICES ASSUME ObjInv, LostInv, [Obj!Next]_(Obj!vars) PROVE ObjInv' /\ LostInv'
    BY ZenonT(60)
  <2>1. CASE UNCHANGED <<dirs, rec, file, call, dirty, lost>>
    <3>1. ObjInv'
      BY ZenonT(60), <2>1 DEF ObjInv, ObjTypes, Apart, Settled, PutAlone, DropAlone, GetAlone, Marked
    <3>2. LostInv'
      BY ZenonT(60), <2>1 DEF LostInv, LostAt, Writing
    <3> QED
      BY Zenon, <3>1, <3>2
  <2>2. ASSUME NEW p \in Procs, Obj!Step(p) PROVE ObjInv' /\ LostInv'
    <3>1. ObjInv'
      BY Zenon, <1>0, <2>2, ObjPutOpen, ObjPutWrite, ObjPutRecord, ObjGetOpen, ObjOthersEnd, ObjDeleteFile, ObjRemoveAll, ObjStop DEF Obj!Step
    <3>2. LostInv'
      BY Zenon, <2>2, LostPutOpen, LostPutWrite, LostPutRecord, LostOthers, LostDeleteFile, LostRemoveAll, LostStop DEF Obj!Step
    <3> QED
      BY Zenon, <3>1, <3>2
  <2>3. ASSUME NEW p \in Procs, NEW i \in Obj!ObjectIds,
               Obj!BeginGet(p, i) \/ Obj!BeginDelete(p, i) \/ \E c \in Contents : Obj!BeginPut(p, i, c)
        PROVE  ObjInv' /\ LostInv'
    BY Zenon, <2>3, ObjBeginGet, ObjBeginDelete, ObjBeginPut, LostBegin
  <2>4. ASSUME NEW p \in Procs, NEW b \in Buckets, NEW k,
               Obj!BeginCreateBucket(p, b, k) \/ Obj!BeginDeleteBucket(p, b, k)
        PROVE  ObjInv' /\ LostInv'
    BY Zenon, <2>4, ObjBeginCreateBucket, ObjBeginDeleteBucket, LostBuckets
  <2>5. ASSUME NEW i \in Obj!ObjectIds, Obj!HandleObjectsDelete(i) PROVE ObjInv' /\ LostInv'
    BY Zenon, <2>5, ObjHandleDelete, LostHandleDelete
  <2> QED
    BY ZenonT(60), <2>1, <2>2, <2>3, <2>4, <2>5 DEF Obj!Next, Obj!vars, Obj!HandleBucketsPost
<1>2. Obj!Init => ObjInv /\ LostInv
  BY Zenon, ObjInit DEF Obj!Init, LostInv, LostAt
<1>3. ObjInv /\ LostInv => DigestMatches
  BY Zenon, ObjDigest DEF DigestMatches
<1> QED
  BY <1>1, <1>2, <1>3, PTL DEF Obj!Spec
==============================================================================
