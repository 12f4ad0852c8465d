-------------------------- MODULE WorkspaceProofs ---------------------------
(***************************************************************************)
(* Proofs about the workspaces, for any conversations, owners, requests,   *)
(* artifacts and paths, any retention and any number of faults.            *)
(***************************************************************************)
EXTENDS Workspace, Lemmas

Segments == STRING \cup Conversations \cup {Owner[c] : c \in Conversations}
                 \cup {"workspace", "staff-workspaces", "skill-packages", "work", "output"}

\* The segments of a normalized path.
Names == Segments \ {".", ".."}

\* Concatenation keeps its left part where it is.
LEMMA LeftOfConcat ==
  ASSUME NEW s \in Seq(Segments), NEW t \in Seq(Segments), NEW i \in 1 .. Len(s)
  PROVE  (s \o t)[i] = s[i]
<1>1. Len(s) \in Nat /\ Len(t) \in Nat
  BY LenProperties
<1>2. i \in 1 .. Len(s) + Len(t) /\ i <= Len(s)
  BY <1>1
<1>3. QED
  BY <1>2, ConcatProperties

\* A sequence goes on from its left part.
LEMMA PrefixOfConcat ==
  ASSUME NEW S, NEW s \in Seq(S), NEW t \in Seq(S)
  PROVE  /\ IsPrefix(s, s \o t)
         /\ t # <<>> => IsStrictPrefix(s, s \o t)
<1>1. Len(s) \in Nat /\ Len(t) \in Nat /\ s \o t \in Seq(S) /\ Len(s \o t) = Len(s) + Len(t)
  BY LenProperties, ConcatProperties
<1>2. SubSeq(s \o t, 1, Len(s)) = SubSeq(s, 1, Len(s))
  <2>1. Len(s) \in 0 .. Len(s)
    BY <1>1
  <2>2. QED
    BY <2>1, SubSeqOfConcat1
<1>3. IsPrefix(s, s \o t)
  BY <1>1, <1>2 DEF IsPrefix
<1>4. t # <<>> => s \o t # s
  BY ConcatEqualIffEmpty
<1>5. QED
  BY <1>3, <1>4 DEF IsStrictPrefix

\* What goes on from a sequence is the sequence and the rest.
LEMMA PrefixAndAfter ==
  ASSUME NEW S, NEW s \in Seq(S), NEW p \in Seq(S), IsPrefix(s, p)
  PROVE  /\ After(p, s) \in Seq(S) /\ p = s \o After(p, s)
         /\ \A i \in 1 .. Len(s) : s[i] = p[i]
<1> DEFINE n == Len(s)
<1>1. n \in Nat /\ Len(p) \in Nat /\ n <= Len(p) /\ SubSeq(s, 1, n) = SubSeq(p, 1, n)
  BY LenProperties DEF IsPrefix
<1>2. s = SubSeq(p, 1, n)
  BY <1>1, SubSeqFull
<1>3. /\ After(p, s) \in Seq(S) /\ Len(After(p, s)) = Len(p) - n
      /\ \A i \in 1 .. Len(p) - n : After(p, s)[i] = p[n + i]
  <2>1. \A i \in n + 1 .. Len(p) : p[i] \in S
    <3> TAKE i \in n + 1 .. Len(p)
    <3>1. i \in 1 .. Len(p)
      BY <1>1
    <3>2. QED
      BY <3>1, ElementOfSeq
  <2>2. /\ SubSeq(p, n + 1, Len(p)) \in Seq(S)
        /\ Len(SubSeq(p, n + 1, Len(p))) = IF n + 1 <= Len(p) THEN Len(p) - (n + 1) + 1 ELSE 0
        /\ \A i \in 1 .. Len(p) - (n + 1) + 1 : SubSeq(p, n + 1, Len(p))[i] = p[n + 1 + i - 1]
    BY <1>1, <2>1, SubSeqProperties
  <2>3. QED
    BY <1>1, <2>2 DEF After
<1>4. \A i \in 1 .. n : s[i] = p[i]
  <2>1. \A i \in 1 .. n : p[i] \in S
    <3> TAKE i \in 1 .. n
    <3>1. i \in 1 .. Len(p)
      BY <1>1
    <3>2. QED
      BY <3>1, ElementOfSeq
  <2>2. \A i \in 1 .. n - 1 + 1 : SubSeq(p, 1, n)[i] = p[1 + i - 1]
    BY <1>1, <2>1, SubSeqProperties
  <2>3. QED
    BY <1>1, <1>2, <2>2
<1> HIDE DEF n
<1>5. p = s \o After(p, s)
  <2> DEFINE q == s \o After(p, s)
  <2>1. Len(q) = Len(p) /\ q \in Seq(S)
    BY <1>1, <1>3, ConcatProperties DEF n
  <2>2. ASSUME NEW i \in 1 .. Len(p) PROVE p[i] = q[i]
    <3>1. i \in 1 .. Len(s) + Len(After(p, s))
      BY <1>1, <1>3 DEF n
    <3>2. q[i] = IF i <= Len(s) THEN s[i] ELSE After(p, s)[i - Len(s)]
      BY <1>3, <3>1, ConcatProperties
    <3>3. CASE i <= n
      <4>1. i \in 1 .. n
        BY <1>1, <3>3
      <4>2. QED
        BY <1>4, <3>2, <3>3, <4>1 DEF n
    <3>4. CASE ~(i <= n)
      <4>1. i - n \in 1 .. Len(p) - n /\ n + (i - n) = i
        BY <1>1, <3>4
      <4>2. QED
        BY <1>3, <3>2, <3>4, <4>1 DEF n
    <3>5. QED
      BY <3>3, <3>4
  <2> HIDE DEF q
  <2>3. p = q
    BY <1>1, <2>1, <2>2, SeqEqual
  <2>4. QED
    BY <2>3 DEF q
<1>6. QED
  BY <1>3, <1>4, <1>5 DEF n

\* Two sequences of one element make one of two.
LEMMA Pair ==
  ASSUME NEW S, NEW x \in S, NEW y \in S
  PROVE  <<x>> \o <<y>> = <<x, y>>
<1>1. <<x>> \in Seq(S) /\ <<y>> \in Seq(S) /\ <<x, y>> \in Seq(S)
  OBVIOUS
<1>2. Len(<<x>> \o <<y>>) = 2 /\ <<x>> \o <<y>> \in Seq(S)
  BY <1>1, ConcatProperties
<1>3. (<<x>> \o <<y>>)[1] = x /\ (<<x>> \o <<y>>)[2] = y
  BY <1>1, ConcatProperties
<1> DEFINE q == <<x>> \o <<y>>
<1>4. \A i \in 1 .. Len(q) : q[i] = <<x, y>>[i]
  BY <1>2, <1>3
<1> HIDE DEF q
<1>5. q = <<x, y>>
  BY <1>1, <1>2, <1>4, SeqEqual DEF q
<1>6. QED
  BY <1>5 DEF q

\* normpath resolves one segment after the other: the recursive function of the model exists.
LEMMA ResolvedStep ==
  ASSUME NEW path, Len(path) \in Nat
  PROVE  \A i \in 0 .. Len(path) :
             Resolved(path)[i] = IF i = 0 THEN <<>> ELSE Resolve(Resolved(path)[i - 1], path[i])
<1> DEFINE Next1(f, i) == IF i = 0 THEN <<>> ELSE Resolve(f[i - 1], path[i])
           Upto(f, n) == f = [i \in 0 .. n |-> Next1(f, i)]
           Missing == {n \in Nat : n <= Len(path) /\ ~ \E f : Upto(f, n)}
<1>1. Missing = {}
  <2> SUFFICES ASSUME Missing # {} PROVE FALSE
    OBVIOUS
  <2>1. PICK n \in Missing : \A m \in Missing : n <= m
    <3>1. Missing \in SUBSET Nat
      OBVIOUS
    <3> HIDE DEF Missing
    <3>2. QED
      BY <3>1, Least
  <2>2. CASE n = 0
    <3> DEFINE f == [i \in 0 .. 0 |-> <<>>]
    <3>1. f = [i \in 0 .. 0 |-> Next1(f, i)]
      OBVIOUS
    <3>2. Upto(f, n)
      BY <2>2, <3>1
    <3>3. QED
      BY <3>2
  <2>3. CASE n # 0
    <3>1. n - 1 \in Nat /\ n - 1 <= Len(path) /\ ~(n <= n - 1)
      BY <2>3
    <3>2. n - 1 \notin Missing
      BY <2>1, <3>1
    <3>3. PICK g : Upto(g, n - 1)
      BY <3>1, <3>2
    <3> DEFINE f == [i \in 0 .. n |-> IF i < n THEN g[i] ELSE Resolve(g[n - 1], path[n])]
    <3>4. ASSUME NEW i \in 0 .. n PROVE f[i] = Next1(f, i)
      <4>1. CASE i < n
        <5>1. i \in 0 .. n - 1 /\ (i # 0 => i - 1 \in 0 .. n /\ i - 1 < n)
          BY <3>1, <4>1
        <5>2. g[i] = Next1(g, i)
          BY <3>3, <5>1
        <5>3. f[i] = g[i] /\ (i # 0 => f[i - 1] = g[i - 1])
          BY <4>1, <5>1
        <5> HIDE DEF f
        <5>4. QED
          BY <5>2, <5>3
      <4>2. CASE ~(i < n)
        <5>1. i = n /\ n - 1 \in 0 .. n /\ n - 1 < n /\ i # 0
          BY <2>3, <3>1, <4>2
        <5>2. f[i] = Resolve(g[n - 1], path[n]) /\ f[n - 1] = g[n - 1]
          BY <5>1
        <5> HIDE DEF f
        <5>3. QED
          BY <5>1, <5>2
      <4>3. QED
        BY <4>1, <4>2
    <3>5. f = [i \in 0 .. n |-> f[i]]
      OBVIOUS
    <3> HIDE DEF f
    <3>6. Upto(f, n)
      BY <3>4, <3>5
    <3>7. QED
      BY <3>6
  <2>4. QED
    BY <2>2, <2>3
<1>2. \E f : Upto(f, Len(path))
  BY <1>1
<1>3. Resolved(path) = CHOOSE f : Upto(f, Len(path))
  BY DEF Resolved
<1>4. Upto(Resolved(path), Len(path))
  BY <1>2, <1>3
<1>5. QED
  BY <1>4

\* One segment more leaves no "." and no "..".
LEMMA ResolveTyped ==
  ASSUME NEW done \in Seq(Names), NEW segment \in Segments
  PROVE  Resolve(done, segment) \in Seq(Names)
<1>1. CASE segment = "."
  BY <1>1 DEF Resolve
<1>2. CASE segment = ".." /\ done = <<>>
  BY <1>2 DEF Resolve
<1>3. CASE segment = ".." /\ done # <<>>
  <2>1. Len(done) \in Nat /\ \A i \in 1 .. Len(done) - 1 : done[i] \in Names
    <3>1. Len(done) \in Nat
      BY LenProperties
    <3>2. ASSUME NEW i \in 1 .. Len(done) - 1 PROVE done[i] \in Names
      <4>1. i \in 1 .. Len(done)
        BY <3>1
      <4>2. QED
        BY <4>1, ElementOfSeq
    <3>3. QED
      BY <3>1, <3>2
  <2>2. SubSeq(done, 1, Len(done) - 1) \in Seq(Names)
    BY <2>1, SubSeqProperties
  <2>3. QED
    BY <1>3, <2>2 DEF Resolve, Front
<1>4. CASE segment # "." /\ segment # ".."
  <2>1. segment \in Names
    BY <1>4 DEF Names
  <2>2. Append(done, segment) \in Seq(Names)
    BY <2>1, AppendProperties
  <2>3. QED
    BY <1>4, <2>2 DEF Resolve
<1>5. QED
  BY <1>1, <1>2, <1>3, <1>4

\* A normalized path has no "." and no "..".
LEMMA NormalizeTyped ==
  ASSUME NEW path \in Seq(Segments)
  PROVE  Normalize(path) \in Seq(Names)
<1> DEFINE Wrong == {n \in Nat : n <= Len(path) /\ Resolved(path)[n] \notin Seq(Names)}
<1>1. Len(path) \in Nat
  BY LenProperties
<1>2. Wrong = {}
  <2> SUFFICES ASSUME Wrong # {} PROVE FALSE
    OBVIOUS
  <2>1. PICK n \in Wrong : \A m \in Wrong : n <= m
    <3>1. Wrong \in SUBSET Nat
      OBVIOUS
    <3> HIDE DEF Wrong
    <3>2. QED
      BY <3>1, Least
  <2>2. n # 0
    <3>1. Resolved(path)[0] = <<>>
      BY <1>1, ResolvedStep
    <3>2. <<>> \in Seq(Names)
      BY EmptySeq
    <3>3. QED
      BY <3>1, <3>2
  <2>3. n - 1 \in Nat /\ n \in 1 .. Len(path) /\ n - 1 <= Len(path) /\ ~(n <= n - 1)
    BY <1>1, <2>2
  <2>4. Resolved(path)[n - 1] \in Seq(Names)
    BY <2>1, <2>3
  <2>5. Resolved(path)[n] = Resolve(Resolved(path)[n - 1], path[n])
    BY <1>1, <2>2, <2>3, ResolvedStep
  <2>6. path[n] \in Segments
    BY <2>3, ElementOfSeq
  <2>7. Resolved(path)[n] \in Seq(Names)
    BY <2>4, <2>5, <2>6, ResolveTyped
  <2>8. QED
    BY <2>7
<1>3. QED
  BY <1>1, <1>2 DEF Normalize

\* A path without "." and ".." is its own normal form.
LEMMA NormalizeFixed ==
  ASSUME NEW path \in Seq(Names)
  PROVE  Normalize(path) = path
<1> DEFINE Wrong == {n \in Nat : n <= Len(path) /\ Resolved(path)[n] # SubSeq(path, 1, n)}
<1>1. Len(path) \in Nat
  BY LenProperties
<1>2. Wrong = {}
  <2> SUFFICES ASSUME Wrong # {} PROVE FALSE
    OBVIOUS
  <2>1. PICK n \in Wrong : \A m \in Wrong : n <= m
    <3>1. Wrong \in SUBSET Nat
      OBVIOUS
    <3> HIDE DEF Wrong
    <3>2. QED
      BY <3>1, Least
  <2>2. n # 0
    <3>1. Resolved(path)[0] = <<>>
      BY <1>1, ResolvedStep
    <3>2. SubSeq(path, 1, 0) = <<>>
      BY SubSeqEmpty
    <3>3. QED
      BY <3>1, <3>2
  <2>3. n - 1 \in Nat /\ n \in 1 .. Len(path) /\ n - 1 <= Len(path) /\ ~(n <= n - 1)
    BY <1>1, <2>2
  <2>4. Resolved(path)[n - 1] = SubSeq(path, 1, n - 1)
    BY <2>1, <2>3
  <2>5. Resolved(path)[n] = Resolve(SubSeq(path, 1, n - 1), path[n])
    <3>1. Resolved(path)[n] = Resolve(Resolved(path)[n - 1], path[n])
      BY <1>1, <2>2, <2>3, ResolvedStep
    <3>2. QED
      BY <2>4, <3>1
  <2>6. path[n] \in Names
    BY <2>3, ElementOfSeq
  <2>7. Resolved(path)[n] = Append(SubSeq(path, 1, n - 1), path[n])
    BY <2>5, <2>6 DEF Resolve, Names
  <2>8. SubSeq(path, 1, n - 1) \in Seq(Names)
    <3>1. \A i \in 1 .. n - 1 : path[i] \in Names
      <4> TAKE i \in 1 .. n - 1
      <4>1. i \in 1 .. Len(path)
        BY <1>1, <2>3
      <4>2. QED
        BY <4>1, ElementOfSeq
    <3>2. QED
      BY <2>3, <3>1, SubSeqProperties
  <2>9. SubSeq(path, 1, n) = SubSeq(path, 1, n - 1) \o <<path[n]>>
    <3>1. 1 \in 1 .. Len(path) /\ n \in 1 .. Len(path)
      BY <1>1, <2>3
    <3>2. QED
      BY <3>1, SubSeqRecursiveSecond
  <2>10. SubSeq(path, 1, n) = Append(SubSeq(path, 1, n - 1), path[n])
    BY <2>6, <2>8, <2>9, AppendIsConcat
  <2>11. QED
    BY <2>7, <2>10
<1>3. Normalize(path) = SubSeq(path, 1, Len(path))
  BY <1>1, <1>2 DEF Normalize
<1>4. QED
  BY <1>3, SubSeqFull

\* The directory of a conversation lies four segments deep, the last its id.
LEMMA WorkspaceSegments ==
  ASSUME NEW c \in Conversations
  PROVE  /\ Workspace(c) \in Seq(Segments) /\ Len(Workspace(c)) = 4
         /\ Workspace(c)[1] = "workspace" /\ Workspace(c)[2] = "staff-workspaces"
         /\ Workspace(c)[4] = c
<1>1. /\ WorkspaceRoot \in Seq(Segments) /\ Len(WorkspaceRoot) = 2
      /\ WorkspaceRoot[1] = "workspace" /\ WorkspaceRoot[2] = "staff-workspaces"
  <2>1. <<"workspace">> \in Seq(Segments) /\ <<"staff-workspaces">> \in Seq(Segments)
    BY DEF Segments
  <2>2. QED
    BY <2>1, ConcatProperties DEF WorkspaceRoot, SandboxBase
<1>2. <<Owner[c], c>> \in Seq(Segments)
  BY DEF Segments
<1>3. Workspace(c) \in Seq(Segments) /\ Len(Workspace(c)) = 4
  BY <1>1, <1>2, ConcatProperties DEF Workspace
<1>4. Workspace(c)[1] = "workspace" /\ Workspace(c)[2] = "staff-workspaces"
  <2>1. 1 \in 1 .. Len(WorkspaceRoot) /\ 2 \in 1 .. Len(WorkspaceRoot)
    BY <1>1
  <2>2. /\ (WorkspaceRoot \o <<Owner[c], c>>)[1] = WorkspaceRoot[1]
        /\ (WorkspaceRoot \o <<Owner[c], c>>)[2] = WorkspaceRoot[2]
    <3> HIDE DEF Segments
    <3>1. QED
      BY ONLY <1>1, <1>2, <2>1, LeftOfConcat
  <2>3. QED
    BY <1>1, <2>2 DEF Workspace
<1>5. Workspace(c)[4] = c
  <2>1. 4 \in 1 .. Len(WorkspaceRoot) + Len(<<Owner[c], c>>) /\ ~(4 <= Len(WorkspaceRoot))
    BY <1>1
  <2>2. Workspace(c)[4] = <<Owner[c], c>>[4 - Len(WorkspaceRoot)]
    BY <1>1, <1>2, <2>1, ConcatProperties DEF Workspace
  <2>3. QED
    BY <1>1, <2>2
<1>6. QED
  BY <1>3, <1>4, <1>5

\* No path lies in the directories of two conversations.
LEMMA OneWorkspace ==
  ASSUME NEW c \in Conversations, NEW d \in Conversations, NEW p,
         IsPrefix(Workspace(c), p), IsPrefix(Workspace(d), p)
  PROVE  c = d
<1>1. SubSeq(Workspace(c), 1, 4) = SubSeq(Workspace(d), 1, 4)
  BY WorkspaceSegments DEF IsPrefix
<1>2. SubSeq(Workspace(c), 1, 4)[4] = c /\ SubSeq(Workspace(d), 1, 4)[4] = d
  BY WorkspaceSegments
<1>3. QED
  BY <1>1, <1>2

\* A path that goes on from a conversation's directory lies in no other one.
LEMMA BelowWorkspace ==
  ASSUME NEW c \in Conversations, NEW d \in Conversations, NEW t \in Seq(Segments),
         IsPrefix(Workspace(d), Workspace(c) \o t)
  PROVE  c = d
<1> DEFINE p == Workspace(c) \o t
<1>1. p \in Seq(Segments) /\ Len(p) >= 4 /\ p[4] = c
  BY WorkspaceSegments, ConcatProperties
<1>2. SubSeq(p, 1, 4)[4] = c
  BY <1>1
<1>3. SubSeq(Workspace(d), 1, 4)[4] = d /\ SubSeq(Workspace(d), 1, 4) = SubSeq(p, 1, 4)
  BY WorkspaceSegments DEF IsPrefix
<1>4. QED
  BY <1>2, <1>3

\* Where an alias in a conversation's command leads, whatever the path: nowhere, below its own
\* directory, or to the skills that all conversations share.
LEMMA PhysicalPathPlace ==
  ASSUME NEW c \in Conversations, NEW path \in LogicalPaths
  PROVE  \/ PhysicalPath(c, path) = Refused
         \/ \E t \in Seq(Segments) : t # <<>> /\ PhysicalPath(c, path) = Workspace(c) \o t
         \/ \E t \in Seq(Segments) : PhysicalPath(c, path) = SkillPackages \o t
<1> DEFINE n == Normalize(path)
           Rest(a) == After(n, a[1])
<1>1. n \in Seq(Segments)
  <2>1. STRING \subseteq Segments /\ Names \subseteq Segments
    BY DEF Segments, Names
  <2>2. path \in Seq(Segments)
    BY <2>1, PathsAssumption, SeqMonotonic
  <2>3. n \in Seq(Names)
    BY <2>2, NormalizeTyped
  <2> HIDE DEF n
  <2>4. QED
    BY <2>1, <2>3, SeqMonotonic
<1>2. \A a \in Aliases(c) : IsPrefix(a[1], n) => Rest(a) \in Seq(Segments)
  <2> SUFFICES ASSUME NEW a \in Aliases(c), IsPrefix(a[1], n) PROVE Rest(a) \in Seq(Segments)
    OBVIOUS
  <2>0. IsPrefix(a[1], n)
    OBVIOUS
  <2>1. a[1] \in Seq(Segments)
    <3>1. PICK base \in {<<>>, SandboxBase}, d \in {"work", "output", "skill-packages"} :
               a[1] = base \o <<d>>
      BY DEF Aliases
    <3>2. base \in Seq(Segments) /\ <<d>> \in Seq(Segments)
      <4>1. "workspace" \in Segments /\ d \in Segments
        BY DEF Segments
      <4>2. <<>> \in Seq(Segments) /\ SandboxBase \in Seq(Segments)
        BY <4>1, EmptySeq DEF SandboxBase
      <4>3. <<d>> \in Seq(Segments)
        BY ONLY <4>1
      <4>4. base = <<>> \/ base = SandboxBase
        OBVIOUS
      <4>5. base \in Seq(Segments)
        BY ONLY <4>2, <4>4
      <4>6. QED
        BY ONLY <4>3, <4>5
    <3>3. base \o <<d>> \in Seq(Segments)
      BY <3>2, ConcatProperties
    <3>4. QED
      BY <3>1, <3>3
  <2> HIDE DEF n
  <2>2. QED
    BY ONLY <1>1, <2>0, <2>1, PrefixAndAfter
<1>3. CASE PhysicalPath(c, path) # Refused
  <2>1. PICK a \in Aliases(c) : IsPrefix(a[1], n) /\ PhysicalPath(c, path) = a[2] \o Rest(a)
    BY <1>3 DEF PhysicalPath
  <2>2. Rest(a) \in Seq(Segments)
    BY <1>2, <2>1
  <2>3. CASE a[2] = SkillPackages
    BY <2>1, <2>2, <2>3
  <2>4. CASE \E x \in {"work", "output"} : a[2] = Workspace(c) \o <<x>>
    <3>1. PICK x \in {"work", "output"} : a[2] = Workspace(c) \o <<x>>
      BY <2>4
    <3>2. <<x>> \in Seq(Segments) /\ Workspace(c) \in Seq(Segments)
      BY WorkspaceSegments DEF Segments
    <3> DEFINE t == <<x>> \o Rest(a)
    <3>3. t \in Seq(Segments) /\ t # <<>>
      <4>1. t \in Seq(Segments)
        BY <2>2, <3>2, ConcatProperties
      <4>2. <<x>> # <<>>
        OBVIOUS
      <4> HIDE DEF Rest
      <4>3. t # <<>>
        BY <2>2, <3>2, <4>2, ConcatEqualIffEmpty
      <4>4. QED
        BY <4>1, <4>3
    <3>4. a[2] \o Rest(a) = Workspace(c) \o t
      BY <2>2, <3>1, <3>2, ConcatAssociative
    <3> HIDE DEF t
    <3>5. QED
      BY <2>1, <3>3, <3>4
  <2>5. a[2] = SkillPackages \/ \E x \in {"work", "output"} : a[2] = Workspace(c) \o <<x>>
    BY DEF Aliases
  <2>6. QED
    BY <2>3, <2>4, <2>5
<1>4. QED
  BY <1>3

\* The shared skills lie in the directory of no conversation.
LEMMA SkillsAreNobodys ==
  ASSUME NEW d \in Conversations, NEW t \in Seq(Segments)
  PROVE  ~IsPrefix(Workspace(d), SkillPackages \o t)
<1> DEFINE q == SkillPackages \o t
<1> SUFFICES ASSUME IsPrefix(Workspace(d), q) PROVE FALSE
  OBVIOUS
<1>1. SkillPackages \in Seq(Segments) /\ Len(SkillPackages) = 2 /\ SkillPackages[2] = "skill-packages"
  <2>1. <<"workspace">> \in Seq(Segments) /\ <<"skill-packages">> \in Seq(Segments)
    BY DEF Segments
  <2>2. QED
    BY <2>1, ConcatProperties DEF SkillPackages, SandboxBase
<1>2. q \in Seq(Segments)
  BY <1>1, ConcatProperties
<1>3. q[2] = "skill-packages"
  <2>1. 2 \in 1 .. Len(SkillPackages)
    BY <1>1
  <2>2. QED
    BY <1>1, <2>1, LeftOfConcat
<1> HIDE DEF q
<1>4. Workspace(d) \in Seq(Segments) /\ Len(Workspace(d)) = 4 /\ Workspace(d)[2] = "staff-workspaces"
  BY WorkspaceSegments
<1>5. \A i \in 1 .. Len(Workspace(d)) : Workspace(d)[i] = q[i]
  <2>1. Workspace(d) \in Seq(Segments) /\ IsPrefix(Workspace(d), q)
    BY <1>4
  <2>2. QED
    BY ONLY <1>2, <2>1, PrefixAndAfter
<1>6. 2 \in 1 .. Len(Workspace(d))
  BY <1>4
<1>7. QED
  BY <1>3, <1>4, <1>5, <1>6

\* No alias leads into the directory of another conversation.
LEMMA PhysicalPathIsOwn ==
  ASSUME NEW c \in Conversations, NEW d \in Conversations, NEW path \in LogicalPaths,
         IsPrefix(Workspace(d), PhysicalPath(c, path))
  PROVE  c = d
<1>1. CASE PhysicalPath(c, path) = Refused
  BY <1>1, WorkspaceSegments DEF Refused, IsPrefix
<1>2. CASE \E t \in Seq(Segments) : PhysicalPath(c, path) = Workspace(c) \o t
  BY <1>2, BelowWorkspace
<1>3. CASE \E t \in Seq(Segments) : PhysicalPath(c, path) = SkillPackages \o t
  BY <1>3, SkillsAreNobodys
<1>4. QED
  BY <1>1, <1>2, <1>3, PhysicalPathPlace

\* The files that may be published.
OutputPaths == {p \in Seq(Names) : IsStrictPrefix(OutputDir, p)}

\* The logical directories, as they are written.
LEMMA Logical ==
  ASSUME NEW d \in {"work", "output", "skill-packages", "staff-workspaces"}
  PROVE  /\ <<>> \o <<d>> = <<d>> /\ SandboxBase \o <<d>> = <<"workspace", d>>
         /\ "workspace" \in Names /\ d \in Names
<1>1. "workspace" \in Names /\ d \in Names
  BY DEF Names, Segments
<1>2. <<>> \o <<d>> = <<d>>
  BY <1>1, ConcatEmptySeq
<1>3. SandboxBase \o <<d>> = <<"workspace", d>>
  BY <1>1, Pair DEF SandboxBase
<1>4. QED
  BY <1>1, <1>2, <1>3

\* A path that normalize_output_path accepts lies below the output directory, normalized.
LEMMA OutputIsBelow ==
  ASSUME NEW path \in Seq(Segments), NormalizeOutput(path) # Refused
  PROVE  NormalizeOutput(path) \in OutputPaths
<1> DEFINE long == IF IsStrictPrefix(<<"output">>, path) THEN SandboxBase \o path ELSE path
<1>1. long \in Seq(Segments)
  <2>1. SandboxBase \in Seq(Segments)
    BY DEF SandboxBase, Segments
  <2>2. SandboxBase \o path \in Seq(Segments)
    BY <2>1, ConcatProperties
  <2>3. QED
    BY <2>2
<1>2. Normalize(long) \in Seq(Names)
  <2> HIDE DEF long
  <2>1. QED
    BY <1>1, NormalizeTyped
<1>3. IsStrictPrefix(OutputDir, Normalize(long)) /\ NormalizeOutput(path) = Normalize(long)
  BY DEF NormalizeOutput
<1>4. QED
  BY <1>2, <1>3 DEF OutputPaths

\* How such a path begins.
LEMMA OutputSegments ==
  ASSUME NEW p \in OutputPaths
  PROVE  /\ p \in Seq(Names) /\ p[1] = "workspace" /\ p[2] = "output"
         /\ After(p, OutputDir) \in Seq(Names) /\ After(p, OutputDir) # <<>>
         /\ IsPrefix(OutputDir, p)
<1>1. OutputDir = <<"workspace", "output">> /\ "workspace" \in Names /\ "output" \in Names
  BY Logical DEF OutputDir
<1>2. OutputDir \in Seq(Names) /\ Len(OutputDir) = 2 /\ OutputDir[1] = "workspace" /\ OutputDir[2] = "output"
  BY <1>1
<1>3. p \in Seq(Names) /\ IsPrefix(OutputDir, p) /\ OutputDir # p
  BY DEF OutputPaths, IsStrictPrefix
<1>4. /\ After(p, OutputDir) \in Seq(Names) /\ p = OutputDir \o After(p, OutputDir)
      /\ \A i \in 1 .. 2 : OutputDir[i] = p[i]
  <2>1. /\ After(p, OutputDir) \in Seq(Names) /\ p = OutputDir \o After(p, OutputDir)
        /\ \A i \in 1 .. Len(OutputDir) : OutputDir[i] = p[i]
    <3>1. OutputDir \in Seq(Names) /\ p \in Seq(Names)
      BY <1>2, <1>3
    <3>2. IsPrefix(OutputDir, p)
      BY <1>3
    <3>3. QED
      BY ONLY <3>1, <3>2, PrefixAndAfter
  <2>2. QED
    BY <1>2, <2>1
<1>5. After(p, OutputDir) # <<>>
  <2>1. OutputDir \o <<>> = OutputDir
    BY <1>2, ConcatEmptySeq
  <2>2. QED
    BY <1>3, <1>4, <2>1
<1>6. QED
  BY <1>2, <1>3, <1>4, <1>5

\* It is its own output path.
LEMMA OutputFixed ==
  ASSUME NEW p \in OutputPaths
  PROVE  NormalizeOutput(p) = p
<1>1. p \in Seq(Names) /\ p[1] = "workspace"
  BY OutputSegments
<1>2. Normalize(p) = p
  BY <1>1, NormalizeFixed
<1>3. ~IsStrictPrefix(<<"output">>, p)
  <2> SUFFICES ASSUME IsPrefix(<<"output">>, p) PROVE FALSE
    BY DEF IsStrictPrefix
  <2>1. <<"output">> \in Seq(Names)
    BY Logical
  <2>2. \A i \in 1 .. Len(<<"output">>) : <<"output">>[i] = p[i]
    BY <1>1, <2>1, PrefixAndAfter
  <2>3. p[1] = "output"
    BY <2>2
  <2>4. QED
    BY <1>1, <2>3
<1>4. IsStrictPrefix(OutputDir, p)
  BY DEF OutputPaths
<1>5. QED
  BY <1>2, <1>3, <1>4 DEF NormalizeOutput

\* The only alias that fits it is that of the output directory.
LEMMA OutputAlias ==
  ASSUME NEW c \in Conversations, NEW p \in OutputPaths
  PROVE  {a \in Aliases(c) : IsPrefix(a[1], p)} = {<<OutputDir, Workspace(c) \o <<"output">>>>}
<1> DEFINE alias == <<OutputDir, Workspace(c) \o <<"output">>>>
<1>1. alias \in Aliases(c) /\ IsPrefix(alias[1], p)
  BY OutputSegments DEF Aliases, OutputDir
<1>2. ASSUME NEW a \in Aliases(c), IsPrefix(a[1], p) PROVE a = alias
  <2>1. PICK base \in {<<>>, SandboxBase}, d \in {"work", "output", "skill-packages"} :
             /\ a[1] = base \o <<d>>
             /\ d = "output" => a = <<base \o <<d>>, Workspace(c) \o <<d>>>>
    BY DEF Aliases
  <2>2. p \in Seq(Names) /\ p[1] = "workspace" /\ p[2] = "output"
    BY OutputSegments
  <2>3. /\ <<>> \o <<d>> = <<d>> /\ SandboxBase \o <<d>> = <<"workspace", d>>
        /\ "workspace" \in Names /\ d \in Names
    BY Logical
  <2>4. CASE base = <<>>
    <3> DEFINE b == <<d>>
    <3>1. b \in Seq(Names) /\ Len(b) = 1 /\ b[1] = d
      BY <2>3
    <3>2. IsPrefix(b, p)
      <4>1. a[1] = b
        BY <2>1, <2>3, <2>4
      <4>2. QED
        BY <1>2, <4>1
    <3> HIDE DEF b
    <3>3. d = p[1]
      <4>1. b \in Seq(Names) /\ p \in Seq(Names)
        BY <2>2, <3>1
      <4>2. \A i \in 1 .. Len(b) : b[i] = p[i]
        BY ONLY <4>1, <3>2, PrefixAndAfter
      <4>3. QED
        BY <3>1, <4>2
    <3>4. QED
      BY <2>2, <3>3
  <2>5. CASE base = SandboxBase
    <3> DEFINE b == <<"workspace", d>>
    <3>1. b \in Seq(Names) /\ Len(b) = 2 /\ b[2] = d
      BY <2>3
    <3>2. IsPrefix(b, p)
      <4>1. a[1] = b
        BY <2>1, <2>3, <2>5
      <4>2. QED
        BY <1>2, <4>1
    <3> HIDE DEF b
    <3>3. d = p[2]
      <4>1. b \in Seq(Names) /\ p \in Seq(Names)
        BY <2>2, <3>1
      <4>2. \A i \in 1 .. Len(b) : b[i] = p[i]
        BY ONLY <4>1, <3>2, PrefixAndAfter
      <4>3. QED
        BY <3>1, <4>2
    <3>4. QED
      BY <2>1, <2>2, <2>5, <3>3 DEF OutputDir
  <2>6. QED
    BY <2>4, <2>5
<1> HIDE DEF alias
<1>3. {a \in Aliases(c) : IsPrefix(a[1], p)} = {alias}
  BY <1>1, <1>2
<1>4. QED
  BY <1>3 DEF alias

\* Such a path reaches a file below the output directory of its own conversation.
LEMMA OutputReached ==
  ASSUME NEW c \in Conversations, NEW p \in OutputPaths
  PROVE  IsStrictPrefix(Workspace(c) \o <<"output">>, Reached(c, p))
<1> DEFINE dir == Workspace(c) \o <<"output">>
           rest == After(p, OutputDir)
           physical == dir \o rest
<1>1. dir \in Seq(Segments) /\ Len(dir) = 5 /\ dir[1] = "workspace"
  <2>1. <<"output">> \in Seq(Segments)
    BY DEF Segments
  <2>2. Workspace(c) \in Seq(Segments) /\ Len(Workspace(c)) = 4 /\ Workspace(c)[1] = "workspace"
    BY WorkspaceSegments
  <2>3. 1 \in 1 .. Len(Workspace(c))
    BY <2>2
  <2>4. (Workspace(c) \o <<"output">>)[1] = Workspace(c)[1]
    BY <2>1, <2>2, <2>3, LeftOfConcat
  <2>5. dir \in Seq(Segments) /\ Len(dir) = 4 + 1
    BY <2>1, <2>2, ConcatProperties
  <2>6. QED
    BY <2>2, <2>4, <2>5
<1>2. rest \in Seq(Segments) /\ rest # <<>>
  <2>1. Names \subseteq Segments
    BY DEF Names
  <2>2. rest \in Seq(Names) /\ rest # <<>>
    BY OutputSegments
  <2> HIDE DEF rest
  <2>3. QED
    BY <2>1, <2>2, SeqMonotonic
<1>3. PhysicalPath(c, p) = physical
  <2> DEFINE alias == <<OutputDir, Workspace(c) \o <<"output">>>>
             fitting == {a \in Aliases(c) : IsPrefix(a[1], p)}
  <2>1. Normalize(p) = p
    BY OutputSegments, NormalizeFixed
  <2>2. fitting = {alias}
    BY OutputAlias
  <2>3. (CHOOSE a \in fitting : TRUE) = alias
    <3> HIDE DEF alias, fitting
    <3>1. QED
      BY <2>2
  <2>4. fitting # {}
    BY <2>2
  <2>5. PhysicalPath(c, p) = alias[2] \o After(p, alias[1])
    <3>1. PhysicalPath(c, p) =
            IF fitting = {} THEN Refused
            ELSE (CHOOSE a \in fitting : TRUE)[2] \o After(p, (CHOOSE a \in fitting : TRUE)[1])
      BY <2>1 DEF PhysicalPath
    <3> HIDE DEF alias, fitting
    <3>2. QED
      BY <2>3, <2>4, <3>1
  <2>6. QED
    BY <2>5
<1> HIDE DEF dir, rest
<1>4. /\ physical \in Seq(Segments) /\ physical[1] = "workspace"
      /\ Len(physical) > 5 /\ Len(physical) # 1
  <2>1. Len(rest) \in Nat \ {0}
    BY <1>2, EmptySeq
  <2>2. physical \in Seq(Segments) /\ Len(physical) = 5 + Len(rest)
    <3>1. dir \o rest \in Seq(Segments) /\ Len(dir \o rest) = Len(dir) + Len(rest)
      BY <1>1, <1>2, ConcatProperties
    <3>2. QED
      BY <1>1, <3>1
  <2>3. 1 \in 1 .. Len(dir)
    BY <1>1
  <2>4. physical[1] = dir[1]
    BY <1>1, <1>2, <2>3, LeftOfConcat
  <2>5. QED
    BY <1>1, <2>1, <2>2, <2>4
<1>5. IsStrictPrefix(dir, physical)
  BY <1>1, <1>2, PrefixOfConcat
<1>6. Reached(c, p) = physical
  <2> HIDE DEF physical
  <2>1. SandboxBase = <<"workspace">> /\ SandboxBase \in Seq(Segments) /\ Len(SandboxBase) = 1
    BY DEF SandboxBase, Segments
  <2>2. IsStrictPrefix(SandboxBase, physical)
    <3>1. SubSeq(physical, 1, 1) = SandboxBase
      <4>1. \A i \in 1 .. 1 : physical[i] \in Segments
        <5>1. 1 \in 1 .. Len(physical)
          BY <1>4, LenProperties
        <5>2. QED
          BY <1>4, <5>1, ElementOfSeq
      <4>2. /\ SubSeq(physical, 1, 1) \in Seq(Segments) /\ Len(SubSeq(physical, 1, 1)) = 1
            /\ SubSeq(physical, 1, 1)[1] = physical[1]
        BY <4>1, SubSeqProperties
      <4> DEFINE q == SubSeq(physical, 1, 1)
      <4> HIDE DEF q
      <4>3. \A i \in 1 .. Len(q) : q[i] = SandboxBase[i]
        BY <1>4, <2>1, <4>2 DEF q
      <4>4. q = SandboxBase
        BY <2>1, <4>2, <4>3, SeqEqual DEF q
      <4>5. QED
        BY <4>4 DEF q
    <3>2. SubSeq(SandboxBase, 1, 1) = SandboxBase
      <4>1. SubSeq(SandboxBase, 1, Len(SandboxBase)) = SandboxBase
        BY <2>1, SubSeqFull
      <4>2. QED
        BY <2>1, <4>1
    <3>3. Len(SandboxBase) <= Len(physical) /\ Len(physical) \in Nat
      BY <1>4, <2>1, LenProperties
    <3>4. IsPrefix(SandboxBase, physical)
      BY <2>1, <3>1, <3>2, <3>3 DEF IsPrefix
    <3>5. SandboxBase # physical
      <4>1. Len(physical) # Len(SandboxBase)
        BY <1>4, <2>1
      <4>2. QED
        BY <4>1
    <3>6. QED
      BY <3>4, <3>5 DEF IsStrictPrefix
  <2>3. /\ After(physical, SandboxBase) \in Seq(Segments)
        /\ physical = SandboxBase \o After(physical, SandboxBase)
    BY <1>4, <2>1, <2>2, PrefixAndAfter DEF IsStrictPrefix
  <2>4. physical # Refused
    BY <1>4 DEF Refused
  <2>5. QED
    BY <1>3, <2>2, <2>3, <2>4 DEF Reached, RuntimeRelative, OnPod, physical
<1>7. QED
  BY <1>5, <1>6 DEF dir
-----------------------------------------------------------------------------
Paths == {Refused} \cup {NormalizeOutput(path) : path \in LogicalPaths}
AllPhases == {"idle", "done"} \cup RunPhases \cup DeletePhases

RequestRecord == [at : AllPhases, of : Conversations \cup {None}, path : Paths]
ArtifactRecord == [of : Conversations \cup {None}, path : Paths, left : 0 .. Retention]
SweepRecord == [at : {"asleep", "sweeping", "removed", "dead"},
                listed : SUBSET Conversations, now : Conversations \cup {None}]

\* The types of the rows, of the workers and of the cleanup.
RowsTyped == /\ conversation \in [Conversations -> {"absent", "live", "deleted"}]
             /\ activity \in [Conversations -> Ages \cup {None}]
RequestsTyped == request \in [Requests -> RequestRecord]
SweepTyped == sweep \in SweepRecord
FaultsRecord == [total : 0 .. MaxFaults, database : BOOLEAN,
                 unremoved : SUBSET Conversations, trespassed : SUBSET Conversations]
FaultsTyped == faults \in FaultsRecord
Typed == RowsTyped /\ RequestsTyped /\ SweepTyped /\ FaultsTyped

\* Whoever works on a conversation has one; the cleanup works on one of its list.
Placed ==
    /\ \A r \in Requests : request[r].at \in RunPhases \cup DeletePhases =>
                               request[r].of \in Conversations
    /\ sweep.at = "removed" => sweep.now \in sweep.listed

\* A request past touch, and a deletion past its release.
UsePhases == RunPhases \ {"inserting"}
Uses(r, c) == request[r].of = c /\ request[r].at \in UsePhases
HasReleased(r, c) == request[r].of = c /\ request[r].at = "released"
HasRemoved(c) == sweep.at = "removed" /\ sweep.now = c

\* The history misses no meeting.
MetIsRemembered == \A c \in Conversations : Met(c) => c \in overtaken

\* A request past touch has a row, unless its conversation was overtaken; a directory that
\* was just removed is gone, unless there is an excuse.
UsedHasRow ==
    \A c \in Conversations, r \in Requests :
        Uses(r, c) /\ activity[c] = None => c \in overtaken
ReleasedIsGone ==
    \A c \in Conversations, r \in Requests :
        HasReleased(r, c) /\ HasDirectory(c) => Excused(c)
RemovedIsGone ==
    \A c \in Conversations : HasRemoved(c) /\ HasDirectory(c) => Excused(c)

\* The list of the cleanup: its rows have expired, or went with their conversation.
ListedHasExpired ==
    \A c \in sweep.listed :
        \/ activity[c] # None /\ activity[c] > Retention
        \/ activity[c] = None /\ conversation[c] = "deleted"

\* Every path of the pod lies below a conversation's directory, in the shared skills or
\* where a shell command strayed; and who may use the pod.
PodTyped ==
    /\ \A p \in pod : \/ \E c \in Conversations : IsStrictPrefix(Workspace(c), p)
                     \/ IsPrefix(SkillPackages, p)
                     \/ p \in ShellPaths
    /\ podUp \in BOOLEAN /\ refused \subseteq Unplaceable
    /\ overtaken \subseteq Conversations

\* What is listed, or about to be, was accepted by normalize_output_path, and its
\* conversation is there.
ArtifactsTyped == artifact \in [Artifacts -> ArtifactRecord]
Published ==
    /\ \A r \in Requests : request[r].at = "publishing" => request[r].path # Refused
    /\ \A a \in Artifacts : artifact[a].left > 0 =>
           /\ artifact[a].path # Refused
           /\ artifact[a].of \in Conversations /\ conversation[artifact[a].of] = "live"

IInv ==
    /\ Typed /\ PodTyped /\ ArtifactsTyped /\ Placed /\ Published
    /\ MetIsRemembered /\ UsedHasRow /\ ReleasedIsGone /\ RemovedIsGone
    /\ OrphanOnlyWhenOvertaken /\ ListedHasExpired
-----------------------------------------------------------------------------
\* A request that goes on keeps the type of the requests.
LEMMA GoTyped ==
  ASSUME RequestsTyped, NEW r \in Requests, NEW from, NEW to \in AllPhases, Go(r, from, to)
  PROVE  RequestsTyped'
<1>1. [request[r] EXCEPT !.at = to] \in RequestRecord
  BY DEF RequestsTyped, RequestRecord
<1>2. QED
  BY <1>1 DEF Go, RequestsTyped

\* A request that begins keeps the type of the requests.
LEMMA TakeTyped ==
  ASSUME RequestsTyped, NEW r \in Requests, NEW c \in Conversations, NEW to \in AllPhases,
         Take(r, c, to)
  PROVE  RequestsTyped'
<1>1. [request[r] EXCEPT !.at = to, !.of = c] \in RequestRecord
  BY DEF RequestsTyped, RequestRecord
<1>2. QED
  BY <1>1 DEF Take, RequestsTyped

\* A request that ends keeps the type of the requests.
LEMMA LeaveTyped ==
  ASSUME RequestsTyped, NEW r \in Requests, Leave(r)
  PROVE  RequestsTyped'
<1>1. Finished \in RequestRecord
  BY DEF Finished, RequestRecord, AllPhases, Paths
<1>2. QED
  BY <1>1 DEF Leave, RequestsTyped

\* The requests keep their types.
LEMMA RequestsTypedStep ==
  ASSUME Typed, Placed, Step
  PROVE  RequestsTyped'
<1> USE NoneAssumption, RetentionAssumption DEF Typed, RequestsTyped
<1>1. ASSUME UNCHANGED request PROVE RequestsTyped'
  BY <1>1
<1>2. ASSUME NEW q \in Requests, NEW d \in Conversations, Delete(q, d) PROVE RequestsTyped'
  BY <1>2, TakeTyped DEF Delete, AllPhases, RunPhases, DeletePhases
<1>3. ASSUME NEW q \in Requests, Release(q) PROVE RequestsTyped'
  BY <1>3, GoTyped DEF Release, AllPhases, RunPhases, DeletePhases
<1>4. ASSUME NEW q \in Requests, ReleaseFails(q) PROVE RequestsTyped'
  BY <1>4, GoTyped DEF ReleaseFails, AllPhases, RunPhases, DeletePhases
<1>5. ASSUME NEW q \in Requests, DropConversation(q) PROVE RequestsTyped'
  BY <1>5, GoTyped, LeaveTyped DEF DropConversation, AllPhases, RunPhases, DeletePhases
<1>6. ASSUME NEW q \in Requests, NEW d \in Conversations, Ask(q, d) PROVE RequestsTyped'
  BY <1>6, TakeTyped DEF Ask, AllPhases, RunPhases, DeletePhases
<1>7. ASSUME NEW q \in Requests, InsertActivity(q) PROVE RequestsTyped'
  BY <1>7, GoTyped, LeaveTyped DEF InsertActivity, AllPhases, RunPhases, DeletePhases
<1>8. ASSUME NEW q \in Requests, KeepActivity(q) PROVE RequestsTyped'
  BY <1>8, GoTyped DEF KeepActivity, AllPhases, RunPhases, DeletePhases
<1>9. ASSUME NEW q \in Requests, IssueCommand(q) PROVE RequestsTyped'
  BY <1>9, GoTyped DEF IssueCommand, AllPhases, RunPhases, DeletePhases
<1>10. ASSUME NEW q \in Requests, CommandLands(q) PROVE RequestsTyped'
  BY <1>10, GoTyped, LeaveTyped DEF CommandLands, AllPhases, RunPhases, DeletePhases
<1>11. ASSUME NEW q \in Requests, NEW path \in LogicalPaths, ReadForPublishing(q, path)
       PROVE  RequestsTyped'
  <2>1. NormalizeOutput(path) \in Paths /\ "publishing" \in AllPhases
    BY DEF Paths, AllPhases, RunPhases
  <2>2. [request[q] EXCEPT !.at = "publishing", !.path = NormalizeOutput(path)] \in RequestRecord
    BY <2>1 DEF RequestRecord
  <2>3. QED
    BY <1>11, <2>2 DEF ReadForPublishing
<1>12. ASSUME NEW q \in Requests, NEW a \in Artifacts, StoreArtifact(q, a) PROVE RequestsTyped'
  <2>1. Refused \in Paths /\ "running" \in AllPhases
    BY DEF Paths, AllPhases, RunPhases
  <2>2. [request[q] EXCEPT !.at = "running", !.path = Refused] \in RequestRecord
    BY <2>1 DEF RequestRecord
  <2>3. QED
    BY <1>12, <2>2 DEF StoreArtifact
<1>13. ASSUME NEW q \in Requests, EndRun(q) PROVE RequestsTyped'
  BY <1>13, GoTyped, LeaveTyped DEF EndRun, AllPhases, RunPhases, DeletePhases
<1>14. ASSUME NEW q \in Requests, Disconnect(q) PROVE RequestsTyped'
  BY <1>14, GoTyped, LeaveTyped DEF Disconnect, AllPhases, RunPhases, DeletePhases
<1>15. ASSUME Restart PROVE RequestsTyped'
  <2>1. Unused \in RequestRecord /\ Finished \in RequestRecord
    BY DEF Unused, Finished, RequestRecord, AllPhases, Paths
  <2>2. QED
    BY <1>15, <2>1 DEF Restart
<1>16. QED
  BY <1>1, <1>2, <1>3, <1>4, <1>5, <1>6, <1>7, <1>8, <1>9, <1>10, <1>11, <1>12, <1>13, <1>14,
     <1>15
     DEF Step, Serve, Sweep, Create, ListExpired, SweepForget, SweepSleeps, SweepRemove,
         SweepSkip, SweepFails, Tick, PodDown, PodBack, PodRebuilt, rows

\* The cleanup keeps its type.
LEMMA SweepTypedStep ==
  ASSUME Typed, Placed, Step
  PROVE  SweepTyped'
<1> USE NoneAssumption, RetentionAssumption DEF Typed, SweepTyped, SweepRecord
<1>1. ASSUME UNCHANGED sweep PROVE SweepTyped'
  BY <1>1
<1>2. ASSUME ListExpired PROVE SweepTyped'
  BY <1>2 DEF ListExpired, Expired
<1>3. ASSUME SweepForget PROVE SweepTyped'
  BY <1>3 DEF SweepForget
<1>4. ASSUME SweepSleeps PROVE SweepTyped'
  BY <1>4 DEF SweepSleeps, Asleep
<1>5. ASSUME NEW d \in Conversations, SweepRemove(d) PROVE SweepTyped'
  BY <1>5 DEF SweepRemove
<1>6. ASSUME NEW d \in Conversations, SweepSkip(d) PROVE SweepTyped'
  BY <1>6 DEF SweepSkip
<1>7. ASSUME SweepFails PROVE SweepTyped'
  BY <1>7 DEF SweepFails
<1>8. ASSUME Restart PROVE SweepTyped'
  BY <1>8 DEF Restart, Asleep
<1>9. QED
  BY <1>1, <1>2, <1>3, <1>4, <1>5, <1>6, <1>7, <1>8
     DEF Step, Serve, Sweep, Create, Delete, Release, ReleaseFails, DropConversation, Ask,
         InsertActivity, KeepActivity, IssueCommand, CommandLands, ReadForPublishing,
         StoreArtifact, EndRun, Disconnect, Tick, PodDown, PodBack, PodRebuilt, rows

\* The rows keep their types.
LEMMA RowsTypedStep ==
  ASSUME Typed, Placed, Step
  PROVE  RowsTyped'
<1> USE NoneAssumption, RetentionAssumption DEF Typed, RowsTyped, Ages
<1>1. ASSUME UNCHANGED <<conversation, activity>> PROVE RowsTyped'
  BY <1>1
<1>2. ASSUME NEW d \in Conversations, Create(d) PROVE RowsTyped'
  BY <1>2 DEF Create
<1>3. ASSUME NEW q \in Requests, DropConversation(q) PROVE RowsTyped'
  BY <1>3 DEF DropConversation, Mine
<1>4. ASSUME NEW q \in Requests, InsertActivity(q) PROVE RowsTyped'
  <2>1. 0 \in Ages
    OBVIOUS
  <2>2. QED
    BY <1>4, <2>1 DEF InsertActivity
<1>5. ASSUME SweepForget PROVE RowsTyped'
  BY <1>5 DEF SweepForget
<1>6. ASSUME Tick PROVE RowsTyped'
  <2>1. \A c \in Conversations :
           activity'[c] = IF activity[c] = None THEN None
                          ELSE IF activity[c] > Retention THEN activity[c] ELSE activity[c] + 1
    BY <1>6 DEF Tick
  <2>2. \A c \in Conversations : activity'[c] \in Ages \cup {None}
    BY <2>1
  <2>3. QED
    BY <1>6, <2>2 DEF Tick
<1>7. QED
  BY <1>1, <1>2, <1>3, <1>4, <1>5, <1>6
     DEF Step, Serve, Sweep, Delete, Release, ReleaseFails, Ask, KeepActivity, IssueCommand,
         CommandLands, ReadForPublishing, StoreArtifact, EndRun, Disconnect, ListExpired,
         SweepSleeps, SweepRemove, SweepSkip, SweepFails, PodDown, PodBack, PodRebuilt, Restart,
         rows

\* A fault is counted.
LEMMA FaultCounted ==
  ASSUME FaultsTyped, NEW kind, Fault(kind)
  PROVE  /\ Counted \in FaultsRecord /\ Counted.total = faults.total + 1 /\ faults.total \in Nat
         /\ Counted.database = faults.database
         /\ Counted.unremoved = faults.unremoved /\ Counted.trespassed = faults.trespassed
<1>1. faults.total + 1 \in 0 .. MaxFaults
  BY BoundsAssumption DEF FaultsTyped, FaultsRecord, Fault
<1>2. QED
  BY <1>1 DEF FaultsTyped, FaultsRecord, Counted

\* What a removal leaves is part of that directory, and it is remembered.
LEMMA RemovalEnds ==
  ASSUME FaultsTyped, NEW c \in Conversations, RemoveWorkspace(c)
  PROVE  /\ FaultsTyped' /\ pod' \subseteq pod
         /\ faults.unremoved \subseteq faults'.unremoved /\ faults.trespassed \subseteq faults'.trespassed
         /\ HasDirectory(c)' => c \in faults'.unremoved
         /\ faults' = faults => pod' = pod \ Contents(c)
<1>1. CASE pod' = pod \ Contents(c) /\ UNCHANGED faults
  <2>1. ~HasDirectory(c)'
    BY <1>1 DEF HasDirectory, Contents
  <2>2. QED
    BY <1>1, <2>1 DEF FaultsTyped
<1>2. CASE /\ Fault("removal")
           /\ \E left \in SUBSET Contents(c) \ {{}} : pod' = pod \ (Contents(c) \ left)
           /\ faults' = [Counted EXCEPT !.unremoved = @ \cup {c}]
  <2>1. /\ Counted \in FaultsRecord /\ Counted.total = faults.total + 1 /\ faults.total \in Nat
        /\ Counted.unremoved = faults.unremoved /\ Counted.trespassed = faults.trespassed
    BY <1>2, FaultCounted
  <2>2. /\ faults' \in FaultsRecord /\ faults'.total = Counted.total
        /\ faults'.unremoved = faults.unremoved \cup {c} /\ faults'.trespassed = faults.trespassed
    BY <1>2, <2>1 DEF FaultsRecord
  <2>3. faults' # faults
    BY <2>1, <2>2
  <2>4. QED
    BY <1>2, <2>2, <2>3 DEF FaultsTyped
<1>3. QED
  BY <1>1, <1>2 DEF RemoveWorkspace

\* What a command makes: its directories, the paths of the aliases, or what it strayed to, and
\* then it is remembered whose directory that is.
LEMMA CommandEnds ==
  ASSUME FaultsTyped, NEW c \in Conversations, CommandWrites(c) \/ CommandTrespasses(c)
  PROVE  /\ FaultsTyped'
         /\ faults' = faults => pod \subseteq pod'
         /\ faults.unremoved \subseteq faults'.unremoved /\ faults.trespassed \subseteq faults'.trespassed
         /\ \A p \in pod' \ pod :
                \/ \E x \in {"work", "output"} : p = Workspace(c) \o <<x>>
                \/ \E path \in LogicalPaths : p = PhysicalPath(c, path) /\ p # Refused
                \/ /\ p \in ShellPaths
                   /\ \A d \in Conversations :
                          IsPrefix(Workspace(d), p) => d = c \/ d \in faults'.trespassed
<1>1. CASE CommandWrites(c)
  <2>1. faults' = faults /\ pod \subseteq pod'
    BY <1>1 DEF CommandWrites
  <2>2. \A p \in pod' \ pod : \/ \E x \in {"work", "output"} : p = Workspace(c) \o <<x>>
                            \/ \E path \in LogicalPaths : p = PhysicalPath(c, path) /\ p # Refused
    BY <1>1 DEF CommandWrites, Made
  <2>3. QED
    BY <2>1, <2>2 DEF FaultsTyped
<1>2. CASE CommandTrespasses(c)
  <2>1. PICK written \in SUBSET ShellPaths :
             /\ pod' = (pod \ ShellPaths) \cup Made(c) \cup written
             /\ faults' = [Counted EXCEPT !.trespassed = @ \cup
                              {d \in Conversations \ {c} : \E p \in written : IsPrefix(Workspace(d), p)}]
    BY <1>2 DEF CommandTrespasses
  <2> DEFINE met == {d \in Conversations \ {c} : \E p \in written : IsPrefix(Workspace(d), p)}
  <2>2. /\ Counted \in FaultsRecord /\ Counted.total = faults.total + 1 /\ faults.total \in Nat
        /\ Counted.unremoved = faults.unremoved /\ Counted.trespassed = faults.trespassed
    BY <1>2, FaultCounted DEF CommandTrespasses
  <2>3. met \subseteq Conversations /\ faults' = [Counted EXCEPT !.trespassed = @ \cup met]
    BY <2>1
  <2> HIDE DEF met
  <2>4. /\ faults' \in FaultsRecord /\ faults'.total = Counted.total
        /\ faults'.trespassed = faults.trespassed \cup met /\ faults'.unremoved = faults.unremoved
    BY <2>2, <2>3 DEF FaultsRecord
  <2>5. faults' # faults
    BY <2>2, <2>4
  <2>6. ASSUME NEW p \in pod' \ pod
        PROVE  \/ \E x \in {"work", "output"} : p = Workspace(c) \o <<x>>
               \/ /\ p \in ShellPaths
                  /\ \A d \in Conversations :
                         IsPrefix(Workspace(d), p) => d = c \/ d \in faults'.trespassed
    <3>1. p \in Made(c) \/ p \in written
      BY <2>1, <2>6
    <3>2. CASE p \in written
      <4>1. \A d \in Conversations : IsPrefix(Workspace(d), p) => d = c \/ d \in met
        BY <3>2 DEF met
      <4>2. QED
        BY <2>4, <3>2, <4>1
    <3>3. QED
      BY <3>1, <3>2 DEF Made
  <2>7. QED
    BY <2>4, <2>5, <2>6 DEF FaultsTyped
<1>3. QED
  BY <1>1, <1>2

\* The command of a request leaves the pod and the faults alone, or ends as above.
LEMMA CommandOf ==
  ASSUME Typed, Placed, NEW q \in Requests, CommandLands(q)
  PROVE  /\ Mine(q) \in Conversations /\ Uses(q, Mine(q)) /\ activity' = activity
         /\ \/ pod' = pod /\ faults' = faults
            \/ CommandWrites(Mine(q)) \/ CommandTrespasses(Mine(q))
<1>1. request[q].at \in {"executing", "abandoned"} /\ activity' = activity
  BY DEF CommandLands, rows
<1>2. Mine(q) \in Conversations /\ Uses(q, Mine(q))
  BY <1>1 DEF Placed, Mine, Uses, UsePhases, RunPhases
<1>3. QED
  BY <1>1, <1>2 DEF CommandLands

\* The record of the faults keeps its type, and forgets nobody.
LEMMA FaultsTypedStep ==
  ASSUME Typed, Placed, Step
  PROVE  /\ FaultsTyped'
         /\ faults.unremoved \subseteq faults'.unremoved /\ faults.trespassed \subseteq faults'.trespassed
<1> DEFINE Kept == /\ FaultsTyped' /\ faults.unremoved \subseteq faults'.unremoved
                   /\ faults.trespassed \subseteq faults'.trespassed
<1>0. FaultsTyped
  BY DEF Typed
<1>1. ASSUME UNCHANGED faults PROVE Kept
  BY <1>0, <1>1 DEF FaultsTyped
<1>2. ASSUME NEW kind, Fault(kind), faults' = Counted PROVE Kept
  BY <1>0, <1>2, FaultCounted DEF FaultsTyped
<1>3. ASSUME SweepFails PROVE Kept
  <2>1. Fault("database") /\ faults' = [Counted EXCEPT !.database = TRUE]
    BY <1>3 DEF SweepFails
  <2>2. /\ Counted \in FaultsRecord /\ Counted.unremoved = faults.unremoved
        /\ Counted.trespassed = faults.trespassed
    BY <1>0, <2>1, FaultCounted
  <2>3. QED
    BY <2>1, <2>2 DEF FaultsTyped, FaultsRecord
<1>4. ASSUME NEW q \in Requests, Release(q) PROVE Kept
  <2>1. PICK d \in Conversations : d = Mine(q) /\ RemoveWorkspace(d)
    BY <1>4 DEF Release, Go, Placed, Mine, DeletePhases
  <2>2. QED
    BY <1>0, <2>1, RemovalEnds
<1>5. ASSUME NEW d \in Conversations, SweepRemove(d) PROVE Kept
  BY <1>0, <1>5, RemovalEnds DEF SweepRemove
<1>6. ASSUME NEW q \in Requests, CommandLands(q) PROVE Kept
  <2>1. PICK d \in Conversations : d = Mine(q)
    BY <1>6, CommandOf
  <2>2. faults' = faults \/ CommandWrites(d) \/ CommandTrespasses(d)
    BY <1>6, <2>1, CommandOf
  <2>3. CASE CommandWrites(d) \/ CommandTrespasses(d)
    BY ONLY <1>0, <2>3, d \in Conversations, CommandEnds
  <2>4. QED
    BY <1>1, <2>2, <2>3
<1>7. PodDown \/ PodRebuilt \/ Restart => Kept
  BY <1>2 DEF PodDown, PodRebuilt, Restart
<1> HIDE DEF Kept
<1>8. Kept
  BY <1>1, <1>3, <1>4, <1>5, <1>6, <1>7
     DEF Step, Serve, Sweep, Create, Delete, ReleaseFails, DropConversation, Ask,
         InsertActivity, KeepActivity, IssueCommand, ReadForPublishing,
         StoreArtifact, EndRun, Disconnect, ListExpired, SweepForget, SweepSleeps,
         SweepSkip, Tick, PodBack, rows
<1>9. QED
  BY <1>8 DEF Kept

\* A request that works has a conversation, and a removal is of the list.
LEMMA PlacedStep ==
  ASSUME Typed, Placed, Step
  PROVE  Placed'
<1> USE NoneAssumption, RetentionAssumption
     DEF Typed, RowsTyped, RequestsTyped, SweepTyped, RequestRecord, SweepRecord, Placed,
         RunPhases, DeletePhases
<1>1. ASSUME UNCHANGED <<request, sweep>> PROVE Placed'
  BY <1>1
<1>2. ASSUME NEW q \in Requests, NEW d \in Conversations, Delete(q, d) PROVE Placed'
  BY <1>2 DEF Delete, Take, Free
<1>3. ASSUME NEW q \in Requests, Release(q) PROVE Placed'
  BY <1>3 DEF Release, Go
<1>4. ASSUME NEW q \in Requests, ReleaseFails(q) PROVE Placed'
  BY <1>4 DEF ReleaseFails, Go
<1>5. ASSUME NEW q \in Requests, DropConversation(q) PROVE Placed'
  BY <1>5 DEF DropConversation, Leave, Finished
<1>6. ASSUME NEW q \in Requests, NEW d \in Conversations, Ask(q, d) PROVE Placed'
  BY <1>6 DEF Ask, Take, Free
<1>7. ASSUME NEW q \in Requests, InsertActivity(q) PROVE Placed'
  BY <1>7 DEF InsertActivity, Go, Leave, Finished, Mine
<1>8. ASSUME NEW q \in Requests, KeepActivity(q) PROVE Placed'
  BY <1>8 DEF KeepActivity, Go
<1>9. ASSUME NEW q \in Requests, IssueCommand(q) PROVE Placed'
  BY <1>9 DEF IssueCommand, Go
<1>10. ASSUME NEW q \in Requests, CommandLands(q) PROVE Placed'
  BY <1>10 DEF CommandLands, Go, Leave, Finished
<1>11. ASSUME NEW q \in Requests, NEW path \in LogicalPaths, ReadForPublishing(q, path)
       PROVE  Placed'
  BY <1>11 DEF ReadForPublishing
<1>12. ASSUME NEW q \in Requests, NEW a \in Artifacts, StoreArtifact(q, a) PROVE Placed'
  BY <1>12 DEF StoreArtifact
<1>13. ASSUME NEW q \in Requests, EndRun(q) PROVE Placed'
  BY <1>13 DEF EndRun, Leave, Finished
<1>14. ASSUME NEW q \in Requests, Disconnect(q) PROVE Placed'
  BY <1>14 DEF Disconnect, Go, Leave, Finished
<1>15. ASSUME ListExpired PROVE Placed'
  BY <1>15 DEF ListExpired, Expired
<1>16. ASSUME SweepForget PROVE Placed'
  BY <1>16 DEF SweepForget
<1>17. ASSUME SweepSleeps PROVE Placed'
  BY <1>17 DEF SweepSleeps, Asleep
<1>18. ASSUME NEW d \in Conversations, SweepRemove(d) PROVE Placed'
  BY <1>18 DEF SweepRemove
<1>19. ASSUME NEW d \in Conversations, SweepSkip(d) PROVE Placed'
  BY <1>19 DEF SweepSkip
<1>20. ASSUME SweepFails PROVE Placed'
  BY <1>20 DEF SweepFails
<1>21. ASSUME Restart PROVE Placed'
  BY <1>21 DEF Restart, Unused, Finished, Asleep
<1>22. QED
  BY <1>1, <1>2, <1>3, <1>4, <1>5, <1>6, <1>7, <1>8, <1>9, <1>10, <1>11, <1>12, <1>13, <1>14,
     <1>15, <1>16, <1>17, <1>18, <1>19, <1>20, <1>21
     DEF Step, Serve, Sweep, Create, Tick, PodDown, PodBack, PodRebuilt, rows

\* A directory appears by a command of a request that uses it, or by one that strayed there.
LEMMA DirectoryAppears ==
  ASSUME Typed, Placed, Step, NEW c \in Conversations,
         HasDirectory(c)', ~HasDirectory(c)
  PROVE  activity' = activity /\ ((\E r \in Requests : Uses(r, c)) \/ c \in faults'.trespassed)
<1> DEFINE Used == activity' = activity /\ ((\E r \in Requests : Uses(r, c)) \/ c \in faults'.trespassed)
<1>1. PICK p \in pod' \ pod : IsPrefix(Workspace(c), p)
  BY DEF HasDirectory, Contents
<1>2. ASSUME NEW q \in Requests, CommandLands(q) PROVE Used
  <2>1. PICK e \in Conversations : /\ e = Mine(q) /\ Uses(q, e) /\ activity' = activity
                                   /\ CommandWrites(e) \/ CommandTrespasses(e)
    BY <1>1, <1>2, CommandOf
  <2>2. \/ \E x \in {"work", "output"} : p = Workspace(e) \o <<x>>
        \/ \E path \in LogicalPaths : p = PhysicalPath(e, path)
        \/ e = c \/ c \in faults'.trespassed
    BY <1>1, <2>1, CommandEnds DEF Typed
  <2>3. CASE \E x \in {"work", "output"} : p = Workspace(e) \o <<x>>
    <3>1. PICK x \in {"work", "output"} : p = Workspace(e) \o <<x>>
      BY <2>3
    <3>2. <<x>> \in Seq(Segments)
      BY DEF Segments
    <3>3. IsPrefix(Workspace(c), Workspace(e) \o <<x>>)
      BY <1>1, <3>1
    <3>4. e = c
      BY ONLY <2>1, <3>2, <3>3, BelowWorkspace, c \in Conversations
    <3>5. QED
      BY <2>1, <3>4
  <2>4. CASE \E path \in LogicalPaths : p = PhysicalPath(e, path)
    BY <1>1, <2>1, <2>4, PhysicalPathIsOwn
  <2>5. QED
    BY <2>1, <2>2, <2>3, <2>4
<1>3. ASSUME NEW d \in Conversations, RemoveWorkspace(d) PROVE FALSE
  BY <1>1, <1>3, RemovalEnds DEF Typed
<1>4. ASSUME NEW q \in Requests, Release(q) PROVE FALSE
  BY <1>3, <1>4 DEF Release, Go, Placed, Mine, DeletePhases
<1>5. ASSUME NEW d \in Conversations, SweepRemove(d) PROVE FALSE
  BY <1>3, <1>5 DEF SweepRemove
<1>6. ~(pod' \subseteq pod)
  BY <1>1
<1> HIDE DEF Used
<1>7. Used
  BY <1>2, <1>4, <1>5, <1>6
     DEF Step, Serve, Sweep, Create, Delete, ReleaseFails, DropConversation, Ask,
         InsertActivity, KeepActivity, IssueCommand, ReadForPublishing, StoreArtifact, EndRun,
         Disconnect, ListExpired, SweepForget, SweepSleeps, SweepSkip, SweepFails, Tick,
         PodDown, PodBack, PodRebuilt, Restart, rows
<1>8. QED
  BY <1>7 DEF Used

\* A row is deleted by the last step of a deletion or of a removal, which leave the pod alone.
LEMMA RowDisappears ==
  ASSUME Typed, Placed, Step, NEW c \in Conversations,
         activity[c] # None, activity'[c] = None
  PROVE  /\ pod' = pod
         /\ (\E r \in Requests : HasReleased(r, c)) \/ (HasRemoved(c) /\ c \in sweep.listed)
<1> USE NoneAssumption, RetentionAssumption
     DEF Typed, RowsTyped, RequestsTyped, SweepTyped, RequestRecord, SweepRecord, Placed, Ages,
         HasReleased, HasRemoved
<1>1. ASSUME UNCHANGED activity
      PROVE  pod' = pod /\ ((\E r \in Requests : HasReleased(r, c))
                             \/ (HasRemoved(c) /\ c \in sweep.listed))
  BY <1>1
<1>2. ASSUME NEW q \in Requests, DropConversation(q)
      PROVE  pod' = pod /\ ((\E r \in Requests : HasReleased(r, c))
                             \/ (HasRemoved(c) /\ c \in sweep.listed))
  BY <1>2 DEF DropConversation, Mine
<1>3. ASSUME NEW q \in Requests, InsertActivity(q)
      PROVE  pod' = pod /\ ((\E r \in Requests : HasReleased(r, c))
                             \/ (HasRemoved(c) /\ c \in sweep.listed))
  BY <1>3 DEF InsertActivity, Mine
<1>4. ASSUME SweepForget
      PROVE  pod' = pod /\ ((\E r \in Requests : HasReleased(r, c))
                             \/ (HasRemoved(c) /\ c \in sweep.listed))
  BY <1>4 DEF SweepForget
<1>5. ASSUME Tick
      PROVE  pod' = pod /\ ((\E r \in Requests : HasReleased(r, c))
                             \/ (HasRemoved(c) /\ c \in sweep.listed))
  <2>1. activity'[c] = IF activity[c] = None THEN None
                       ELSE IF activity[c] > Retention THEN activity[c] ELSE activity[c] + 1
    BY <1>5 DEF Tick
  <2>2. activity'[c] \in Ages
    BY <2>1
  <2>3. QED
    BY <2>2
<1>6. QED
  BY <1>1, <1>2, <1>3, <1>4, <1>5
     DEF Step, Serve, Sweep, Create, Delete, Release, ReleaseFails, Ask, KeepActivity,
         IssueCommand, CommandLands, ReadForPublishing, StoreArtifact, EndRun, Disconnect,
         ListExpired, SweepSleeps, SweepRemove, SweepSkip, SweepFails, PodDown, PodBack,
         PodRebuilt, Restart, rows

\* A request passes touch only with a row.
LEMMA UseBegins ==
  ASSUME Typed, Placed, Step, NEW c \in Conversations, NEW r \in Requests,
         Uses(r, c)', activity'[c] = None
  PROVE  Uses(r, c)
<1> USE NoneAssumption, RetentionAssumption
     DEF Typed, RowsTyped, RequestsTyped, SweepTyped, RequestRecord, SweepRecord, Placed, Uses,
         UsePhases, RunPhases, DeletePhases
<1>1. ASSUME UNCHANGED <<activity, request>> PROVE Uses(r, c)
  BY <1>1
<1>2. ASSUME NEW q \in Requests, NEW d \in Conversations, Delete(q, d) PROVE Uses(r, c)
  BY <1>2 DEF Delete, Take, Free, rows
<1>3. ASSUME NEW q \in Requests, Release(q) PROVE Uses(r, c)
  BY <1>3 DEF Release, Go, rows
<1>4. ASSUME NEW q \in Requests, ReleaseFails(q) PROVE Uses(r, c)
  BY <1>4 DEF ReleaseFails, Go, rows
<1>5. ASSUME NEW q \in Requests, DropConversation(q) PROVE Uses(r, c)
  BY <1>5 DEF DropConversation, Leave, Finished, Mine
<1>6. ASSUME NEW q \in Requests, NEW d \in Conversations, Ask(q, d) PROVE Uses(r, c)
  BY <1>6 DEF Ask, Take, Free, rows
<1>7. ASSUME NEW q \in Requests, InsertActivity(q) PROVE Uses(r, c)
  <2> DEFINE d == Mine(q)
  <2>1. CASE activity[d] = None /\ conversation[d] = "live"
    <3>1. d \in Conversations /\ activity'[d] = 0 /\ request' = [request EXCEPT ![q].at = "running"]
      BY <1>7, <2>1 DEF InsertActivity, Go, Mine
    <3>2. r = q => d = c
      BY <3>1 DEF Mine
    <3>3. QED
      BY <3>1, <3>2
  <2>2. CASE ~(activity[d] = None /\ conversation[d] = "live")
    BY <1>7, <2>2 DEF InsertActivity, Leave, Finished
  <2>3. QED
    BY <2>1, <2>2
<1>8. ASSUME NEW q \in Requests, KeepActivity(q) PROVE Uses(r, c)
  BY <1>8 DEF KeepActivity, Go, rows
<1>9. ASSUME NEW q \in Requests, IssueCommand(q) PROVE Uses(r, c)
  BY <1>9 DEF IssueCommand, Go, rows
<1>10. ASSUME NEW q \in Requests, CommandLands(q) PROVE Uses(r, c)
  BY <1>10 DEF CommandLands, Go, Leave, Finished, rows
<1>11. ASSUME NEW q \in Requests, NEW path \in LogicalPaths, ReadForPublishing(q, path)
       PROVE  Uses(r, c)
  BY <1>11 DEF ReadForPublishing, rows
<1>12. ASSUME NEW q \in Requests, NEW a \in Artifacts, StoreArtifact(q, a) PROVE Uses(r, c)
  BY <1>12 DEF StoreArtifact, rows
<1>13. ASSUME NEW q \in Requests, EndRun(q) PROVE Uses(r, c)
  BY <1>13 DEF EndRun, Leave, Finished, rows
<1>14. ASSUME NEW q \in Requests, Disconnect(q) PROVE Uses(r, c)
  BY <1>14 DEF Disconnect, Go, Leave, Finished, rows
<1>15. ASSUME SweepForget PROVE Uses(r, c)
  BY <1>15 DEF SweepForget
<1>16. ASSUME Tick PROVE Uses(r, c)
  BY <1>16 DEF Tick
<1>17. ASSUME Restart PROVE Uses(r, c)
  BY <1>17 DEF Restart, Unused, Finished, rows
<1>18. QED
  BY <1>1, <1>2, <1>3, <1>4, <1>5, <1>6, <1>7, <1>8, <1>9, <1>10, <1>11, <1>12, <1>13, <1>14,
     <1>15, <1>16, <1>17
     DEF Step, Serve, Sweep, Create, ListExpired, SweepSleeps, SweepRemove, SweepSkip,
         SweepFails, PodDown, PodBack, PodRebuilt, rows

\* The cleanup's removal leaves no directory, unless rm failed.
LEMMA RemovedStays ==
  ASSUME Typed, Placed, Step, NEW c \in Conversations,
         HasRemoved(c)', HasDirectory(c)'
  PROVE  HasRemoved(c) \/ c \in faults'.unremoved
<1> USE NoneAssumption, RetentionAssumption
     DEF Typed, RowsTyped, RequestsTyped, SweepTyped, RequestRecord, SweepRecord, Placed,
         HasRemoved
<1>1. ASSUME UNCHANGED sweep PROVE HasRemoved(c) \/ c \in faults'.unremoved
  BY <1>1
<1>2. ASSUME NEW q \in Requests, Release(q) PROVE HasRemoved(c) \/ c \in faults'.unremoved
  BY <1>2 DEF Release
<1>3. ASSUME NEW q \in Requests, CommandLands(q) PROVE HasRemoved(c) \/ c \in faults'.unremoved
  BY <1>3 DEF CommandLands
<1>4. ASSUME ListExpired PROVE HasRemoved(c) \/ c \in faults'.unremoved
  BY <1>4 DEF ListExpired, Expired
<1>5. ASSUME SweepForget PROVE HasRemoved(c) \/ c \in faults'.unremoved
  BY <1>5 DEF SweepForget
<1>6. ASSUME SweepSleeps PROVE HasRemoved(c) \/ c \in faults'.unremoved
  BY <1>6 DEF SweepSleeps, Asleep
<1>7. ASSUME NEW d \in Conversations, SweepRemove(d) PROVE HasRemoved(c) \/ c \in faults'.unremoved
  <2>1. sweep'.now = d /\ (HasDirectory(d)' => d \in faults'.unremoved)
    BY <1>7, RemovalEnds DEF SweepRemove
  <2>2. d = c
    BY <2>1
  <2>3. QED
    BY <2>1, <2>2
<1>8. ASSUME NEW d \in Conversations, SweepSkip(d) PROVE HasRemoved(c) \/ c \in faults'.unremoved
  BY <1>8 DEF SweepSkip
<1>9. ASSUME SweepFails PROVE HasRemoved(c) \/ c \in faults'.unremoved
  BY <1>9 DEF SweepFails
<1>10. ASSUME PodRebuilt PROVE HasRemoved(c) \/ c \in faults'.unremoved
  BY <1>10 DEF PodRebuilt
<1>11. ASSUME Restart PROVE HasRemoved(c) \/ c \in faults'.unremoved
  BY <1>11 DEF Restart, Asleep
<1>12. QED
  BY <1>1, <1>2, <1>3, <1>4, <1>5, <1>6, <1>7, <1>8, <1>9, <1>10, <1>11
     DEF Step, Serve, Sweep, Create, Delete, ReleaseFails, DropConversation, Ask,
         InsertActivity, KeepActivity, IssueCommand, ReadForPublishing, StoreArtifact, EndRun,
         Disconnect, Tick, PodDown, PodBack, rows

\* A release leaves no directory, unless rm failed or it could not be reached.
LEMMA ReleasedStays ==
  ASSUME Typed, Placed, Step, NEW c \in Conversations, NEW r \in Requests,
         HasReleased(r, c)', HasDirectory(c)'
  PROVE  HasReleased(r, c) \/ (Deleting(c) /\ ~Reachable(c)) \/ c \in faults'.unremoved
<1> DEFINE Excuse == \/ HasReleased(r, c) \/ c \in faults'.unremoved
                     \/ Deleting(c) /\ ~Reachable(c)
<1> USE NoneAssumption, RetentionAssumption
     DEF Typed, RowsTyped, RequestsTyped, SweepTyped, RequestRecord, SweepRecord, Placed,
         HasReleased, Deleting, RunPhases, DeletePhases
<1>1. ASSUME UNCHANGED request PROVE Excuse
  BY <1>1
<1>2. ASSUME NEW q \in Requests, NEW d \in Conversations, Delete(q, d)
      PROVE  Excuse
  BY <1>2 DEF Delete, Take, Free
<1>3. ASSUME NEW q \in Requests, Release(q) PROVE Excuse
  <2>1. CASE r = q
    <3>1. RemoveWorkspace(c)
      BY <1>3, <2>1 DEF Release, Go, Mine
    <3>2. QED
      BY <3>1, RemovalEnds
  <2>2. CASE r # q
    BY <1>3, <2>2 DEF Release, Go
  <2>3. QED
    BY <2>1, <2>2
<1>4. ASSUME NEW q \in Requests, ReleaseFails(q)
      PROVE  Excuse
  BY <1>4 DEF ReleaseFails, Go, Mine
<1>5. ASSUME NEW q \in Requests, DropConversation(q)
      PROVE  Excuse
  BY <1>5 DEF DropConversation, Leave, Finished
<1>6. ASSUME NEW q \in Requests, NEW d \in Conversations, Ask(q, d)
      PROVE  Excuse
  BY <1>6 DEF Ask, Take, Free
<1>7. ASSUME NEW q \in Requests, InsertActivity(q)
      PROVE  Excuse
  BY <1>7 DEF InsertActivity, Go, Leave, Finished, Mine
<1>8. ASSUME NEW q \in Requests, KeepActivity(q)
      PROVE  Excuse
  BY <1>8 DEF KeepActivity, Go
<1>9. ASSUME NEW q \in Requests, IssueCommand(q)
      PROVE  Excuse
  BY <1>9 DEF IssueCommand, Go
<1>10. ASSUME NEW q \in Requests, CommandLands(q)
       PROVE  Excuse
  BY <1>10 DEF CommandLands, Go, Leave, Finished, Mine
<1>11. ASSUME NEW q \in Requests, NEW path \in LogicalPaths, ReadForPublishing(q, path)
       PROVE  Excuse
  BY <1>11 DEF ReadForPublishing
<1>12. ASSUME NEW q \in Requests, NEW a \in Artifacts, StoreArtifact(q, a)
       PROVE  Excuse
  BY <1>12 DEF StoreArtifact
<1>13. ASSUME NEW q \in Requests, EndRun(q) PROVE Excuse
  BY <1>13 DEF EndRun, Leave, Finished
<1>14. ASSUME NEW q \in Requests, Disconnect(q) PROVE Excuse
  BY <1>14 DEF Disconnect, Go, Leave, Finished
<1>15. ASSUME NEW d \in Conversations, SweepRemove(d)
       PROVE  Excuse
  BY <1>15 DEF SweepRemove
<1>16. ASSUME PodRebuilt PROVE Excuse
  BY <1>16 DEF PodRebuilt
<1>17. ASSUME Restart PROVE Excuse
  BY <1>17 DEF Restart, Unused, Finished
<1>18. QED
  BY <1>1, <1>2, <1>3, <1>4, <1>5, <1>6, <1>7, <1>8, <1>9, <1>10, <1>11, <1>12, <1>13, <1>14,
     <1>15, <1>16, <1>17
     DEF Step, Serve, Sweep, Create, ListExpired, SweepForget, SweepSleeps, SweepSkip,
         SweepFails, Tick, PodDown, PodBack, rows

\* What the cleanup has listed does not become active again.
LEMMA ListedStep ==
  ASSUME Typed, Placed, ListedHasExpired, Step
  PROVE  ListedHasExpired'
<1> USE NoneAssumption, RetentionAssumption
     DEF Typed, RowsTyped, RequestsTyped, SweepTyped, RequestRecord, SweepRecord, Placed,
         ListedHasExpired, Ages
<1>1. ASSUME UNCHANGED <<conversation, activity, sweep>> PROVE ListedHasExpired'
  BY <1>1
<1>2. ASSUME NEW d \in Conversations, Create(d) PROVE ListedHasExpired'
  BY <1>2 DEF Create
<1>3. ASSUME NEW q \in Requests, DropConversation(q) PROVE ListedHasExpired'
  BY <1>3 DEF DropConversation, Mine
<1>4. ASSUME NEW q \in Requests, InsertActivity(q) PROVE ListedHasExpired'
  BY <1>4 DEF InsertActivity, Mine
<1>5. ASSUME ListExpired PROVE ListedHasExpired'
  BY <1>5 DEF ListExpired, Expired, rows
<1>6. ASSUME SweepForget PROVE ListedHasExpired'
  BY <1>6 DEF SweepForget
<1>7. ASSUME SweepSleeps PROVE ListedHasExpired'
  BY <1>7 DEF SweepSleeps, Asleep, rows
<1>8. ASSUME NEW d \in Conversations, SweepRemove(d) PROVE ListedHasExpired'
  BY <1>8 DEF SweepRemove, rows
<1>9. ASSUME NEW d \in Conversations, SweepSkip(d) PROVE ListedHasExpired'
  BY <1>9 DEF SweepSkip, rows
<1>10. ASSUME SweepFails PROVE ListedHasExpired'
  <2>0. \/ sweep' = [sweep EXCEPT !.at = "dead"]
        \/ sweep' = [at |-> "dead", listed |-> {}, now |-> None]
        \/ sweep' = [at |-> "sweeping", listed |-> sweep.listed \ {sweep.now}, now |-> None]
    BY ONLY <1>10 DEF SweepFails
  <2>1. sweep'.listed \subseteq sweep.listed
    <3>1. sweep = [at |-> sweep.at, listed |-> sweep.listed, now |-> sweep.now]
      OBVIOUS
    <3>2. sweep'.listed \in {sweep.listed, {}, sweep.listed \ {sweep.now}}
      BY ONLY <2>0, <3>1
    <3>3. QED
      BY ONLY <3>2
  <2>2. activity' = activity /\ conversation' = conversation
    BY <1>10 DEF SweepFails, rows
  <2>3. QED
    BY <2>1, <2>2
<1>11. ASSUME Tick PROVE ListedHasExpired'
  BY <1>11 DEF Tick
<1>12. ASSUME Restart PROVE ListedHasExpired'
  BY <1>12 DEF Restart, Asleep, rows
<1>13. QED
  BY <1>1, <1>2, <1>3, <1>4, <1>5, <1>6, <1>7, <1>8, <1>9, <1>10, <1>11, <1>12
     DEF Step, Serve, Sweep, Delete, Release, ReleaseFails, Ask, KeepActivity, IssueCommand,
         CommandLands, ReadForPublishing, StoreArtifact, EndRun, Disconnect, PodDown, PodBack,
         PodRebuilt, rows

\* A step that is no fault adds to the pod or removes one directory.
LEMMA PodShrinks ==
  ASSUME Typed, Placed, Step, faults' = faults
  PROVE  pod \subseteq pod' \/ \E c \in Conversations : pod' = pod \ Contents(c)
<1> USE NoneAssumption, RetentionAssumption DEF Typed, Placed, DeletePhases
<1>1. ASSUME UNCHANGED pod
      PROVE  pod \subseteq pod' \/ \E c \in Conversations : pod' = pod \ Contents(c)
  BY <1>1
<1>2. ASSUME NEW q \in Requests, Release(q)
      PROVE  pod \subseteq pod' \/ \E c \in Conversations : pod' = pod \ Contents(c)
  <2>1. Mine(q) \in Conversations /\ pod' = pod \ Contents(Mine(q))
    <3>1. PICK d \in Conversations : d = Mine(q) /\ RemoveWorkspace(d)
      BY <1>2 DEF Release, Go, Mine
    <3>2. QED
      BY <3>1, RemovalEnds
  <2>2. QED
    BY <2>1
<1>3. ASSUME NEW q \in Requests, CommandLands(q)
      PROVE  pod \subseteq pod' \/ \E c \in Conversations : pod' = pod \ Contents(c)
  <2> HIDE DEF Typed, Placed
  <2>1. PICK e \in Conversations : e = Mine(q)
    BY <1>3, CommandOf
  <2>2. pod' = pod \/ CommandWrites(e) \/ CommandTrespasses(e)
    BY <1>3, <2>1, CommandOf
  <2>3. FaultsTyped
    BY DEF Typed
  <2>4. CASE CommandWrites(e) \/ CommandTrespasses(e)
    <3>1. faults' = faults => pod \subseteq pod'
      BY ONLY <2>3, <2>4, e \in Conversations, CommandEnds
    <3>2. QED
      BY <3>1
  <2>5. QED
    BY <2>2, <2>4
<1>4. ASSUME NEW d \in Conversations, SweepRemove(d)
      PROVE  pod \subseteq pod' \/ \E c \in Conversations : pod' = pod \ Contents(c)
  BY <1>4, RemovalEnds DEF SweepRemove
<1>5. ASSUME PodRebuilt
      PROVE  pod \subseteq pod' \/ \E c \in Conversations : pod' = pod \ Contents(c)
  <2>1. Fault("rebuild") /\ faults' = Counted
    BY <1>5 DEF PodRebuilt
  <2>2. Counted.total = faults.total + 1 /\ faults.total \in Nat
    BY <2>1, FaultCounted
  <2>3. QED
    BY <2>1, <2>2
<1>6. QED
  BY <1>1, <1>2, <1>3, <1>4, <1>5
     DEF Step, Serve, Sweep, Create, Delete, ReleaseFails, DropConversation, Ask,
         InsertActivity, KeepActivity, IssueCommand, ReadForPublishing, StoreArtifact, EndRun,
         Disconnect, ListExpired, SweepForget, SweepSleeps, SweepSkip, SweepFails, Tick,
         PodDown, PodBack, Restart, rows

-----------------------------------------------------------------------------
\* What normalize_output_path accepted lies below the output directory.
LEMMA PathsAreOutput ==
  ASSUME NEW p \in Paths, p # Refused
  PROVE  p \in OutputPaths
<1>1. PICK path \in LogicalPaths : p = NormalizeOutput(path)
  BY DEF Paths
<1>2. path \in Seq(Segments)
  <2>1. STRING \subseteq Segments
    BY DEF Segments
  <2>2. path \in Seq(STRING)
    BY PathsAssumption
  <2>3. QED
    BY ONLY <2>1, <2>2, SeqMonotonic
<1>3. QED
  BY <1>1, <1>2, OutputIsBelow

\* Every path a step adds to the pod lies below a directory, among the skills
\* or where a shell command strayed.
LEMMA PodTypedStep ==
  ASSUME Typed, Placed, PodTyped, Step, Remember
  PROVE  PodTyped'
<1> DEFINE Known(p) == \/ \E c \in Conversations : IsStrictPrefix(Workspace(c), p)
                       \/ IsPrefix(SkillPackages, p)
                       \/ p \in ShellPaths
<1>1. ASSUME pod' \subseteq pod PROVE \A p \in pod' : Known(p)
  BY <1>1 DEF PodTyped
<1>2. ASSUME NEW q \in Requests, CommandLands(q) PROVE \A p \in pod' : Known(p)
  <2> SUFFICES ASSUME NEW p \in pod', p \notin pod PROVE Known(p)
    BY DEF PodTyped
  <2>1. PICK e \in Conversations : CommandWrites(e) \/ CommandTrespasses(e)
    BY <1>2, CommandOf
  <2>2. \/ \E x \in {"work", "output"} : p = Workspace(e) \o <<x>>
        \/ \E path \in LogicalPaths : p = PhysicalPath(e, path) /\ p # Refused
        \/ p \in ShellPaths
    BY <2>1, CommandEnds DEF Typed
  <2>3. CASE \E x \in {"work", "output"} : p = Workspace(e) \o <<x>>
    <3>1. PICK x \in {"work", "output"} : p = Workspace(e) \o <<x>>
      BY <2>3
    <3>2. <<x>> \in Seq(Segments) /\ <<x>> # <<>>
      BY DEF Segments
    <3>3. Workspace(e) \in Seq(Segments)
      BY <2>1, WorkspaceSegments
    <3>4. IsStrictPrefix(Workspace(e), Workspace(e) \o <<x>>)
      BY ONLY <3>2, <3>3, PrefixOfConcat
    <3>5. QED
      BY <2>1, <3>1, <3>4
  <2>4. CASE \E path \in LogicalPaths : p = PhysicalPath(e, path) /\ p # Refused
    <3>1. \/ \E t \in Seq(Segments) : t # <<>> /\ p = Workspace(e) \o t
          \/ \E t \in Seq(Segments) : p = SkillPackages \o t
      BY <2>1, <2>4, PhysicalPathPlace
    <3>2. Workspace(e) \in Seq(Segments) /\ SkillPackages \in Seq(Segments)
      <4>1. <<"workspace">> \in Seq(Segments) /\ <<"skill-packages">> \in Seq(Segments)
        BY DEF Segments
      <4>2. QED
        BY <2>1, <4>1, WorkspaceSegments, ConcatProperties DEF SkillPackages, SandboxBase
    <3>3. CASE \E t \in Seq(Segments) : t # <<>> /\ p = Workspace(e) \o t
      <4>1. PICK t \in Seq(Segments) : t # <<>> /\ p = Workspace(e) \o t
        BY <3>3
      <4>2. IsStrictPrefix(Workspace(e), Workspace(e) \o t)
        BY <3>2, <4>1, PrefixOfConcat
      <4>3. QED
        BY <2>1, <4>1, <4>2
    <3>4. CASE \E t \in Seq(Segments) : p = SkillPackages \o t
      <4>1. PICK t \in Seq(Segments) : p = SkillPackages \o t
        BY <3>4
      <4>2. IsPrefix(SkillPackages, SkillPackages \o t)
        BY <3>2, PrefixOfConcat
      <4>3. QED
        BY <4>1, <4>2
    <3>5. QED
      BY <3>1, <3>3, <3>4
  <2>5. QED
    BY <2>2, <2>3, <2>4
<1>3. \A p \in pod' : Known(p)
  <2>0. ASSUME NEW d \in Conversations, RemoveWorkspace(d) PROVE pod' \subseteq pod
    BY <2>0, RemovalEnds DEF Typed
  <2>1. pod' \subseteq pod \/ \E q \in Requests : CommandLands(q)
    <3>1. ASSUME NEW q \in Requests, Release(q) PROVE pod' \subseteq pod
      BY <2>0, <3>1 DEF Release, Go, Placed, Mine, DeletePhases
    <3>2. ASSUME NEW d \in Conversations, SweepRemove(d) PROVE pod' \subseteq pod
      BY <2>0, <3>2 DEF SweepRemove
    <3>3. QED
      BY <3>1, <3>2 DEF Step, Serve, Sweep, Create, Delete, ReleaseFails, DropConversation, Ask,
           InsertActivity, KeepActivity, IssueCommand, ReadForPublishing, StoreArtifact, EndRun,
           Disconnect, ListExpired, SweepForget, SweepSleeps, SweepSkip, SweepFails,
           Tick, PodDown, PodBack, PodRebuilt, Restart, rows
  <2>2. QED
    BY <1>1, <1>2, <2>1
<1>4. podUp' \in BOOLEAN
  BY DEF PodTyped, Step, Serve, Sweep, Create, Delete, Release, ReleaseFails, DropConversation,
         Ask, InsertActivity, KeepActivity, IssueCommand, CommandLands, ReadForPublishing,
         StoreArtifact, EndRun, Disconnect, ListExpired, SweepForget, SweepSleeps, SweepRemove,
         SweepSkip, SweepFails, Tick, PodDown, PodBack, PodRebuilt, Restart, rows
<1>5. overtaken' \subseteq Conversations /\ refused' \subseteq Unplaceable
  BY DEF PodTyped, Remember
<1>6. QED
  BY <1>3, <1>4, <1>5 DEF PodTyped

\* Who touches the artifacts: nobody, the end of a deletion, the store, the clock.
LEMMA ArtifactsChange ==
  ASSUME Step
  PROVE  \/ artifact' = artifact
         \/ \E q \in Requests : DropConversation(q)
         \/ \E q \in Requests, a \in Artifacts : StoreArtifact(q, a)
         \/ Tick
BY DEF Step, Serve, Sweep, Create, Delete, Release, ReleaseFails, Ask, InsertActivity,
       KeepActivity, IssueCommand, CommandLands, ReadForPublishing, EndRun, Disconnect,
       ListExpired, SweepForget, SweepSleeps, SweepRemove, SweepSkip, SweepFails, PodDown,
       PodBack, PodRebuilt, Restart, rows

\* The artifacts keep their type.
LEMMA ArtifactsTypedStep ==
  ASSUME Typed, Placed, ArtifactsTyped, Step
  PROVE  ArtifactsTyped'
<1>1. ASSUME artifact' = artifact PROVE ArtifactsTyped'
  BY <1>1 DEF ArtifactsTyped
<1>2. ASSUME NEW q \in Requests, DropConversation(q) PROVE ArtifactsTyped'
  <2>1. NoArtifact \in ArtifactRecord
    BY RetentionAssumption DEF NoArtifact, ArtifactRecord, Paths
  <2>2. QED
    BY <1>2, <2>1 DEF DropConversation, ArtifactsTyped
<1>3. ASSUME NEW q \in Requests, NEW a \in Artifacts, StoreArtifact(q, a) PROVE ArtifactsTyped'
  <2> DEFINE new == [of |-> Mine(q), path |-> request[q].path, left |-> Retention]
  <2>1. new \in ArtifactRecord
    BY RetentionAssumption DEF Typed, RequestsTyped, RequestRecord, ArtifactRecord, Mine
  <2>2. artifact' = [artifact EXCEPT ![a] = new]
    BY <1>3 DEF StoreArtifact
  <2> HIDE DEF new
  <2>3. QED
    BY <2>1, <2>2 DEF ArtifactsTyped
<1>4. ASSUME Tick PROVE ArtifactsTyped'
  <2> DEFINE Aged(a) == IF artifact[a].left = 0 THEN artifact[a]
                        ELSE [artifact[a] EXCEPT !.left = @ - 1]
  <2>1. ASSUME NEW a \in Artifacts PROVE Aged(a) \in ArtifactRecord
    <3>1. artifact[a] \in ArtifactRecord
      BY DEF ArtifactsTyped
    <3>2. artifact[a].left # 0 => artifact[a].left - 1 \in 0 .. Retention
      BY <3>1, RetentionAssumption DEF ArtifactRecord
    <3>3. QED
      BY <3>1, <3>2 DEF ArtifactRecord
  <2>2. artifact' = [a \in Artifacts |-> Aged(a)]
    BY <1>4 DEF Tick
  <2> HIDE DEF Aged
  <2>3. QED
    BY <2>1, <2>2 DEF ArtifactsTyped
<1>5. QED
  BY <1>1, <1>2, <1>3, <1>4, ArtifactsChange

\* A request is about to publish only what normalize_output_path accepted.
LEMMA PublishingStep ==
  ASSUME Typed, Placed, Published, Step, NEW r \in Requests, request'[r].at = "publishing"
  PROVE  request'[r].path # Refused
<1> USE DEF Typed, RequestsTyped, RequestRecord, Published
<1>1. CASE request'[r] = request[r]
  BY <1>1
<1>2. ASSUME NEW q \in Requests, NEW to \in AllPhases \ {"publishing"}, NEW from, Go(q, from, to)
      PROVE  request'[r] = request[r]
  BY <1>2 DEF Go
<1>3. ASSUME NEW q \in Requests, NEW c \in Conversations, NEW to \in AllPhases \ {"publishing"},
             Take(q, c, to)
      PROVE  request'[r] = request[r]
  BY <1>3 DEF Take
<1>4. ASSUME NEW q \in Requests, Leave(q) PROVE request'[r] = request[r]
  BY <1>4 DEF Leave, Finished
<1>5. ASSUME NEW q \in Requests, NEW path \in LogicalPaths, ReadForPublishing(q, path)
      PROVE  request'[r].path # Refused
  BY <1>5 DEF ReadForPublishing
<1>6. ASSUME NEW q \in Requests, NEW a \in Artifacts, StoreArtifact(q, a)
      PROVE  request'[r] = request[r]
  BY <1>6 DEF StoreArtifact
<1>7. ASSUME Restart PROVE FALSE
  BY <1>7 DEF Restart, Unused, Finished
<1> DEFINE Phase(to) == to \in AllPhases \ {"publishing"}
<1>8. /\ Phase("inserting") /\ Phase("updating") /\ Phase("running") /\ Phase("executing")
      /\ Phase("abandoned") /\ Phase("releasing") /\ Phase("released")
  BY DEF AllPhases, RunPhases, DeletePhases
<1>9. ASSUME NEW q \in Requests, Serve(q) PROVE request'[r].path # Refused
  <2> HIDE DEF Typed, RequestsTyped, RequestRecord, Published
  <2>1. \/ \E c \in Conversations, to \in AllPhases \ {"publishing"} : Take(q, c, to)
        \/ \E to \in AllPhases \ {"publishing"} : \E from : Go(q, from, to)
        \/ Leave(q)
        \/ \E path \in LogicalPaths : ReadForPublishing(q, path)
        \/ \E a \in Artifacts : StoreArtifact(q, a)
    BY <1>8, <1>9
       DEF Serve, Delete, Ask, Release, ReleaseFails, DropConversation, InsertActivity,
           KeepActivity, IssueCommand, CommandLands, EndRun, Disconnect
  <2>2. QED
    BY <1>1, <1>2, <1>3, <1>4, <1>5, <1>6, <2>1
<1>10. CASE UNCHANGED request
  BY <1>1, <1>10
<1>11. QED
  <2> HIDE DEF Typed, RequestsTyped, RequestRecord, Published
  <2>1. UNCHANGED request \/ Restart \/ \E q \in Requests : Serve(q)
    BY DEF Step, Sweep, Create, ListExpired, SweepForget, SweepSleeps, SweepRemove, SweepSkip,
           SweepFails, Tick, PodDown, PodBack, PodRebuilt, rows
  <2>2. QED
    BY <1>7, <1>9, <1>10, <2>1

\* What is listed was accepted, and its conversation is there.
LEMMA PublishedStep ==
  ASSUME Typed, Placed, ArtifactsTyped, Published, Step
  PROVE  Published'
<1> DEFINE Sound(a, as, cs) ==
             as[a].left > 0 => /\ as[a].path # Refused
                               /\ as[a].of \in Conversations /\ cs[as[a].of] = "live"
<1>1. ASSUME NEW a \in Artifacts PROVE Sound(a, artifact, conversation)
  BY DEF Published
<1>2. \A c \in Conversations : conversation[c] = "live" =>
          conversation'[c] = "live" \/ \E q \in Requests : DropConversation(q) /\ Mine(q) = c
  BY DEF Step, Serve, Sweep, Create, Delete, Release, ReleaseFails, Ask, DropConversation,
         InsertActivity, KeepActivity, IssueCommand, CommandLands, ReadForPublishing,
         StoreArtifact, EndRun, Disconnect, ListExpired, SweepForget, SweepSleeps, SweepRemove,
         SweepSkip, SweepFails, Tick, PodDown, PodBack, PodRebuilt, Restart, Typed, RowsTyped, rows
<1>3. ASSUME NEW a \in Artifacts PROVE Sound(a, artifact', conversation')
  <2>1. ASSUME NEW q \in Requests, DropConversation(q) PROVE Sound(a, artifact', conversation')
    <3>1. CASE artifact[a].of = Mine(q)
      <4>1. artifact'[a] = NoArtifact
        BY <2>1, <3>1 DEF DropConversation
      <4>2. QED
        BY <4>1 DEF NoArtifact
    <3>2. CASE artifact[a].of # Mine(q)
      <4>1. artifact'[a] = artifact[a]
        BY <2>1, <3>2 DEF DropConversation
      <4>2. \A c \in Conversations : c # Mine(q) => conversation'[c] = conversation[c]
        BY <2>1 DEF DropConversation, Typed, RowsTyped
      <4>3. QED
        BY <1>1, <3>2, <4>1, <4>2
    <3>3. QED
      BY <3>1, <3>2
  <2>2. ASSUME ~ \E q \in Requests : DropConversation(q),
               artifact'[a].left > 0 => /\ artifact[a].left > 0
                                        /\ artifact'[a].path = artifact[a].path
                                        /\ artifact'[a].of = artifact[a].of
        PROVE  Sound(a, artifact', conversation')
    BY <1>1, <1>2, <2>2
  <2>3. CASE artifact' = artifact
    BY <2>1, <2>2, <2>3
  <2>4. ASSUME NEW q \in Requests, NEW b \in Artifacts, StoreArtifact(q, b)
        PROVE  Sound(a, artifact', conversation')
    <3>1. CASE a = b
      <4>1. artifact'[a] = [of |-> Mine(q), path |-> request[q].path, left |-> Retention]
        BY <2>4, <3>1 DEF StoreArtifact, ArtifactsTyped
      <4>2. /\ request[q].path # Refused /\ Mine(q) \in Conversations
            /\ conversation'[Mine(q)] = "live"
        BY <2>4 DEF StoreArtifact, Published, Placed, Mine, RunPhases
      <4>3. QED
        BY <4>1, <4>2
    <3>2. CASE a # b
      <4>1. artifact'[a] = artifact[a] /\ conversation' = conversation
        BY <2>4, <3>2 DEF StoreArtifact, ArtifactsTyped
      <4>2. QED
        BY <1>1, <4>1
    <3>3. QED
      BY <3>1, <3>2
  <2>5. ASSUME Tick PROVE Sound(a, artifact', conversation')
    <3>1. artifact[a] \in ArtifactRecord
      BY DEF ArtifactsTyped
    <3>2. artifact'[a] = IF artifact[a].left = 0 THEN artifact[a]
                         ELSE [artifact[a] EXCEPT !.left = @ - 1]
      BY <2>5 DEF Tick
    <3>3. /\ artifact'[a].path = artifact[a].path /\ artifact'[a].of = artifact[a].of
          /\ artifact'[a].left > 0 => artifact[a].left > 0
      BY <3>1, <3>2, RetentionAssumption DEF ArtifactRecord
    <3>4. conversation' = conversation
      BY <2>5 DEF Tick
    <3>5. QED
      BY <1>1, <3>3, <3>4
  <2>6. QED
    BY <2>1, <2>3, <2>4, <2>5, ArtifactsChange
<1>4. QED
  BY <1>3, PublishingStep DEF Published

-----------------------------------------------------------------------------
\* Using, or having released, a directory is meeting whoever else works on it.
LEMMA Meetings ==
  ASSUME IInv, NEW c \in Conversations, NEW r \in Requests
  PROVE  /\ Uses(r, c) /\ c \in sweep.listed => c \in overtaken
         /\ \A q \in Requests : Uses(r, c) /\ HasReleased(q, c) => c \in overtaken
<1>1. Uses(r, c) => InUse(c)
  BY DEF Uses, UsePhases, InUse
<1>2. \A q \in Requests : HasReleased(q, c) => Deleting(c)
  BY DEF HasReleased, Deleting, DeletePhases
<1>3. Met(c) => c \in overtaken
  BY DEF IInv, MetIsRemembered
<1>4. QED
  BY <1>1, <1>2, <1>3 DEF Met, Sweeping

\* A step keeps what is said of the conversations that have no excuse.
LEMMA OvertakenStep ==
  ASSUME IInv, Step, Remember
  PROVE  UsedHasRow' /\ ReleasedIsGone' /\ RemovedIsGone' /\ OrphanOnlyWhenOvertaken'
<1>0. Typed /\ Placed
  BY DEF IInv
<1>1. overtaken \subseteq overtaken' /\ \A c \in Conversations : Excused(c) => Excused(c)'
  BY <1>0, FaultsTypedStep DEF Remember, Excused
<1>2. UsedHasRow'
  <2> SUFFICES ASSUME NEW c \in Conversations, NEW r \in Requests, Uses(r, c)', activity'[c] = None
               PROVE  c \in overtaken'
    BY DEF UsedHasRow
  <2>1. Uses(r, c)
    BY <1>0, UseBegins
  <2>2. CASE activity[c] = None
    BY <1>1, <2>1, <2>2 DEF IInv, UsedHasRow
  <2>3. CASE activity[c] # None
    BY <1>0, <1>1, <2>1, <2>3, RowDisappears, Meetings
  <2>4. QED
    BY <2>2, <2>3
<1>3. ReleasedIsGone'
  <2> SUFFICES ASSUME NEW c \in Conversations, NEW r \in Requests, HasReleased(r, c)', HasDirectory(c)'
               PROVE  Excused(c)'
    BY DEF ReleasedIsGone
  <2>0. CASE c \in faults'.unremoved
    BY <2>0 DEF Excused
  <2>1. CASE Deleting(c) /\ ~Reachable(c)
    BY <1>1, <2>1 DEF IInv, MetIsRemembered, Met, Excused
  <2>2. CASE HasReleased(r, c) /\ HasDirectory(c)
    BY <1>1, <2>2 DEF IInv, ReleasedIsGone
  <2>3. CASE HasReleased(r, c) /\ ~HasDirectory(c)
    BY <1>0, <1>1, <2>3, DirectoryAppears, Meetings DEF Excused
  <2>4. QED
    BY <1>0, <2>0, <2>1, <2>2, <2>3, ReleasedStays
<1>4. RemovedIsGone'
  <2> SUFFICES ASSUME NEW c \in Conversations, HasRemoved(c)', HasDirectory(c)'
               PROVE  Excused(c)'
    BY DEF RemovedIsGone
  <2>0. CASE c \in faults'.unremoved
    BY <2>0 DEF Excused
  <2>1. HasRemoved(c) => c \in sweep.listed
    BY <1>0 DEF Placed, HasRemoved
  <2>2. CASE HasRemoved(c) /\ HasDirectory(c)
    BY <1>1, <2>1, <2>2 DEF IInv, RemovedIsGone
  <2>3. CASE HasRemoved(c) /\ ~HasDirectory(c)
    BY <1>0, <1>1, <2>1, <2>3, DirectoryAppears, Meetings DEF Excused
  <2>4. QED
    BY <1>0, <2>0, <2>2, <2>3, RemovedStays
<1>5. OrphanOnlyWhenOvertaken'
  <2> SUFFICES ASSUME NEW c \in Conversations, HasDirectory(c)', activity'[c] = None
               PROVE  Excused(c)'
    BY DEF OrphanOnlyWhenOvertaken
  <2>1. CASE activity[c] = None /\ HasDirectory(c)
    BY <1>1, <2>1 DEF IInv, OrphanOnlyWhenOvertaken
  <2>2. CASE ~HasDirectory(c)
    <3>1. activity' = activity /\ ((\E r \in Requests : Uses(r, c)) \/ c \in faults'.trespassed)
      BY <1>0, <2>2, DirectoryAppears
    <3>2. QED
      BY <1>1, <3>1 DEF IInv, UsedHasRow, Excused
  <2>3. CASE activity[c] # None /\ HasDirectory(c)
    <3>1. (\E r \in Requests : HasReleased(r, c)) \/ HasRemoved(c)
      BY <1>0, <2>3, RowDisappears
    <3>2. QED
      BY <1>1, <2>3, <3>1 DEF IInv, ReleasedIsGone, RemovedIsGone
  <2>4. QED
    BY <2>1, <2>2, <2>3
<1>6. QED
  BY <1>2, <1>3, <1>4, <1>5

\* At first there is nothing.
LEMMA InitInvariant == Init => IInv
<1> SUFFICES ASSUME Init PROVE IInv
  OBVIOUS
<1>1. Typed
  <2>1. Unused \in RequestRecord
    BY DEF Unused, RequestRecord, AllPhases, Paths
  <2>2. Asleep \in SweepRecord
    BY DEF Asleep, SweepRecord
  <2>3. RowsTyped
    BY DEF Init, RowsTyped
  <2>4. FaultsTyped
    BY BoundsAssumption DEF Init, FaultsTyped, FaultsRecord
  <2>5. QED
    BY <2>1, <2>2, <2>3, <2>4 DEF Init, Typed, RequestsTyped, SweepTyped
<1>2. Placed /\ UsedHasRow /\ ReleasedIsGone
  BY DEF Init, Unused, Asleep, Placed, RunPhases, DeletePhases, UsedHasRow, Uses, UsePhases,
         ReleasedIsGone, HasReleased
<1>3. RemovedIsGone /\ OrphanOnlyWhenOvertaken /\ ListedHasExpired
  BY DEF Init, Asleep, RemovedIsGone, HasRemoved, OrphanOnlyWhenOvertaken, HasDirectory, Contents,
         ListedHasExpired
<1>4. MetIsRemembered
  BY DEF Init, Unused, MetIsRemembered, Met, InUse, Deleting, RunPhases, DeletePhases
<1>5. PodTyped /\ ArtifactsTyped /\ Published
  <2>1. NoArtifact \in ArtifactRecord /\ NoArtifact.left = 0
    BY RetentionAssumption DEF NoArtifact, ArtifactRecord, Paths
  <2>2. PodTyped
    BY DEF Init, PodTyped
  <2>3. ArtifactsTyped
    BY <2>1 DEF Init, ArtifactsTyped
  <2>4. Published
    BY <2>1 DEF Init, Published, Unused
  <2>5. QED
    BY <2>2, <2>3, <2>4
<1>6. QED
  BY <1>1, <1>2, <1>3, <1>4, <1>5 DEF IInv

\* The inductive invariant holds in every reachable state.
THEOREM Invariance == Spec => []IInv
<1>1. IInv /\ [Next]_vars => IInv'
  <2> SUFFICES ASSUME IInv, [Next]_vars PROVE IInv'
    OBVIOUS
  <2>1. CASE Next
    <3>1. Typed /\ Placed /\ ListedHasExpired /\ Step /\ Remember
      BY <2>1 DEF IInv, Next
    <3>2. Typed'
      BY <3>1, RowsTypedStep, RequestsTypedStep, SweepTypedStep, FaultsTypedStep DEF Typed
    <3>3. Placed'
      BY <3>1, PlacedStep
    <3>4. ListedHasExpired'
      BY <3>1, ListedStep
    <3>5. MetIsRemembered'
      BY <3>1 DEF Remember, MetIsRemembered
    <3>6. PodTyped' /\ ArtifactsTyped' /\ Published'
      BY <2>1, PodTypedStep, ArtifactsTypedStep, PublishedStep DEF IInv, Next
    <3>7. QED
      BY <3>1, <3>2, <3>3, <3>4, <3>5, <3>6, OvertakenStep DEF IInv
  <2>2. CASE UNCHANGED vars
    <3>1. Typed' /\ Placed' /\ ListedHasExpired'
      BY <2>2
           DEF vars, rows, IInv, Typed, RowsTyped, RequestsTyped, SweepTyped, FaultsTyped,
               Placed,
                  ListedHasExpired
    <3>2. MetIsRemembered' /\ UsedHasRow' /\ ReleasedIsGone' /\ RemovedIsGone' /\ OrphanOnlyWhenOvertaken'
      BY <2>2
           DEF vars, rows, IInv, MetIsRemembered, Met, InUse, Deleting, Sweeping, Reachable,
               Excused, UsedHasRow, Uses,
                  ReleasedIsGone, HasReleased, RemovedIsGone, HasRemoved, OrphanOnlyWhenOvertaken,
                  HasDirectory, Contents
    <3>3. PodTyped' /\ ArtifactsTyped' /\ Published'
      BY <2>2 DEF vars, rows, IInv, PodTyped, ArtifactsTyped, Published
    <3>4. QED
      BY <3>1, <3>2, <3>3 DEF IInv
  <2>3. QED
    BY <2>1, <2>2
<1>2. QED
  BY InitInvariant, <1>1, PTL DEF Spec

\* The state has its types in every reachable state; in particular every file of the pod lies
\* below the directory of a conversation or among the shared skills, whatever paths map_command
\* and the file API are given, except the paths that a shell command reaches by itself.
THEOREM TypeCorrect == Spec => []TypeOK
<1>1. IInv => TypeOK
  <2> SUFFICES ASSUME IInv PROVE TypeOK
    OBVIOUS
  <2>1. \A a \in Artifacts : artifact[a].of \in Conversations \cup {None}
                               /\ artifact[a].left \in 0 .. Retention
    BY DEF IInv, ArtifactsTyped, ArtifactRecord
  <2>2. \A r \in Requests : request[r].at \in {"idle", "done"} \cup RunPhases \cup DeletePhases
                              /\ request[r].of \in Conversations \cup {None}
    BY DEF IInv, Typed, RequestsTyped, RequestRecord, AllPhases
  <2>3. QED
    BY <2>1, <2>2 DEF IInv, Typed, RowsTyped, SweepTyped, FaultsTyped,
              FaultsRecord, SweepRecord, PodTyped, TypeOK
<1>2. QED
  BY <1>1, Invariance, PTL

\* A file that can be downloaded lies below the output directory of the artifact's own
\* conversation, which is live, whatever the paths the agent published.
THEOREM DownloadsBelowOutput == Spec => []DownloadsAreOutput
<1>1. IInv => DownloadsAreOutput
  <2> SUFFICES ASSUME IInv, NEW a \in Artifacts, Downloadable(a)
               PROVE  /\ conversation[artifact[a].of] = "live"
                      /\ IsStrictPrefix(Workspace(artifact[a].of) \o <<"output">>,
                                        Reached(artifact[a].of, NormalizeOutput(artifact[a].path)))
    BY DEF DownloadsAreOutput
  <2>1. /\ artifact[a].path # Refused /\ artifact[a].of \in Conversations
        /\ conversation[artifact[a].of] = "live"
    BY DEF IInv, Published, Downloadable, Current
  <2>2. artifact[a].path \in OutputPaths
    BY <2>1, PathsAreOutput DEF IInv, ArtifactsTyped, ArtifactRecord
  <2>3. QED
    BY <2>1, <2>2, OutputFixed, OutputReached
<1>2. QED
  BY <1>1, Invariance, PTL

\* A directory without an activity row, which no cleanup will find, is left behind only when
\* a removal met another user of it, a deletion could not reach it, rm failed, or a command of
\* another conversation wrote there.
THEOREM OrphansWereOvertaken == Spec => []OrphanOnlyWhenOvertaken
<1>1. IInv => OrphanOnlyWhenOvertaken
  BY DEF IInv
<1>2. QED
  BY <1>1, Invariance, PTL

\* The cleanup removes a directory only when its row, if there still is one, is past the
\* retention at that moment, although the list it works from may be old.
THEOREM SweepRespects == Spec => SweepRespectsRow
<1>1. IInv => \A c \in Conversations : SweepRemove(c) => activity[c] = None \/ activity[c] > Retention
  BY DEF IInv, ListedHasExpired, SweepRemove
<1>2. IInv /\ [Next]_vars =>
        [\A c \in Conversations : SweepRemove(c) => activity[c] = None \/ activity[c] > Retention]_vars
  BY <1>1
<1>3. QED
  BY <1>2, Invariance, PTL DEF Spec, SweepRespectsRow

\* A step that is no fault takes files of at most one conversation away, for any ids, any
\* owners and any paths the agent names.
THEOREM RemovalLocal == Spec => RemovalIsLocal
<1> DEFINE Local == faults' = faults =>
              \A c, d \in Conversations :
                  ~(Contents(c) \subseteq pod') /\ ~(Contents(d) \subseteq pod') => c = d
<1>1. IInv /\ Next => Local
  <2> SUFFICES ASSUME IInv, Next, faults' = faults, NEW c \in Conversations, NEW d \in Conversations,
                      ~(Contents(c) \subseteq pod'), ~(Contents(d) \subseteq pod')
               PROVE  c = d
    OBVIOUS
  <2>1. Typed /\ Placed /\ Step
    BY DEF IInv, Next
  <2>2. ~(pod \subseteq pod')
    BY DEF Contents
  <2>3. PICK e \in Conversations : pod' = pod \ Contents(e)
    BY <2>1, <2>2, PodShrinks
  <2>4. \A x \in Conversations : ~(Contents(x) \subseteq pod') => x = e
    BY <2>3, OneWorkspace DEF Contents
  <2>5. QED
    BY <2>4
<1>2. IInv /\ [Next]_vars => [Local]_vars
  BY <1>1
<1>3. QED
  BY <1>2, Invariance, PTL DEF Spec, RemovalIsLocal
=============================================================================
