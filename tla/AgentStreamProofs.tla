------------------------- MODULE AgentStreamProofs --------------------------
(***************************************************************************)
(* Proofs about one turn as events, for any calls and tools, any gated     *)
(* tools, and any bounds on calls and tokens: what the page shows of the   *)
(* turn, and what may run without the user.                                *)
(***************************************************************************)
EXTENDS AgentStream, Lemmas

\* The events on their way, and how many of a sequence of events are text.
InFlight == ToSet(network.events)
TokenPlaces(s) == {i \in DOMAIN s : s[i].type = "token"}
Tokens(s) == Cardinality(TokenPlaces(s))

\* What an event on its way says of the graph, which stays so until the page has it.
Fits(e) ==
    /\ e.type \in {"tool_start", "artifact_created"} => e.id \in Calls
    /\ e.type = "artifact_created" => call[e.id] = "ran"
    /\ e.type = "confirmation_required" => graph.at = "interrupted" /\ e.id = FirstAction
    /\ e.type = "done" => graph.at = "ended"
    /\ e.type = "error" => graph.at = "failed"
EventsFit == \A e \in InFlight : Fits(e)
DoneIsLast ==
    \A i \in DOMAIN network.events :
        network.events[i].type = "done" => i = Len(network.events)

\* A stream is open while the graph works; the page has a card while the graph waits for
\* its first action, and is over when the reply is saved.
StreamFollows ==
    /\ network.open => graph.at \in {"model", "tools"}
    /\ graph.at = "interrupted" => Actions # {}
    /\ page.card # None => graph.at = "interrupted" /\ page.card = FirstAction
    /\ page.over => graph.at = "ended" /\ network.events = <<>>
    /\ graph.at = "ended" => stored = answer

\* The calls of a message wait for the message to be complete; when the tools run, no
\* gated one still waits for a decision.
Unanswered == {"requested", "approved", "rejected"}
BatchFollows ==
    \A k \in ToSet(graph.batch) :
        /\ graph.at \in {"model", "interrupted"} => call[k] = "requested"
        /\ graph.at = "tools" /\ ToolOf[k] \in Gated => call[k] # "requested"

\* A result that brings its id settles its own call: the id is in the list, or the lists
\* are empty since the stream began after the calls.
IdsFollow ==
    identified =>
        /\ graph.at = "model" => \A k \in ToSet(graph.batch) : k \in ToSet(pending[ToolOf[k]])
        /\ graph.at = "tools" =>
               \/ \A t \in Tools : pending[t] = <<>>
               \/ \A k \in ToSet(graph.batch) :
                      call[k] \in Unanswered => k \in ToSet(pending[ToolOf[k]])

ApprovedFirst == \A k \in Calls : call[k] = "approved" => k \in approved

\* The text on the page and on its way is the answer, until the graph fails.
TextFollows ==
    page.loading =>
        /\ page.text + Tokens(network.events) <= answer
        /\ graph.at # "failed" => page.text + Tokens(network.events) = answer

\* The calls that are shown as completed, or will be when their event arrives.
SettledCalls == {k \in Calls : \/ page.activity[k] = "completed"
                               \/ \E e \in InFlight : e.type = "tool_end" /\ e.id = k}
SettledFollows ==
    /\ IsFiniteSet(Finished)
    /\ page.loading /\ page.card = None /\ ~page.over =>
           /\ IsFiniteSet(SettledCalls)
           /\ identified => SettledCalls \subseteq Finished
           /\ \A t \in Tools : Cardinality(OfTool(t, SettledCalls))
                                   <= Cardinality(OfTool(t, Finished))
PageFollows ==
    /\ \A k \in page.artifacts : call[k] = "ran"
    /\ ~page.loading => ShownAs("running") = {} /\ page.agent # "running"

IInv ==
    /\ TypeOK /\ EventsFit /\ DoneIsLast /\ StreamFollows /\ BatchFollows /\ IdsFollow
    /\ ApprovedFirst /\ UndecidedNeverRuns /\ TextFollows /\ SettledFollows /\ PageFollows
-----------------------------------------------------------------------------
(* Sequences of events. *)

\* Tokens can be counted.
LEMMA TokensCount ==
  ASSUME NEW s \in Seq(Events)
  PROVE  IsFiniteSet(TokenPlaces(s)) /\ Tokens(s) \in Nat
<1>1. Len(s) \in Nat /\ DOMAIN s = 1 .. Len(s)
  BY LenProperties
<1>2. IsFiniteSet(1 .. Len(s)) /\ TokenPlaces(s) \subseteq 1 .. Len(s)
  BY <1>1, FS_Interval DEF TokenPlaces
<1>3. IsFiniteSet(TokenPlaces(s))
  BY <1>2, FS_Subset
<1>4. QED
  BY <1>3, FS_CardinalityType DEF Tokens

\* Events are sent behind those on their way.
LEMMA Concatenated ==
  ASSUME NEW s \in Seq(Events), NEW t \in Seq(Events)
  PROVE  /\ s \o t \in Seq(Events)
         /\ Len(s \o t) = Len(s) + Len(t)
         /\ DOMAIN (s \o t) = 1 .. Len(s) + Len(t)
         /\ \A i \in DOMAIN s : i \in DOMAIN (s \o t) /\ (s \o t)[i] = s[i]
         /\ \A i \in DOMAIN t : Len(s) + i \in DOMAIN (s \o t) /\ (s \o t)[Len(s) + i] = t[i]
         /\ \A i \in DOMAIN (s \o t) : i \in DOMAIN s \/ (i - Len(s) \in DOMAIN t /\ i > Len(s))
         /\ ToSet(s \o t) = ToSet(s) \cup ToSet(t)
<1> DEFINE m == Len(s)
           n == Len(t)
           u == s \o t
<1>1. m \in Nat /\ n \in Nat /\ DOMAIN s = 1 .. m /\ DOMAIN t = 1 .. n
  BY LenProperties
<1>2. /\ u \in Seq(Events) /\ Len(u) = m + n
      /\ \A i \in 1 .. m + n : u[i] = IF i <= m THEN s[i] ELSE t[i - m]
  BY ConcatProperties
<1>3. DOMAIN u = 1 .. m + n
  BY <1>2, LenProperties
<1> HIDE DEF m, n, u
<1>4. \A i \in DOMAIN s : i \in DOMAIN u /\ u[i] = s[i]
  BY <1>1, <1>2, <1>3
<1>5. \A i \in DOMAIN t : m + i \in DOMAIN u /\ u[m + i] = t[i]
  <2>1. ASSUME NEW i \in DOMAIN t PROVE m + i \in DOMAIN u /\ u[m + i] = t[i]
    <3>1. i \in 1 .. n /\ m + i \in 1 .. m + n /\ ~(m + i <= m) /\ (m + i) - m = i
      BY <1>1
    <3>2. QED
      BY <1>2, <1>3, <3>1
  <2>2. QED
    BY <2>1
<1>6. \A i \in DOMAIN u : i \in DOMAIN s \/ (i - m \in DOMAIN t /\ i > m)
  BY <1>1, <1>3
<1>7. ToSet(u) = ToSet(s) \cup ToSet(t)
  <2>1. ASSUME NEW i \in DOMAIN u PROVE u[i] \in ToSet(s) \cup ToSet(t)
    <3>1. CASE i \in DOMAIN s
      BY <1>4, <3>1 DEF ToSet
    <3>2. CASE i - m \in DOMAIN t /\ i > m
      <4>1. u[i] = t[i - m]
        BY <1>1, <1>2, <1>3, <3>2
      <4>2. QED
        BY <3>2, <4>1 DEF ToSet
    <3>3. QED
      BY <1>6, <3>1, <3>2
  <2>2. ASSUME NEW i \in DOMAIN s PROVE s[i] \in ToSet(u)
    BY <1>4 DEF ToSet
  <2>3. ASSUME NEW i \in DOMAIN t PROVE t[i] \in ToSet(u)
    <3>1. m + i \in DOMAIN u /\ u[m + i] = t[i]
      BY <1>5
    <3>2. QED
      BY <3>1 DEF ToSet
  <2>4. \A x \in ToSet(u) : x \in ToSet(s) \cup ToSet(t)
    BY <2>1 DEF ToSet
  <2>5. \A x \in ToSet(s) \cup ToSet(t) : x \in ToSet(u)
    <3>1. ASSUME NEW x \in ToSet(s) PROVE x \in ToSet(u)
      <4>1. PICK i \in DOMAIN s : x = s[i]
        BY DEF ToSet
      <4>2. QED
        BY <2>2, <4>1
    <3>2. ASSUME NEW x \in ToSet(t) PROVE x \in ToSet(u)
      <4>1. PICK i \in DOMAIN t : x = t[i]
        BY DEF ToSet
      <4>2. QED
        BY <2>3, <4>1
    <3>3. QED
      BY <3>1, <3>2
  <2>6. QED
    BY <2>4, <2>5
<1>8. QED
  BY <1>2, <1>3, <1>4, <1>5, <1>6, <1>7 DEF m, n, u

\* Appending an event is concatenating it.
LEMMA AppendedEvent ==
  ASSUME NEW s \in Seq(Events), NEW e \in Events
  PROVE  /\ Append(s, e) = s \o <<e>>
         /\ <<e>> \in Seq(Events) /\ Len(<<e>>) = 1 /\ ToSet(<<e>>) = {e}
<1>1. <<e>> \in Seq(Events) /\ Len(<<e>>) = 1 /\ <<e>>[1] = e
  OBVIOUS
<1>2. ToSet(<<e>>) = {e}
  BY <1>1 DEF ToSet
<1>3. Append(s, e) = s \o <<e>>
  BY <1>1
<1>4. QED
  BY <1>1, <1>2, <1>3

\* What is sent besides text leaves its count alone.
LEMMA NoTokensSent ==
  ASSUME NEW s \in Seq(Events), NEW t \in Seq(Events), \A e \in ToSet(t) : e.type # "token"
  PROVE  Tokens(s \o t) = Tokens(s)
<1>1. ASSUME NEW i \in TokenPlaces(s \o t) PROVE i \in TokenPlaces(s)
  <2>1. i \in DOMAIN (s \o t) /\ (s \o t)[i].type = "token"
    BY DEF TokenPlaces
  <2>2. CASE i \in DOMAIN s
    BY <2>1, <2>2, Concatenated DEF TokenPlaces
  <2>3. CASE i - Len(s) \in DOMAIN t /\ i > Len(s)
    <3>1. Len(s) \in Nat /\ i \in Nat
      BY <2>1, Concatenated, LenProperties
    <3>2. Len(s) + (i - Len(s)) = i
      BY <3>1
    <3>3. (s \o t)[i] = t[i - Len(s)]
      BY <2>3, <3>2, Concatenated
    <3>4. t[i - Len(s)] \in ToSet(t)
      BY <2>3 DEF ToSet
    <3>5. QED
      BY <2>1, <3>3, <3>4
  <2>4. QED
    BY <2>1, <2>2, <2>3, Concatenated
<1>2. ASSUME NEW i \in TokenPlaces(s) PROVE i \in TokenPlaces(s \o t)
  BY Concatenated DEF TokenPlaces
<1>3. TokenPlaces(s \o t) = TokenPlaces(s)
  BY <1>1, <1>2
<1>4. QED
  BY <1>3 DEF Tokens

\* A piece of text counts one more.
LEMMA TokenSent ==
  ASSUME NEW s \in Seq(Events), NEW e \in Events, e.type = "token"
  PROVE  Tokens(s \o <<e>>) = Tokens(s) + 1
<1> DEFINE u == s \o <<e>>
<1>1. /\ Len(s) \in Nat /\ DOMAIN s = 1 .. Len(s) /\ DOMAIN u = 1 .. Len(s) + 1
      /\ \A i \in 1 .. Len(s) : u[i] = s[i]
      /\ u[Len(s) + 1] = e
  <2>1. <<e>> \in Seq(Events) /\ Len(<<e>>) = 1 /\ 1 \in DOMAIN <<e>> /\ <<e>>[1] = e
    OBVIOUS
  <2>2. Len(s) \in Nat /\ DOMAIN s = 1 .. Len(s)
    BY LenProperties
  <2> HIDE DEF Events
  <2>3. QED
    BY <2>1, <2>2, Concatenated
<1> HIDE DEF u
<1>2. TokenPlaces(u) = TokenPlaces(s) \cup {Len(s) + 1}
  <2>1. \A i : i \in 1 .. Len(s) + 1 <=> (i \in 1 .. Len(s) \/ i = Len(s) + 1)
    BY <1>1
  <2>2. QED
    BY <1>1, <2>1 DEF TokenPlaces
<1>3. Len(s) + 1 \notin TokenPlaces(s)
  BY <1>1 DEF TokenPlaces
<1>4. QED
  BY <1>2, <1>3, TokensCount, FS_AddElement DEF Tokens, u

\* What is left when the first event is taken.
LEMMA Taken ==
  ASSUME NEW s \in Seq(Events), s # <<>>
  PROVE  /\ Head(s) \in Events /\ Head(s) \in ToSet(s) /\ Tail(s) \in Seq(Events)
         /\ Len(s) \in Nat \ {0} /\ Head(s) = s[1] /\ 1 \in DOMAIN s
         /\ Len(Tail(s)) = Len(s) - 1 /\ DOMAIN Tail(s) = 1 .. Len(s) - 1
         /\ \A i \in DOMAIN Tail(s) : i + 1 \in DOMAIN s /\ Tail(s)[i] = s[i + 1]
         /\ ToSet(Tail(s)) \subseteq ToSet(s)
         /\ ToSet(s) = {Head(s)} \cup ToSet(Tail(s))
<1> DEFINE t == Tail(s)
<1>1. /\ Head(s) \in Events /\ t \in Seq(Events) /\ Len(t) = Len(s) - 1
      /\ \A i \in 1 .. Len(t) : t[i] = s[i + 1]
  BY HeadTailProperties
<1>2. Len(s) \in Nat \ {0} /\ DOMAIN s = 1 .. Len(s) /\ Head(s) = s[1]
  BY LenProperties, EmptySeq
<1>3. DOMAIN t = 1 .. Len(s) - 1
  BY <1>1, LenProperties
<1> HIDE DEF t
<1>4. 1 \in DOMAIN s /\ \A i \in DOMAIN t : i + 1 \in DOMAIN s /\ t[i] = s[i + 1]
  BY <1>1, <1>2, <1>3
<1>5. ToSet(t) \subseteq ToSet(s) /\ Head(s) \in ToSet(s)
  <2>1. ASSUME NEW i \in DOMAIN t PROVE t[i] \in ToSet(s)
    <3>1. i + 1 \in DOMAIN s /\ t[i] = s[i + 1]
      BY <1>4
    <3>2. QED
      BY <3>1 DEF ToSet
  <2>2. QED
    BY <1>2, <1>4, <2>1 DEF ToSet
<1>6. ASSUME NEW i \in DOMAIN s, i # 1 PROVE s[i] \in ToSet(t)
  <2>1. i - 1 \in DOMAIN t /\ (i - 1) + 1 = i
    BY <1>2, <1>3, <1>6
  <2>2. t[i - 1] = s[i]
    BY <1>4, <2>1
  <2>3. QED
    BY <2>1, <2>2 DEF ToSet
<1>7. ToSet(s) \subseteq {Head(s)} \cup ToSet(t)
  <2>1. ASSUME NEW x \in ToSet(s) PROVE x \in {Head(s)} \cup ToSet(t)
    <3>1. PICK i \in DOMAIN s : x = s[i]
      BY DEF ToSet
    <3>2. QED
      BY <1>2, <1>6, <3>1
  <2>2. QED
    BY <2>1
<1>8. ToSet(s) = {Head(s)} \cup ToSet(t)
  BY <1>5, <1>7
<1>9. QED
  BY <1>1, <1>2, <1>3, <1>4, <1>5, <1>8 DEF t

\* An event that is taken counts one less if it is text.
LEMMA TokensTaken ==
  ASSUME NEW s \in Seq(Events), s # <<>>
  PROVE  Tokens(s) = Tokens(Tail(s)) + (IF Head(s).type = "token" THEN 1 ELSE 0)
<1> DEFINE t == Tail(s)
           A == TokenPlaces(s)
           B == TokenPlaces(t)
           f == [i \in B |-> i + 1]
<1>1. /\ Len(s) \in Nat \ {0} /\ DOMAIN s = 1 .. Len(s) /\ DOMAIN t = 1 .. Len(s) - 1
      /\ t \in Seq(Events) /\ s[1] = Head(s) /\ \A i \in DOMAIN t : t[i] = s[i + 1]
  BY Taken, LenProperties
<1>2. IsFiniteSet(A) /\ IsFiniteSet(B) /\ Cardinality(A) \in Nat /\ Cardinality(B) \in Nat
  BY <1>1, TokensCount, FS_CardinalityType
<1> HIDE DEF t
<1>3. ExistsBijection(B, A \ {1})
  <2>1. ASSUME NEW i \in B PROVE i + 1 \in A \ {1} /\ i \in Nat
    <3>1. i \in 1 .. Len(s) - 1 /\ s[i + 1].type = "token"
      BY <1>1 DEF TokenPlaces
    <3>2. i + 1 \in 1 .. Len(s) /\ i + 1 # 1
      BY <1>1, <3>1
    <3>3. QED
      BY <1>1, <3>1, <3>2 DEF TokenPlaces
  <2>2. f \in [B -> A \ {1}]
    BY <2>1
  <2>3. \A i, j \in B : f[i] = f[j] => i = j
    BY <2>1
  <2>4. ASSUME NEW a \in A \ {1} PROVE \E i \in B : f[i] = a
    <3>1. a \in 1 .. Len(s) /\ a # 1 /\ s[a].type = "token"
      BY <1>1 DEF TokenPlaces
    <3>2. a - 1 \in 1 .. Len(s) - 1 /\ (a - 1) + 1 = a
      BY <1>1, <3>1
    <3>3. a - 1 \in B
      BY <1>1, <3>1, <3>2 DEF TokenPlaces
    <3>4. f[a - 1] = a
      BY <3>2, <3>3
    <3>5. QED
      BY <3>3, <3>4
  <2> HIDE DEF f, A, B
  <2>5. f \in Bijection(B, A \ {1})
    BY <2>2, <2>3, <2>4 DEF Bijection, Injection, Surjection, IsInjective
  <2>6. QED
    BY <2>5 DEF ExistsBijection
<1>4. Cardinality(A \ {1}) = Cardinality(B)
  BY <1>2, <1>3, FS_Bijection
<1>5. Cardinality(A \ {1}) = IF 1 \in A THEN Cardinality(A) - 1 ELSE Cardinality(A)
  BY <1>2, FS_RemoveElement
<1>6. 1 \in A <=> Head(s).type = "token"
  BY <1>1 DEF TokenPlaces
<1> HIDE DEF A, B
<1>7. Cardinality(A) = Cardinality(B) + (IF Head(s).type = "token" THEN 1 ELSE 0)
  BY <1>2, <1>4, <1>5, <1>6
<1>8. QED
  BY <1>7 DEF A, B, t, Tokens
-----------------------------------------------------------------------------
(* The page. *)

\* finalizeActivities ends what runs and nothing else.
LEMMA FinalizedFields ==
  ASSUME NEW p \in Pages
  PROVE  /\ Finalized(p) = [p EXCEPT !.activity = Finalized(p).activity,
                                     !.agent = Finalized(p).agent]
         /\ Finalized(p).activity \in [Calls -> Statuses \ {"running"}]
         /\ Finalized(p).agent \in Statuses \ {"running"}
<1> DEFINE activity == [k \in Calls |-> Settled(p.activity[k])]
<1>1. \A status \in Statuses : Settled(status) \in Statuses \ {"running"}
  BY DEF Settled, Statuses
<1>2. p.activity \in [Calls -> Statuses] /\ p.agent \in Statuses
  BY DEF Pages
<1>3. activity \in [Calls -> Statuses \ {"running"}]
  BY <1>1, <1>2
<1> HIDE DEF activity
<1>4. Finalized(p) = [p EXCEPT !.activity = activity, !.agent = Settled(p.agent)]
  BY DEF Finalized, activity
<1>5. Finalized(p).activity = activity /\ Finalized(p).agent = Settled(p.agent)
  BY <1>4 DEF Pages
<1>6. QED
  BY <1>1, <1>2, <1>3, <1>4, <1>5

\* markLatestActivityFailed and its sibling give the status to one entry at most.
LEMMA MarkedFields ==
  ASSUME NEW p \in Pages, NEW status \in Statuses
  PROVE  \E activity \in [Calls -> Statuses], agent \in Statuses :
             /\ MarkLatest(p, status) = [p EXCEPT !.activity = activity, !.agent = agent]
             /\ \A k \in Calls : activity[k] \in {p.activity[k], status}
<1> DEFINE running == {i \in DOMAIN p.latest : p.activity[p.latest[i]] = "running"}
           k == p.latest[CHOOSE i \in running : \A j \in running : j <= i]
<1>1. p.activity \in [Calls -> Statuses] /\ p.agent \in Statuses
  BY DEF Pages
<1>2. p = [p EXCEPT !.activity = p.activity, !.agent = p.agent]
  BY DEF Pages
<1>3. CASE MarkLatest(p, status) = p
  BY <1>1, <1>2, <1>3
<1>4. CASE MarkLatest(p, status) = [p EXCEPT !.agent = status]
  <2>1. [p EXCEPT !.agent = status] = [p EXCEPT !.activity = p.activity, !.agent = status]
    BY DEF Pages
  <2>2. QED
    BY <1>1, <1>4, <2>1
<1>5. CASE MarkLatest(p, status) = [p EXCEPT !.activity[k] = status]
  <2> HIDE DEF k
  <2> DEFINE activity == [p.activity EXCEPT ![k] = status]
  <2>1. activity \in [Calls -> Statuses] /\ \A c \in Calls : activity[c] \in {p.activity[c], status}
    BY <1>1
  <2>2. [p EXCEPT !.activity[k] = status] = [p EXCEPT !.activity = activity, !.agent = p.agent]
    BY DEF Pages
  <2> HIDE DEF activity
  <2>3. QED
    BY <1>1, <1>5, <2>1, <2>2
<1>6. \/ MarkLatest(p, status) = p
      \/ MarkLatest(p, status) = [p EXCEPT !.agent = status]
      \/ MarkLatest(p, status) = [p EXCEPT !.activity[k] = status]
  BY DEF MarkLatest
<1>7. QED
  BY <1>3, <1>4, <1>5, <1>6

\* What handleEvent changes, field by field.
LEMMA ShownFields ==
  ASSUME NEW p \in Pages, NEW e \in Events,
         e.type = "token" => p.text + 1 <= MaxTokens,
         e.type \in {"tool_start", "artifact_created", "confirmation_required"} => e.id \in Calls
  PROVE  /\ Shown(p, e) \in Pages
         /\ Shown(p, e).loading = p.loading
         /\ Shown(p, e).over = (p.over \/ e.type = "done")
         /\ Shown(p, e).card = IF e.type = "confirmation_required" THEN e.id ELSE p.card
         /\ Shown(p, e).text = IF e.type = "token" THEN p.text + 1
                               ELSE IF e.type = "error" THEN 0 ELSE p.text
         /\ Shown(p, e).artifacts = IF e.type = "artifact_created"
                                    THEN p.artifacts \cup {e.id} ELSE p.artifacts
         /\ e.type \notin {"done", "confirmation_required"} =>
                \A k \in Calls : Shown(p, e).activity[k] = "completed" =>
                    p.activity[k] = "completed" \/ (e.type = "tool_end" /\ e.id = k)
<1> DEFINE q == Shown(p, e)
<1>0. /\ p.loading \in BOOLEAN /\ p.activity \in [Calls -> Statuses] /\ p.agent \in Statuses
      /\ p.latest \in Seq(Calls) /\ p.artifacts \in SUBSET Calls /\ p.text \in 0 .. MaxTokens
      /\ p.card \in Calls \cup {None} /\ p.over \in BOOLEAN
      /\ e.type \in EventTypes /\ e.id \in Calls \cup {None}
  BY DEF Pages, Events
<1>1. CASE e.type = "token"
  <2>1. q = [p EXCEPT !.text = p.text + 1]
    BY <1>1 DEF Shown
  <2>2. p.text + 1 \in 0 .. MaxTokens
    BY <1>0, <1>1, BoundsAssumption
  <2>3. QED
    BY <1>0, <1>1, <2>1, <2>2 DEF Pages
<1>2. CASE e.type = "tool_start"
  <2>1. q = [p EXCEPT !.activity[e.id] = "running", !.latest = Append(p.latest, e.id)]
    BY <1>2 DEF Shown
  <2>2. /\ [p.activity EXCEPT ![e.id] = "running"] \in [Calls -> Statuses]
        /\ Append(p.latest, e.id) \in Seq(Calls)
    BY <1>0, <1>2 DEF Statuses
  <2>3. q = [p EXCEPT !.activity = [p.activity EXCEPT ![e.id] = "running"],
                      !.latest = Append(p.latest, e.id)]
    BY <2>1 DEF Pages
  <2>4. \A k \in Calls : q.activity[k] = "completed" => p.activity[k] = "completed"
    BY <1>0, <2>3 DEF Pages
  <2>5. QED
    BY <1>0, <1>2, <2>2, <2>3, <2>4 DEF Pages
<1>3. CASE e.type = "tool_end"
  <2>1. CASE e.id = None
    <3>1. q = p
      BY <1>3, <2>1 DEF Shown
    <3>2. QED
      BY <1>0, <1>3, <3>1
  <2>2. CASE e.id # None
    <3>1. q = [p EXCEPT !.activity[e.id] = Settled(p.activity[e.id])]
      BY <1>3, <2>2 DEF Shown
    <3>2. e.id \in Calls /\ Settled(p.activity[e.id]) \in Statuses
      BY <1>0, <2>2 DEF Settled, Statuses
    <3>3. q = [p EXCEPT !.activity = [p.activity EXCEPT ![e.id] = Settled(p.activity[e.id])]]
      BY <3>1 DEF Pages
    <3>4. [p.activity EXCEPT ![e.id] = Settled(p.activity[e.id])] \in [Calls -> Statuses]
      BY <1>0, <3>2
    <3>5. \A k \in Calls : q.activity[k] = "completed" => p.activity[k] = "completed" \/ e.id = k
      BY <1>0, <3>3, <3>4 DEF Pages
    <3>6. QED
      BY <1>0, <1>3, <3>3, <3>4, <3>5 DEF Pages
  <2>3. QED
    BY <2>1, <2>2
<1>4. CASE e.type = "confirmation_required"
  <2>1. q = [MarkLatest(p, "completed") EXCEPT !.card = e.id]
    BY <1>4 DEF Shown
  <2>2. PICK activity \in [Calls -> Statuses], agent \in Statuses :
            /\ MarkLatest(p, "completed") = [p EXCEPT !.activity = activity, !.agent = agent]
            /\ \A k \in Calls : activity[k] \in {p.activity[k], "completed"}
    BY MarkedFields DEF Statuses
  <2>3. q = [p EXCEPT !.activity = activity, !.agent = agent, !.card = e.id]
    BY <2>1, <2>2 DEF Pages
  <2>4. QED
    BY <1>0, <1>4, <2>3 DEF Pages
<1>5. CASE e.type = "artifact_created"
  <2>1. q = [p EXCEPT !.artifacts = p.artifacts \cup {e.id}]
    BY <1>5 DEF Shown
  <2>2. QED
    BY <1>0, <1>5, <2>1 DEF Pages
<1>6. CASE e.type = "done"
  <2>1. q = [Finalized(p) EXCEPT !.over = TRUE]
    BY <1>6 DEF Shown
  <2>2. q = [p EXCEPT !.activity = Finalized(p).activity, !.agent = Finalized(p).agent,
                      !.over = TRUE]
    BY <2>1, FinalizedFields DEF Pages
  <2>3. Finalized(p).activity \in [Calls -> Statuses] /\ Finalized(p).agent \in Statuses
    BY FinalizedFields
  <2>4. QED
    BY <1>0, <1>6, <2>2, <2>3 DEF Pages
<1>7. CASE e.type = "error"
  <2>1. q = [MarkLatest(p, "error") EXCEPT !.text = 0]
    BY <1>7 DEF Shown
  <2>2. PICK activity \in [Calls -> Statuses], agent \in Statuses :
            /\ MarkLatest(p, "error") = [p EXCEPT !.activity = activity, !.agent = agent]
            /\ \A k \in Calls : activity[k] \in {p.activity[k], "error"}
    BY MarkedFields DEF Statuses
  <2>3. q = [p EXCEPT !.activity = activity, !.agent = agent, !.text = 0]
    BY <2>1, <2>2 DEF Pages
  <2>4. 0 \in 0 .. MaxTokens
    BY BoundsAssumption
  <2>5. QED
    BY <1>0, <1>7, <2>2, <2>3, <2>4 DEF Pages
<1>8. QED
  BY <1>0, <1>1, <1>2, <1>3, <1>4, <1>5, <1>6, <1>7 DEF EventTypes
-----------------------------------------------------------------------------
(* What the actions are made of. *)

\* Send adds to what is on its way.
LEMMA Sends ==
  ASSUME TypeOK, NEW new \in Seq(Events), Send(new)
  PROVE  /\ network' \in [events : Seq(Events), open : BOOLEAN]
         /\ network'.open = network.open /\ network'.events = network.events \o new
         /\ InFlight' = InFlight \cup ToSet(new)
<1>1. network \in [events : Seq(Events), open : BOOLEAN]
  BY DEF TypeOK
<1>2. network' = [network EXCEPT !.events = network.events \o new]
  BY DEF Send
<1>3. /\ network.events \o new \in Seq(Events)
      /\ ToSet(network.events \o new) = ToSet(network.events) \cup ToSet(new)
  BY <1>1, Concatenated
<1>4. network'.open = network.open /\ network'.events = network.events \o new
  BY <1>1, <1>2
<1>5. QED
  BY <1>1, <1>2, <1>3, <1>4 DEF InFlight

\* SendLast adds one event and closes the stream.
LEMMA SendsLast ==
  ASSUME TypeOK, NEW e \in Events, SendLast(e)
  PROVE  /\ network' \in [events : Seq(Events), open : BOOLEAN]
         /\ network'.open = FALSE /\ network'.events = network.events \o <<e>>
         /\ Len(network'.events) = Len(network.events) + 1
         /\ InFlight' = InFlight \cup {e}
<1>1. network.events \in Seq(Events)
  BY DEF TypeOK
<1>2. /\ Append(network.events, e) = network.events \o <<e>>
      /\ <<e>> \in Seq(Events) /\ Len(<<e>>) = 1 /\ ToSet(<<e>>) = {e}
  BY <1>1, AppendedEvent
<1>3. /\ network.events \o <<e>> \in Seq(Events)
      /\ Len(network.events \o <<e>>) = Len(network.events) + Len(<<e>>)
      /\ ToSet(network.events \o <<e>>) = ToSet(network.events) \cup ToSet(<<e>>)
  BY <1>1, <1>2, Concatenated
<1>4. network' = [events |-> network.events \o <<e>>, open |-> FALSE]
  BY <1>2 DEF SendLast
<1>5. QED
  BY <1>2, <1>3, <1>4 DEF InFlight

\* An interrupt has a first action, one of the message's calls.
LEMMA FirstActionIsCall ==
  ASSUME graph.batch \in Seq(Calls), Actions # {}
  PROVE  FirstAction \in Calls /\ \E i \in Actions : FirstAction = graph.batch[i]
<1>1. Actions \subseteq Nat /\ \A i \in Actions : graph.batch[i] \in Calls
  BY LenProperties, ElementOfSeq DEF Actions
<1>2. \E i \in Actions : \A j \in Actions : i <= j
  BY <1>1, Least, Zenon
<1>3. (CHOOSE i \in Actions : \A j \in Actions : i <= j) \in Actions
  BY <1>2
<1>4. QED
  BY <1>1, <1>3 DEF FirstAction

\* A result is taken for a call of its own tool, or for none.
LEMMA CompletedFits ==
  ASSUME TypeOK, NEW k \in Calls
  PROVE  /\ Completed(k) \in Calls \cup {None}
         /\ Completed(k) # None => ToolOf[Completed(k)] = ToolOf[k]
<1> DEFINE ids == pending[ToolOf[k]]
<1>1. ToolOf[k] \in Tools
  BY DEF Tools
<1>2. ids \in Seq(Calls) /\ \A c \in ToSet(ids) : ToolOf[c] = ToolOf[k]
  BY <1>1 DEF TypeOK
<1>3. ids # <<>> => Head(ids) \in ToSet(ids) /\ Head(ids) \in Calls
  <2> HIDE DEF ids
  <2>1. ASSUME ids # <<>> PROVE Head(ids) \in ToSet(ids) /\ Head(ids) \in Calls
    <3>1. Len(ids) \in Nat \ {0} /\ DOMAIN ids = 1 .. Len(ids)
      BY <1>2, <2>1, EmptySeq, LenProperties
    <3>2. Head(ids) = ids[1] /\ 1 \in DOMAIN ids
      BY <1>2, <2>1, <3>1
    <3>3. QED
      BY <1>2, <2>1, <3>2, HeadTailProperties DEF ToSet
  <2>2. QED
    BY <2>1
<1>4. Completed(k) = IF identified /\ k \in ToSet(ids) THEN k
                     ELSE IF ids # <<>> THEN Head(ids)
                     ELSE IF identified THEN k ELSE None
  BY DEF Completed
<1> HIDE DEF ids
<1>5. QED
  BY <1>2, <1>3, <1>4

\* Taking an id out of its list leaves the others there.
LEMMA WithoutFits ==
  ASSUME NEW ids \in Seq(Calls), IsInjective(ids), NEW id
  PROVE  /\ Without(ids, id) \in Seq(Calls) /\ IsInjective(Without(ids, id))
         /\ ToSet(Without(ids, id)) = ToSet(ids) \ {id}
<1>1. CASE id \in ToSet(ids)
  <2> DEFINE i == CHOOSE i \in DOMAIN ids : ids[i] = id
  <2>1. i \in DOMAIN ids /\ ids[i] = id
    BY <1>1 DEF ToSet
  <2>2. Without(ids, id) = RemoveAt(ids, i)
    BY <1>1 DEF Without
  <2> HIDE DEF i
  <2>3. QED
    BY <2>1, <2>2, Removed
<1>2. CASE id \notin ToSet(ids)
  BY <1>2 DEF Without
<1>3. QED
  BY <1>1, <1>2

\* The events of a result.
LEMMA ResultFits ==
  ASSUME TypeOK, NEW k \in Calls, NEW outcome
  PROVE  /\ ResultEvents(k, outcome) \in Seq(Events)
         /\ \A e \in ToSet(ResultEvents(k, outcome)) :
                \/ e = Event("artifact_created", k) /\ outcome = "ran"
                \/ e = Event("tool_end", Completed(k))
<1> DEFINE file == IF ToolOf[k] = Publishing /\ outcome = "ran"
                   THEN <<Event("artifact_created", k)>> ELSE <<>>
           end == IF Visible(ToolOf[k]) THEN <<Event("tool_end", Completed(k))>> ELSE <<>>
<1>1. /\ Event("artifact_created", k) \in Events
      /\ Event("tool_end", Completed(k)) \in Events
  BY CompletedFits DEF Event, Events, EventTypes
<1> HIDE DEF Events
<1>2. /\ file \in Seq(Events)
      /\ \A e \in ToSet(file) : e = Event("artifact_created", k) /\ outcome = "ran"
  <2>1. CASE ToolOf[k] = Publishing /\ outcome = "ran"
    BY <1>1, <2>1, AppendedEvent DEF ToSet
  <2>2. CASE ~(ToolOf[k] = Publishing /\ outcome = "ran")
    BY <2>2, EmptySeq DEF ToSet
  <2>3. QED
    BY <2>1, <2>2
<1>3. end \in Seq(Events) /\ \A e \in ToSet(end) : e = Event("tool_end", Completed(k))
  <2>1. CASE Visible(ToolOf[k])
    BY <1>1, <2>1, AppendedEvent DEF ToSet
  <2>2. CASE ~Visible(ToolOf[k])
    BY <2>2, EmptySeq DEF ToSet
  <2>3. QED
    BY <2>1, <2>2
<1>4. ResultEvents(k, outcome) = file \o end
  BY DEF ResultEvents
<1> HIDE DEF file, end
<1>5. file \o end \in Seq(Events) /\ ToSet(file \o end) = ToSet(file) \cup ToSet(end)
  BY <1>2, <1>3, Concatenated
<1>6. QED
  BY <1>2, <1>3, <1>4, <1>5
-----------------------------------------------------------------------------
(* Every step keeps the invariant: first the types. *)

\* The text an event adds fits, and its call is one.
LEMMA NextEventFits ==
  ASSUME TypeOK, EventsFit, StreamFollows, TextFollows, page.loading,
         network.events # <<>>
  PROVE  /\ Head(network.events) \in Events /\ Head(network.events) \in InFlight
         /\ Head(network.events).type = "token" => page.text + 1 <= MaxTokens
         /\ Head(network.events).type
                \in {"tool_start", "artifact_created", "confirmation_required"} =>
                Head(network.events).id \in Calls
<1> DEFINE e == Head(network.events)
<1>1. network.events \in Seq(Events) /\ e \in Events /\ e \in InFlight
  BY Taken DEF TypeOK, InFlight
<1>2. ASSUME e.type = "token" PROVE page.text + 1 <= MaxTokens
  <2>1. Tokens(network.events) = Tokens(Tail(network.events)) + 1
    BY <1>1, <1>2, TokensTaken
  <2>2. Tokens(Tail(network.events)) \in Nat
    BY <1>1, Taken, TokensCount
  <2>3. page.text \in Nat /\ answer \in Nat /\ answer <= MaxTokens
    BY DEF TypeOK, Pages
  <2>4. page.text + Tokens(network.events) <= answer
    BY DEF TextFollows
  <2>5. QED
    BY <2>1, <2>2, <2>3, <2>4, BoundsAssumption
<1>3. ASSUME e.type \in {"tool_start", "artifact_created"} PROVE e.id \in Calls
  BY <1>1, <1>3 DEF EventsFit, Fits
<1>4. ASSUME e.type = "confirmation_required" PROVE e.id \in Calls
  <2>1. graph.at = "interrupted" /\ e.id = FirstAction
    BY <1>1, <1>4 DEF EventsFit, Fits
  <2>2. e.id # None => e.id \in Calls
    BY <1>1 DEF Events
  <2>3. FirstAction \in Calls
    BY <2>1, FirstActionIsCall DEF TypeOK, StreamFollows
  <2>4. QED
    BY <2>1, <2>3
<1>5. QED
  BY <1>1, <1>2, <1>3, <1>4

\* A new stream's page is a page.
LEMMA NewPageFits ==
  NewPage \in Pages
<1>1. /\ [k \in Calls |-> "none"] \in [Calls -> Statuses] /\ "running" \in Statuses
      /\ <<>> \in Seq(Calls) /\ 0 \in 0 .. MaxTokens
  BY BoundsAssumption, EmptySeq DEF Statuses
<1>2. QED
  BY <1>1 DEF NewPage, Pages

\* An event's text, its kind and its call make an event.
LEMMA EventFits ==
  ASSUME NEW type \in EventTypes, NEW k \in Calls \cup {None}
  PROVE  Event(type, k) \in Events /\ Event(type, k).type = type /\ Event(type, k).id = k
BY DEF Event, Events

\* Every step keeps the types.
LEMMA TypeStep ==
  ASSUME IInv, Next
  PROVE  TypeOK'
<1> USE DEF IInv
<1>0. /\ identified \in BOOLEAN
      /\ graph \in [at : {"model", "tools", "interrupted", "ended", "failed"},
                    batch : Seq(Calls)]
      /\ call \in [Calls -> {"unused", "requested", "approved", "rejected", "ran", "refused"}]
      /\ pending \in [Tools -> Seq(Calls)]
      /\ \A t \in Tools : /\ IsInjective(pending[t])
                          /\ \A k \in ToSet(pending[t]) : ToolOf[k] = t /\ call[k] # "unused"
      /\ answer \in 0 .. MaxTokens
      /\ stored \in 0 .. MaxTokens \cup {None}
      /\ network \in [events : Seq(Events), open : BOOLEAN]
      /\ page \in Pages
      /\ approved \subseteq Calls
  BY DEF TypeOK
<1>e. \A type \in EventTypes : Event(type, None) \in Events
  BY EventFits
<1>1. CASE Token
  <2>1. Event("token", None) \in Events /\ <<Event("token", None)>> \in Seq(Events)
    BY <1>e, AppendedEvent DEF EventTypes
  <2>2. network' \in [events : Seq(Events), open : BOOLEAN]
    BY <1>1, <2>1, Sends DEF Token
  <2>3. answer' \in 0 .. MaxTokens
    BY <1>0, <1>1, BoundsAssumption DEF Token
  <2>4. UNCHANGED <<identified, graph, call, pending, stored, page, approved>>
    BY <1>1 DEF Token
  <2>5. QED
    BY <1>0, <2>2, <2>3, <2>4 DEF TypeOK
<1>2. CASE \E k \in Calls : RequestCall(k)
  <2>1. PICK k \in Calls : RequestCall(k)
    BY <1>2
  <2>2. /\ graph' = [graph EXCEPT !.batch = Append(graph.batch, k)]
        /\ call[k] = "unused" /\ call' = [call EXCEPT ![k] = "requested"]
        /\ pending' = [pending EXCEPT ![ToolOf[k]] = Append(pending[ToolOf[k]], k)]
        /\ UNCHANGED <<identified, answer, stored, page, approved>>
    BY <2>1 DEF RequestCall, Added
  <2>3. graph' \in [at : {"model", "tools", "interrupted", "ended", "failed"},
                    batch : Seq(Calls)]
    <3>1. Append(graph.batch, k) \in Seq(Calls)
      BY <1>0, AppendProperties
    <3>2. QED
      BY <1>0, <2>2, <3>1
  <2>4. call' \in [Calls -> {"unused", "requested", "approved", "rejected", "ran", "refused"}]
    BY <1>0, <2>2
  <2>5. network' \in [events : Seq(Events), open : BOOLEAN]
    <3>1. Event("tool_start", k) \in Events /\ <<Event("tool_start", k)>> \in Seq(Events)
      BY EventFits, AppendedEvent DEF EventTypes
    <3>2. Send(<<Event("tool_start", k)>>) \/ UNCHANGED network
      BY <2>1 DEF RequestCall
    <3>3. QED
      BY <1>0, <3>1, <3>2, Sends
  <2>6. /\ pending' \in [Tools -> Seq(Calls)]
        /\ \A t \in Tools :
               /\ IsInjective(pending'[t])
               /\ \A c \in ToSet(pending'[t]) : ToolOf[c] = t /\ call'[c] # "unused"
    <3>1. ToolOf[k] \in Tools /\ pending[ToolOf[k]] \in Seq(Calls)
      BY <1>0 DEF Tools
    <3>2. Append(pending[ToolOf[k]], k) \in Seq(Calls)
      BY <3>1
    <3>3. /\ ToSet(Append(pending[ToolOf[k]], k)) = ToSet(pending[ToolOf[k]]) \cup {k}
          /\ IsInjective(Append(pending[ToolOf[k]], k))
      <4>1. k \notin ToSet(pending[ToolOf[k]])
        BY <1>0, <2>2, <3>1
      <4>2. QED
        BY <1>0, <3>1, <4>1, Appended
    <3>4. ASSUME NEW t \in Tools, NEW c \in ToSet(pending'[t])
          PROVE  ToolOf[c] = t /\ call'[c] # "unused"
      <4>1. c \in ToSet(pending[t]) \/ (c = k /\ t = ToolOf[k])
        BY <1>0, <2>2, <3>1, <3>3, <3>4
      <4>2. CASE c \in ToSet(pending[t])
        <5>1. ToolOf[c] = t /\ call[c] # "unused" /\ c # k
          BY <1>0, <2>2, <4>2
        <5>2. call'[c] = call[c]
          BY <1>0, <2>2, <5>1
        <5>3. QED
          BY <5>1, <5>2
      <4>3. CASE c = k /\ t = ToolOf[k]
        BY <1>0, <2>2, <4>3
      <4>4. QED
        BY <4>1, <4>2, <4>3
    <3>5. \A t \in Tools : IsInjective(pending'[t])
      BY <1>0, <2>2, <3>1, <3>3
    <3>6. QED
      BY <1>0, <2>2, <3>2, <3>4, <3>5
  <2>7. QED
    BY <1>0, <2>2, <2>3, <2>4, <2>5, <2>6 DEF TypeOK
<1>3. CASE RunTools \/ ToolsDone
  <2>1. /\ UNCHANGED <<identified, call, pending, answer, stored, network, page, approved>>
        /\ \/ graph' = [graph EXCEPT !.at = "tools"]
           \/ graph' = [at |-> "model", batch |-> <<>>]
    BY <1>3 DEF RunTools, ToolsDone
  <2>2. graph' \in [at : {"model", "tools", "interrupted", "ended", "failed"},
                    batch : Seq(Calls)]
    <3>1. <<>> \in Seq(Calls)
      BY EmptySeq
    <3>2. CASE graph' = [graph EXCEPT !.at = "tools"]
      BY <1>0, <3>2
    <3>3. CASE graph' = [at |-> "model", batch |-> <<>>]
      BY <3>1, <3>3
    <3>4. QED
      BY <2>1, <3>2, <3>3
  <2>3. QED
    BY <1>0, <2>1, <2>2 DEF TypeOK
<1>4. CASE Interrupt
  <2>1. /\ UNCHANGED <<identified, call, pending, answer, stored, page, approved>>
        /\ graph' = [graph EXCEPT !.at = "interrupted"]
        /\ Actions # {} /\ SendLast(Event("confirmation_required", FirstAction))
    BY <1>4 DEF Interrupt
  <2>2. Event("confirmation_required", FirstAction) \in Events
    BY <1>0, <2>1, FirstActionIsCall, EventFits DEF EventTypes
  <2>3. network' \in [events : Seq(Events), open : BOOLEAN]
    BY <2>1, <2>2, SendsLast
  <2>4. QED
    BY <1>0, <2>1, <2>3 DEF TypeOK
<1>5. CASE \E k \in Calls, outcome \in {"ran", "refused"} : ToolAnswers(k, outcome)
  <2>1. PICK k \in Calls, outcome \in {"ran", "refused"} : ToolAnswers(k, outcome)
    BY <1>5
  <2>2. /\ UNCHANGED <<identified, graph, answer, stored, page, approved>>
        /\ call' = [call EXCEPT ![k] = outcome]
        /\ pending' = [pending EXCEPT ![ToolOf[k]] =
                           Without(pending[ToolOf[k]], Completed(k))]
        /\ Send(ResultEvents(k, outcome))
    BY <2>1 DEF ToolAnswers
  <2>3. call' \in [Calls -> {"unused", "requested", "approved", "rejected", "ran", "refused"}]
    BY <1>0, <2>2
  <2>4. network' \in [events : Seq(Events), open : BOOLEAN]
    BY <2>2, ResultFits, Sends
  <2>5. /\ pending' \in [Tools -> Seq(Calls)]
        /\ \A t \in Tools :
               /\ IsInjective(pending'[t])
               /\ \A c \in ToSet(pending'[t]) : ToolOf[c] = t /\ call'[c] # "unused"
    <3>1. ToolOf[k] \in Tools /\ pending[ToolOf[k]] \in Seq(Calls)
      BY <1>0 DEF Tools
    <3>2. /\ Without(pending[ToolOf[k]], Completed(k)) \in Seq(Calls)
          /\ IsInjective(Without(pending[ToolOf[k]], Completed(k)))
          /\ ToSet(Without(pending[ToolOf[k]], Completed(k))) \subseteq
                 ToSet(pending[ToolOf[k]])
      BY <1>0, <3>1, WithoutFits
    <3>3. \A t \in Tools : IsInjective(pending'[t]) /\ ToSet(pending'[t]) \subseteq ToSet(pending[t])
      BY <1>0, <2>2, <3>1, <3>2
    <3>4. \A c : call[c] # "unused" => call'[c] # "unused"
      BY <1>0, <2>2
    <3>5. QED
      BY <1>0, <2>2, <3>2, <3>3, <3>4
  <2>6. QED
    BY <1>0, <2>2, <2>3, <2>4, <2>5 DEF TypeOK
<1>6. CASE EndTurn
  <2>1. Event("done", None) \in Events
    BY <1>e DEF EventTypes
  <2>2. network' \in [events : Seq(Events), open : BOOLEAN]
    BY <1>6, <2>1, SendsLast DEF EndTurn
  <2>3. QED
    BY <1>0, <1>6, <2>2 DEF EndTurn, TypeOK
<1>7. CASE GraphFails
  <2>1. Event("error", None) \in Events
    BY <1>e DEF EventTypes
  <2>2. network' \in [events : Seq(Events), open : BOOLEAN]
    BY <1>7, <2>1, SendsLast DEF GraphFails
  <2>3. QED
    BY <1>0, <1>7, <2>2 DEF GraphFails, TypeOK
<1>8. CASE HandleEvent
  <2>1. /\ page.loading /\ network.events # <<>> /\ page' = Shown(page, Head(network.events))
        /\ network' = [network EXCEPT !.events = Tail(network.events)]
        /\ UNCHANGED <<identified, graph, call, pending, answer, stored, approved>>
    BY <1>8 DEF HandleEvent
  <2>2. Shown(page, Head(network.events)) \in Pages
    BY <1>0, <2>1, NextEventFits, ShownFields
  <2>3. network' \in [events : Seq(Events), open : BOOLEAN]
    BY <1>0, <2>1, Taken
  <2>4. QED
    BY <1>0, <2>1, <2>2, <2>3 DEF TypeOK
<1>9. CASE StreamEnds \/ ConnectionLost
  <2>1. /\ UNCHANGED <<identified, call, pending, answer, stored, approved>>
        /\ graph' \in {graph, [graph EXCEPT !.at = "failed"]}
        /\ network' \in {network, [events |-> <<>>, open |-> FALSE]}
        /\ page' \in {[Finalized(page) EXCEPT !.loading = FALSE],
                      [Finalized(page) EXCEPT !.loading = FALSE, !.text = 0]}
    BY <1>9 DEF StreamEnds, ConnectionLost
  <2>2. page' \in Pages
    <3>1. Finalized(page) \in Pages
      <4>1. Finalized(page).activity \in [Calls -> Statuses] /\ Finalized(page).agent \in Statuses
        <5>1. /\ Finalized(page).activity \in [Calls -> Statuses \ {"running"}]
              /\ Finalized(page).agent \in Statuses \ {"running"}
          BY <1>0, FinalizedFields
        <5>2. QED
          BY <5>1
      <4>2. Finalized(page) = [page EXCEPT !.activity = Finalized(page).activity,
                                           !.agent = Finalized(page).agent]
        BY <1>0, FinalizedFields
      <4>3. [page EXCEPT !.activity = Finalized(page).activity,
                         !.agent = Finalized(page).agent] \in Pages
        BY <1>0, <4>1 DEF Pages
      <4>4. QED
        BY <4>2, <4>3
    <3>2. 0 \in 0 .. MaxTokens
      BY BoundsAssumption
    <3>3. QED
      BY <2>1, <3>1, <3>2 DEF Pages
  <2>3. /\ network' \in [events : Seq(Events), open : BOOLEAN]
        /\ graph' \in [at : {"model", "tools", "interrupted", "ended", "failed"},
                       batch : Seq(Calls)]
    <3>1. [events |-> <<>>, open |-> FALSE] \in [events : Seq(Events), open : BOOLEAN]
      BY EmptySeq
    <3>2. [graph EXCEPT !.at = "failed"]
              \in [at : {"model", "tools", "interrupted", "ended", "failed"},
                  batch : Seq(Calls)]
      BY <1>0
    <3>3. QED
      BY <1>0, <2>1, <3>1, <3>2
  <2>4. QED
    BY <1>0, <2>1, <2>2, <2>3 DEF TypeOK
<1>10. CASE \E decision \in {"approved", "rejected"} : Decide(decision)
  <2>1. PICK decision \in {"approved", "rejected"} : Decide(decision)
    BY <1>10
  <2>2. /\ UNCHANGED <<identified, stored>>
        /\ page' = NewPage /\ pending' = [t \in Tools |-> <<>>] /\ answer' = 0
        /\ approved' \in {approved, approved \cup {page.card}} /\ page.card # None
        /\ \/ /\ graph' = [graph EXCEPT !.at = "failed"] /\ UNCHANGED call
              /\ network' = [events |-> <<Event("error", None)>>, open |-> FALSE]
           \/ /\ graph' = [graph EXCEPT !.at = "tools"]
              /\ network' = [events |-> <<>>, open |-> TRUE]
              /\ call' = [k \in Calls |-> IF \E i \in Actions : graph.batch[i] = k
                                           THEN decision ELSE call[k]]
    BY <2>1 DEF Decide, NewAnswer
  <2>3. <<Event("error", None)>> \in Seq(Events) /\ <<>> \in Seq(Events)
    BY <1>e, AppendedEvent, EmptySeq DEF EventTypes
  <2>4. network' \in [events : Seq(Events), open : BOOLEAN]
    <3>1. [events |-> <<Event("error", None)>>, open |-> FALSE]
              \in [events : Seq(Events), open : BOOLEAN]
      BY <2>3
    <3>2. [events |-> <<>>, open |-> TRUE] \in [events : Seq(Events), open : BOOLEAN]
      BY <2>3
    <3>3. QED
      BY <2>2, <3>1, <3>2
  <2>5. call' \in [Calls -> {"unused", "requested", "approved", "rejected", "ran", "refused"}]
    <3>1. CASE UNCHANGED call
      BY <1>0, <3>1
    <3>2. CASE call' = [k \in Calls |-> IF \E i \in Actions : graph.batch[i] = k
                                         THEN decision ELSE call[k]]
      <4>1. ASSUME NEW k \in Calls
            PROVE  (IF \E i \in Actions : graph.batch[i] = k THEN decision ELSE call[k])
                       \in {"unused", "requested", "approved", "rejected", "ran", "refused"}
        BY <1>0
      <4>2. QED
        BY <3>2, <4>1
    <3>3. QED
      BY <2>2, <3>1, <3>2
  <2>6. graph' \in [at : {"model", "tools", "interrupted", "ended", "failed"},
                    batch : Seq(Calls)]
    BY <1>0, <2>2
  <2>7. /\ pending' \in [Tools -> Seq(Calls)]
        /\ \A t \in Tools : IsInjective(pending'[t]) /\ ToSet(pending'[t]) = {}
    BY <2>2, EmptySeq DEF IsInjective, ToSet
  <2>8. approved' \subseteq Calls /\ answer' \in 0 .. MaxTokens
    BY <1>0, <2>2, BoundsAssumption DEF Pages
  <2>9. QED
    BY <1>0, <2>2, <2>4, <2>5, <2>6, <2>7, <2>8, NewPageFits DEF TypeOK
<1>11. QED
  BY <1>1, <1>2, <1>3, <1>4, <1>5, <1>6, <1>7, <1>8, <1>9, <1>10 DEF Next, Graph, Page

\* The actions of an interrupt are those of the message.
LEMMA SameActions ==
  ASSUME graph'.batch = graph.batch
  PROVE  Actions' = Actions /\ FirstAction' = FirstAction
BY DEF Actions, FirstAction

\* A file that was published stays so.
LEMMA RanStays ==
  ASSUME IInv, Next, NEW k \in Calls, call[k] = "ran"
  PROVE  call'[k] = "ran"
<1> USE DEF IInv, TypeOK
<1>1. ASSUME UNCHANGED call PROVE call'[k] = "ran"
  BY <1>1
<1>2. ASSUME NEW c \in Calls, RequestCall(c) PROVE call'[k] = "ran"
  BY <1>2 DEF RequestCall
<1>3. ASSUME NEW c \in Calls, NEW outcome, ToolAnswers(c, outcome) PROVE call'[k] = "ran"
  BY <1>3 DEF ToolAnswers
<1>4. ASSUME NEW decision, Decide(decision) PROVE call'[k] = "ran"
  <2>1. \A i \in Actions : graph.batch[i] # k
    <3>1. \A i \in Actions : graph.batch[i] \in ToSet(graph.batch)
      BY DEF Actions, ToSet
    <3>2. graph.at = "interrupted"
      BY <1>4 DEF Decide
    <3>3. QED
      BY <3>1, <3>2 DEF BatchFollows
  <2>2. call' = call \/ call' = [c \in Calls |-> IF \E i \in Actions : graph.batch[i] = c
                                                 THEN decision ELSE call[c]]
    BY <1>4 DEF Decide
  <2>3. QED
    BY <2>1, <2>2
<1>5. QED
  BY <1>1, <1>2, <1>3, <1>4
     DEF Next, Graph, Page, Token, RunTools, Interrupt, ToolsDone, EndTurn, GraphFails,
         HandleEvent, StreamEnds, ConnectionLost

\* In a stream that is open nothing on its way is the last of it.
LEMMA OpenStream ==
  ASSUME EventsFit, StreamFollows, network.open
  PROVE  /\ \A e \in InFlight : e.type \notin {"confirmation_required", "done", "error"}
         /\ page.card = None /\ ~page.over /\ graph.at \in {"model", "tools"}
<1>1. graph.at \in {"model", "tools"}
  BY DEF StreamFollows
<1>2. QED
  BY <1>1 DEF EventsFit, Fits, StreamFollows

\* An open stream keeps what its events say when the new ones do.
LEMMA EventsAdded ==
  ASSUME IInv, Next, network.open, NEW new,
         InFlight' \subseteq InFlight \cup new, \A e \in new : Fits(e)'
  PROVE  EventsFit'
<1>1. ASSUME NEW e \in InFlight PROVE Fits(e)'
  <2>1. e.type \notin {"confirmation_required", "done", "error"}
    BY OpenStream DEF IInv
  <2>2. Fits(e)
    BY DEF IInv, EventsFit
  <2>3. e.type = "artifact_created" => call'[e.id] = "ran"
    BY <2>2, RanStays DEF Fits
  <2>4. QED
    BY <2>1, <2>2, <2>3 DEF Fits
<1>2. QED
  BY <1>1 DEF EventsFit

\* What an event says stays so while it is on its way.
LEMMA EventsFitStep ==
  ASSUME IInv, Next
  PROVE  EventsFit'
<1>0. TypeOK /\ EventsFit
  BY DEF IInv
<1>e. \A type \in EventTypes : /\ Event(type, None) \in Events
                               /\ Event(type, None).type = type
  BY EventFits
<1>1. CASE Token
  <2> DEFINE e == Event("token", None)
  <2>1. e \in Events /\ e.type = "token"
    BY <1>e DEF EventTypes
  <2> HIDE DEF e
  <2>2. <<e>> \in Seq(Events) /\ ToSet(<<e>>) = {e}
    BY <1>0, <2>1, AppendedEvent DEF TypeOK
  <2>3. network.open /\ Send(<<e>>)
    BY <1>1 DEF Token, e
  <2>4. InFlight' = InFlight \cup {e}
    BY <2>2, <2>3, <1>0, Sends
  <2> DEFINE new == {e}
  <2>5. InFlight' \subseteq InFlight \cup new /\ \A x \in new : Fits(x)'
    BY <2>1, <2>4 DEF Fits
  <2> HIDE DEF new
  <2>6. QED
    BY ONLY <2>3, <2>4, <2>5, EventsAdded, IInv, Next
<1>2. CASE \E k \in Calls : RequestCall(k)
  <2>1. PICK k \in Calls : RequestCall(k)
    BY <1>2
  <2> DEFINE e == Event("tool_start", k)
  <2>2. e \in Events /\ e.type = "tool_start" /\ e.id = k
    BY EventFits DEF EventTypes
  <2> HIDE DEF e
  <2>3. <<e>> \in Seq(Events) /\ ToSet(<<e>>) = {e}
    BY <1>0, <2>2, AppendedEvent DEF TypeOK
  <2>4. network.open /\ (Send(<<e>>) \/ UNCHANGED network)
    BY <2>1 DEF RequestCall, e
  <2>5. InFlight' \subseteq InFlight \cup {e}
    <3>1. CASE Send(<<e>>)
      BY <2>3, <3>1, <1>0, Sends
    <3>2. CASE UNCHANGED network
      BY <3>2 DEF InFlight
    <3>3. QED
      BY <2>4, <3>1, <3>2
  <2> DEFINE new == {e}
  <2>6. InFlight' \subseteq InFlight \cup new /\ \A x \in new : Fits(x)'
    BY <2>2, <2>5 DEF Fits
  <2> HIDE DEF new
  <2>7. QED
    BY ONLY <2>4, <2>5, <2>6, EventsAdded, IInv, Next
<1>3. CASE RunTools \/ ToolsDone
  <2> DEFINE new == {}
  <2>1. network.open /\ InFlight' \subseteq InFlight \cup new /\ \A e \in new : Fits(e)'
    BY <1>3 DEF RunTools, ToolsDone, InFlight
  <2> HIDE DEF new
  <2>2. QED
    BY ONLY <2>1, EventsAdded, IInv, Next
<1>4. CASE Interrupt
  <2> DEFINE e == Event("confirmation_required", FirstAction)
  <2>1. /\ network.open /\ SendLast(e) /\ Actions # {}
        /\ graph' = [graph EXCEPT !.at = "interrupted"]
    BY <1>4 DEF Interrupt
  <2>2. e \in Events /\ e.type = "confirmation_required" /\ e.id = FirstAction
    BY <1>0, <2>1, FirstActionIsCall, EventFits DEF EventTypes, TypeOK
  <2>3. graph'.at = "interrupted" /\ FirstAction' = FirstAction
    BY <1>0, <2>1, SameActions DEF TypeOK
  <2> HIDE DEF e
  <2>4. InFlight' = InFlight \cup {e}
    BY <2>1, <2>2, <1>0, SendsLast
  <2> DEFINE new == {e}
  <2>5. InFlight' \subseteq InFlight \cup new /\ \A x \in new : Fits(x)'
    BY <2>2, <2>3, <2>4 DEF Fits
  <2> HIDE DEF new
  <2>6. QED
    BY ONLY <2>1, <2>4, <2>5, EventsAdded, IInv, Next
<1>5. CASE \E k \in Calls, outcome \in {"ran", "refused"} : ToolAnswers(k, outcome)
  <2>1. PICK k \in Calls, outcome \in {"ran", "refused"} : ToolAnswers(k, outcome)
    BY <1>5
  <2> DEFINE new == ToSet(ResultEvents(k, outcome))
  <2>2. network.open /\ Send(ResultEvents(k, outcome)) /\ call' = [call EXCEPT ![k] = outcome]
    BY <2>1 DEF ToolAnswers
  <2>3. InFlight' = InFlight \cup new
    BY <2>2, ResultFits, <1>0, Sends
  <2>4. ASSUME NEW e \in new
        PROVE  \/ e.type = "artifact_created" /\ e.id = k /\ call'[k] = "ran"
               \/ e.type = "tool_end"
    <3>1. \/ e = Event("artifact_created", k) /\ outcome = "ran"
          \/ e = Event("tool_end", Completed(k))
      BY <1>0, ResultFits
    <3>2. outcome = "ran" => call'[k] = "ran"
      BY <1>0, <2>2 DEF TypeOK
    <3>3. QED
      BY <3>1, <3>2 DEF Event
  <2> HIDE DEF new
  <2>5. \A e \in new : Fits(e)'
    BY <2>4 DEF Fits
  <2>6. QED
    BY ONLY <2>2, <2>3, <2>5, EventsAdded, IInv, Next
<1>6. CASE EndTurn
  <2> DEFINE e == Event("done", None)
  <2>1. e \in Events /\ e.type = "done"
    BY <1>e DEF EventTypes
  <2>2. network.open /\ SendLast(e) /\ graph'.at = "ended"
    BY <1>0, <1>6 DEF EndTurn, TypeOK
  <2> HIDE DEF e
  <2>3. InFlight' = InFlight \cup {e}
    BY <2>1, <2>2, <1>0, SendsLast
  <2> DEFINE new == {e}
  <2>4. InFlight' \subseteq InFlight \cup new /\ \A x \in new : Fits(x)'
    BY <2>1, <2>2, <2>3 DEF Fits
  <2> HIDE DEF new
  <2>5. QED
    BY ONLY <2>2, <2>3, <2>4, EventsAdded, IInv, Next
<1>7. CASE GraphFails
  <2> DEFINE e == Event("error", None)
  <2>1. e \in Events /\ e.type = "error"
    BY <1>e DEF EventTypes
  <2>2. network.open /\ SendLast(e) /\ graph'.at = "failed"
    BY <1>0, <1>7 DEF GraphFails, TypeOK
  <2> HIDE DEF e
  <2>3. InFlight' = InFlight \cup {e}
    BY <2>1, <2>2, <1>0, SendsLast
  <2> DEFINE new == {e}
  <2>4. InFlight' \subseteq InFlight \cup new /\ \A x \in new : Fits(x)'
    BY <2>1, <2>2, <2>3 DEF Fits
  <2> HIDE DEF new
  <2>5. QED
    BY ONLY <2>2, <2>3, <2>4, EventsAdded, IInv, Next
<1>8. CASE HandleEvent \/ StreamEnds
  <2>1. graph' = graph /\ call' = call /\ InFlight' \subseteq InFlight
    <3>1. CASE HandleEvent
      <4>1. network.events # <<>> /\ network' = [network EXCEPT !.events = Tail(network.events)]
        BY <3>1 DEF HandleEvent
      <4>2. network'.events = Tail(network.events)
        BY <1>0, <4>1 DEF TypeOK
      <4>3. ToSet(Tail(network.events)) \subseteq ToSet(network.events)
        BY <1>0, <4>1, Taken DEF TypeOK
      <4>4. QED
        BY <3>1, <4>2, <4>3 DEF HandleEvent, InFlight
    <3>2. CASE StreamEnds
      BY <3>2 DEF StreamEnds, InFlight
    <3>3. QED
      BY <1>8, <3>1, <3>2
  <2>2. FirstAction' = FirstAction
    BY <2>1, SameActions
  <2>3. QED
    BY <1>0, <2>1, <2>2 DEF EventsFit, Fits
<1>9. CASE ConnectionLost
  BY <1>9 DEF ConnectionLost, EventsFit, InFlight, ToSet
<1>10. CASE \E decision \in {"approved", "rejected"} : Decide(decision)
  <2> DEFINE e == Event("error", None)
  <2>1. e \in Events /\ e.type = "error"
    BY <1>e DEF EventTypes
  <2>2. \/ graph'.at = "failed" /\ network'.events = <<e>>
        \/ network'.events = <<>>
    <3>1. PICK decision \in {"approved", "rejected"} : Decide(decision)
      BY <1>10
    <3>2. \/ graph' = [graph EXCEPT !.at = "failed"]
             /\ network' = [events |-> <<e>>, open |-> FALSE]
          \/ network' = [events |-> <<>>, open |-> TRUE]
      BY <3>1 DEF Decide
    <3> HIDE DEF e
    <3>3. QED
      BY <1>0, <3>2 DEF TypeOK
  <2> HIDE DEF e
  <2>3. ToSet(<<e>>) = {e} /\ ToSet(<<>>) = {}
    BY DEF ToSet
  <2>4. QED
    BY <2>1, <2>2, <2>3 DEF EventsFit, Fits, InFlight
<1>11. QED
  BY <1>1, <1>2, <1>3, <1>4, <1>5, <1>6, <1>7, <1>8, <1>9, <1>10 DEF Next, Graph, Page

\* done is the last event of its stream.
LEMMA DoneIsLastStep ==
  ASSUME IInv, Next
  PROVE  DoneIsLast'
<1>0. TypeOK /\ EventsFit /\ StreamFollows /\ DoneIsLast /\ network.events \in Seq(Events)
  BY DEF IInv, TypeOK
<1>e. \A type \in EventTypes : /\ Event(type, None) \in Events
                               /\ Event(type, None).type = type
  BY EventFits
<1>1. ASSUME NEW new \in Seq(Events), network.open, Send(new),
             \A e \in ToSet(new) : e.type # "done"
      PROVE  DoneIsLast'
  <2>1. InFlight' = InFlight \cup ToSet(new)
    BY <1>0, <1>1, Sends
  <2>2. \A e \in InFlight : e.type # "done"
    BY <1>0, <1>1, OpenStream
  <2>3. \A e \in InFlight' : e.type # "done"
    BY <1>1, <2>1, <2>2
  <2>4. QED
    BY <2>3 DEF DoneIsLast, InFlight, ToSet
<1>2. ASSUME NEW e \in Events, network.open, SendLast(e) PROVE DoneIsLast'
  <2>1. /\ network'.events = network.events \o <<e>>
        /\ Len(network'.events) = Len(network.events) + 1
    BY <1>0, <1>2, SendsLast
  <2>2. <<e>> \in Seq(Events) /\ DOMAIN <<e>> = {1}
    BY <1>2
  <2>3. \A i \in DOMAIN network.events : network.events[i].type # "done"
    <3>1. \A x \in InFlight : x.type # "done"
      BY <1>0, <1>2, OpenStream
    <3>2. QED
      BY <3>1 DEF InFlight, ToSet
  <2>4. ASSUME NEW i \in DOMAIN network'.events, network'.events[i].type = "done"
        PROVE  i = Len(network'.events)
    <3>1. i \in DOMAIN network.events \/ i - Len(network.events) \in DOMAIN <<e>>
      BY <1>0, <2>1, <2>2, Concatenated
    <3>2. i \notin DOMAIN network.events
      BY <1>0, <2>1, <2>2, <2>3, <2>4, Concatenated
    <3>3. i \in Nat /\ Len(network.events) \in Nat /\ i - Len(network.events) = 1
      <4>1. i \in 1 .. Len(network.events) + 1 /\ Len(network.events) \in Nat
        <5>1. DOMAIN network'.events = 1 .. Len(network.events) + Len(<<e>>)
          BY <1>0, <2>1, <2>2, Concatenated
        <5>2. Len(<<e>>) = 1
          OBVIOUS
        <5>3. QED
          BY <1>0, <5>1, <5>2, LenProperties
      <4>2. QED
        BY <2>2, <3>1, <3>2, <4>1
    <3>4. QED
      BY <2>1, <3>3
  <2>5. QED
    BY <2>4 DEF DoneIsLast
<1>3. ASSUME UNCHANGED network PROVE DoneIsLast'
  BY <1>0, <1>3 DEF DoneIsLast
<1>4. CASE Token
  <2>1. Event("token", None) \in Events /\ Event("token", None).type = "token"
    BY <1>e DEF EventTypes
  <2>2. /\ <<Event("token", None)>> \in Seq(Events)
        /\ ToSet(<<Event("token", None)>>) = {Event("token", None)}
    BY <1>0, <2>1, AppendedEvent
  <2>3. QED
    BY <1>1, <1>4, <2>1, <2>2 DEF Token
<1>5. CASE \E k \in Calls : RequestCall(k)
  <2>1. PICK k \in Calls : RequestCall(k)
    BY <1>5
  <2>2. Event("tool_start", k) \in Events /\ Event("tool_start", k).type = "tool_start"
    BY EventFits DEF EventTypes
  <2>3. /\ <<Event("tool_start", k)>> \in Seq(Events)
        /\ ToSet(<<Event("tool_start", k)>>) = {Event("tool_start", k)}
    BY <1>0, <2>2, AppendedEvent
  <2>4. network.open /\ (Send(<<Event("tool_start", k)>>) \/ UNCHANGED network)
    BY <2>1 DEF RequestCall
  <2>5. QED
    BY <1>1, <1>3, <2>2, <2>3, <2>4
<1>6. CASE \E k \in Calls, outcome \in {"ran", "refused"} : ToolAnswers(k, outcome)
  <2>1. PICK k \in Calls, outcome \in {"ran", "refused"} : ToolAnswers(k, outcome)
    BY <1>6
  <2>2. network.open /\ Send(ResultEvents(k, outcome))
    BY <2>1 DEF ToolAnswers
  <2>3. /\ ResultEvents(k, outcome) \in Seq(Events)
        /\ \A e \in ToSet(ResultEvents(k, outcome)) : e.type # "done"
    BY <1>0, ResultFits DEF Event
  <2>4. QED
    BY <1>1, <2>2, <2>3
<1>7. CASE RunTools \/ ToolsDone \/ StreamEnds
  BY <1>3, <1>7 DEF RunTools, ToolsDone, StreamEnds
<1>8. CASE Interrupt
  <2>1. Event("confirmation_required", FirstAction) \in Events
    BY <1>0, <1>8, FirstActionIsCall, EventFits DEF EventTypes, Interrupt, TypeOK
  <2>2. QED
    BY <1>2, <1>8, <2>1 DEF Interrupt
<1>9. CASE EndTurn \/ GraphFails
  <2>1. Event("done", None) \in Events /\ Event("error", None) \in Events
    BY <1>e DEF EventTypes
  <2>2. QED
    BY <1>2, <1>9, <2>1 DEF EndTurn, GraphFails
<1>10. CASE HandleEvent
  <2> DEFINE s == network.events
  <2>1. s # <<>> /\ network'.events = Tail(s)
    BY <1>0, <1>10 DEF HandleEvent, TypeOK
  <2>2. /\ Len(s) \in Nat \ {0} /\ DOMAIN Tail(s) = 1 .. Len(s) - 1
        /\ Len(Tail(s)) = Len(s) - 1
        /\ \A i \in DOMAIN Tail(s) : i + 1 \in DOMAIN s /\ Tail(s)[i] = s[i + 1]
    BY <1>0, <2>1, Taken
  <2>3. ASSUME NEW i \in DOMAIN Tail(s), Tail(s)[i].type = "done" PROVE i = Len(Tail(s))
    <3>1. i + 1 = Len(s) /\ i \in Nat
      BY <1>0, <2>2, <2>3 DEF DoneIsLast
    <3>2. QED
      BY <2>2, <3>1
  <2>4. QED
    BY <2>1, <2>3 DEF DoneIsLast
<1>11. CASE ConnectionLost
  BY <1>11 DEF ConnectionLost, DoneIsLast
<1>12. CASE \E decision \in {"approved", "rejected"} : Decide(decision)
  <2>1. \/ network' = [events |-> <<Event("error", None)>>, open |-> FALSE]
        \/ network' = [events |-> <<>>, open |-> TRUE]
    BY <1>12 DEF Decide
  <2>2. \/ network'.events = <<Event("error", None)>>
        \/ network'.events = <<>>
    BY <2>1
  <2>3. <<Event("error", None)>>[1].type # "done"
    BY DEF Event
  <2>4. QED
    BY <2>2, <2>3 DEF DoneIsLast
<1>13. QED
  BY <1>4, <1>5, <1>6, <1>7, <1>8, <1>9, <1>10, <1>11, <1>12 DEF Next, Graph, Page

\* The stream, the card and the reply follow the graph.
LEMMA StreamFollowsStep ==
  ASSUME IInv, Next
  PROVE  StreamFollows'
<1>0. /\ TypeOK /\ EventsFit /\ StreamFollows /\ DoneIsLast
      /\ graph \in [at : {"model", "tools", "interrupted", "ended", "failed"},
                    batch : Seq(Calls)]
      /\ network \in [events : Seq(Events), open : BOOLEAN] /\ page \in Pages
  BY DEF IInv, TypeOK
<1>1. ASSUME network.open, UNCHANGED page, network'.open => network.open,
             graph'.at \in {"model", "tools"} \/ ~network'.open,
             graph'.at = "interrupted" => Actions' # {},
             graph'.at = "ended" => stored' = answer'
      PROVE  StreamFollows'
  <2>1. page.card = None /\ ~page.over
    BY <1>0, <1>1, OpenStream
  <2>2. QED
    BY <1>1, <2>1 DEF StreamFollows
<1>2. CASE Token
  <2>1. network' = [network EXCEPT !.events = network.events \o <<Event("token", None)>>]
    BY <1>2 DEF Token, Send
  <2>2. QED
    BY <1>0, <1>1, <1>2, <2>1 DEF Token
<1>3. CASE \E k \in Calls : RequestCall(k)
  <2>1. PICK k \in Calls : RequestCall(k)
    BY <1>3
  <2>2. \/ network' = network
        \/ network' = [network EXCEPT !.events = network.events \o <<Event("tool_start", k)>>]
    BY <2>1 DEF RequestCall, Send
  <2>3. network'.open = network.open
    BY <1>0, <2>2
  <2>4. graph'.at = "model" /\ network.open /\ UNCHANGED page
    BY <1>0, <2>1 DEF RequestCall
  <2>5. QED
    BY <1>1, <2>3, <2>4
<1>4. CASE RunTools \/ ToolsDone
  <2>1. graph'.at \in {"model", "tools"} /\ network.open /\ UNCHANGED <<page, network>>
    BY <1>0, <1>4 DEF RunTools, ToolsDone
  <2>2. QED
    BY <1>1, <2>1
<1>5. CASE Interrupt
  <2>1. /\ graph'.at = "interrupted" /\ graph'.batch = graph.batch /\ Actions # {}
        /\ network.open /\ UNCHANGED page /\ ~network'.open
    BY <1>0, <1>5 DEF Interrupt, SendLast
  <2>2. Actions' # {}
    BY <2>1, SameActions
  <2>3. QED
    BY <1>1, <2>1, <2>2
<1>6. CASE \E k \in Calls, outcome \in {"ran", "refused"} : ToolAnswers(k, outcome)
  <2>1. PICK k \in Calls, outcome \in {"ran", "refused"} : ToolAnswers(k, outcome)
    BY <1>6
  <2>2. network' = [network EXCEPT !.events = network.events \o ResultEvents(k, outcome)]
    BY <2>1 DEF ToolAnswers, Send
  <2>3. /\ network'.open = network.open /\ network.open /\ UNCHANGED page
        /\ graph'.at = "tools"
    BY <1>0, <2>1, <2>2 DEF ToolAnswers
  <2>4. QED
    BY <1>1, <2>3
<1>7. CASE EndTurn
  <2>1. /\ graph'.at = "ended" /\ stored' = answer' /\ network.open /\ UNCHANGED page
        /\ ~network'.open
    BY <1>0, <1>7 DEF EndTurn, SendLast
  <2>2. QED
    BY <1>1, <2>1
<1>8. CASE GraphFails
  <2>1. graph'.at = "failed" /\ network.open /\ UNCHANGED page /\ ~network'.open
    BY <1>0, <1>8 DEF GraphFails, SendLast
  <2>2. QED
    BY <1>1, <2>1
<1>9. CASE HandleEvent
  <2> DEFINE e == Head(network.events)
  <2>1. /\ page.loading /\ network.events # <<>> /\ page' = Shown(page, e)
        /\ network' = [network EXCEPT !.events = Tail(network.events)]
        /\ UNCHANGED <<graph, answer, stored>>
    BY <1>9 DEF HandleEvent
  <2>2. /\ e \in Events /\ e \in InFlight
        /\ page'.over = (page.over \/ e.type = "done")
        /\ page'.card = IF e.type = "confirmation_required" THEN e.id ELSE page.card
    <3>1. /\ e \in Events /\ e \in InFlight
          /\ e.type = "token" => page.text + 1 <= MaxTokens
          /\ e.type \in {"tool_start", "artifact_created", "confirmation_required"} =>
                 e.id \in Calls
      BY <2>1, NextEventFits DEF IInv
    <3>2. QED
      BY <1>0, <2>1, <3>1, ShownFields
  <2>3. Actions' = Actions /\ FirstAction' = FirstAction /\ network'.open = network.open
    BY <1>0, <2>1, SameActions
  <2>4. page'.card # None => graph.at = "interrupted" /\ page'.card = FirstAction
    BY <1>0, <2>2 DEF StreamFollows, EventsFit, Fits
  <2>5. page'.over => graph.at = "ended" /\ network'.events = <<>>
    <3>1. ~page.over
      BY <1>0, <2>1 DEF StreamFollows
    <3>2. ASSUME e.type = "done" PROVE graph.at = "ended" /\ network'.events = <<>>
      <4>1. network'.events = Tail(network.events)
        BY <1>0, <2>1
      <4>2. /\ network.events[1] = e /\ 1 \in DOMAIN network.events
            /\ Tail(network.events) \in Seq(Events)
            /\ Len(Tail(network.events)) = Len(network.events) - 1
        BY <1>0, <2>1, Taken
      <4>3. Len(network.events) = 1
        BY <1>0, <3>2, <4>2 DEF DoneIsLast
      <4>4. Tail(network.events) = <<>>
        <5>1. \A s \in Seq(Events) : s # <<>> => Len(s) \in Nat \ {0}
          BY EmptySeq
        <5>2. Len(Tail(network.events)) = 0
          BY <4>2, <4>3
        <5>3. QED
          BY <4>2, <5>1, <5>2
      <4>5. QED
        BY <1>0, <2>2, <3>2, <4>1, <4>4 DEF EventsFit, Fits
    <3>3. QED
      BY <2>2, <3>1, <3>2
  <2>6. QED
    BY <1>0, <2>1, <2>3, <2>4, <2>5 DEF StreamFollows
<1>10. CASE StreamEnds \/ ConnectionLost
  <2>1. /\ \/ page' = [Finalized(page) EXCEPT !.loading = FALSE]
           \/ page' = [Finalized(page) EXCEPT !.loading = FALSE, !.text = 0]
        /\ UNCHANGED <<answer, stored>> /\ network' = [events |-> <<>>, open |-> FALSE]
        /\ graph' = IF network.open THEN [graph EXCEPT !.at = "failed"] ELSE graph
    BY <1>10 DEF StreamEnds, ConnectionLost
  <2>2. page'.card = page.card /\ page'.over = page.over
    <3>1. Finalized(page).card = page.card /\ Finalized(page).over = page.over
      BY <1>0 DEF Finalized, Pages
    <3>2. Finalized(page) = [page EXCEPT !.activity = Finalized(page).activity,
                                         !.agent = Finalized(page).agent]
      BY <1>0, FinalizedFields
    <3>3. QED
      BY <1>0, <2>1, <3>1, <3>2 DEF Pages
  <2>3. Actions' = Actions /\ FirstAction' = FirstAction
    BY <1>0, <2>1, SameActions
  <2>4. CASE network.open
    <3>1. page.card = None /\ ~page.over /\ graph'.at = "failed"
      BY <1>0, <2>1, <2>4, OpenStream
    <3>2. QED
      BY <2>1, <2>2, <3>1 DEF StreamFollows
  <2>5. CASE ~network.open
    BY <1>0, <2>1, <2>2, <2>3, <2>5 DEF StreamFollows
  <2>6. QED
    BY <2>4, <2>5
<1>11. CASE \E decision \in {"approved", "rejected"} : Decide(decision)
  <2>1. PICK decision \in {"approved", "rejected"} : Decide(decision)
    BY <1>11
  <2>2. /\ page' = NewPage
        /\ \/ /\ graph' = [graph EXCEPT !.at = "failed"]
              /\ network' = [events |-> <<Event("error", None)>>, open |-> FALSE]
           \/ /\ graph' = [graph EXCEPT !.at = "tools"]
              /\ network' = [events |-> <<>>, open |-> TRUE]
    BY <2>1 DEF Decide
  <2>3. /\ graph'.at \in {"tools", "failed"} /\ (network'.open => graph'.at = "tools")
        /\ page'.card = None /\ ~page'.over
    BY <1>0, <2>2 DEF NewPage
  <2>4. QED
    BY <2>3 DEF StreamFollows
<1>12. QED
  BY <1>2, <1>3, <1>4, <1>5, <1>6, <1>7, <1>8, <1>9, <1>10, <1>11 DEF Next, Graph, Page

\* The calls of a message that is not complete wait, and no gated one runs unanswered.
LEMMA BatchFollowsStep ==
  ASSUME IInv, Next
  PROVE  BatchFollows'
<1>0. /\ TypeOK /\ BatchFollows /\ StreamFollows
      /\ graph \in [at : {"model", "tools", "interrupted", "ended", "failed"},
                    batch : Seq(Calls)]
      /\ call \in [Calls -> {"unused", "requested", "approved", "rejected", "ran", "refused"}]
      /\ \A k \in ToSet(graph.batch) : k \in Calls /\ \E i \in DOMAIN graph.batch : k = graph.batch[i]
  <2>1. IInv => TypeOK /\ BatchFollows /\ StreamFollows
    BY DEF IInv
  <2>2. graph.batch \in Seq(Calls) /\ DOMAIN graph.batch = 1 .. Len(graph.batch)
    BY <2>1, LenProperties DEF TypeOK
  <2>3. \A i \in DOMAIN graph.batch : graph.batch[i] \in Calls
    BY <2>2, ElementOfSeq
  <2>4. QED
    BY <2>1, <2>3 DEF TypeOK, ToSet
<1>1. ASSUME UNCHANGED <<graph, call>> PROVE BatchFollows'
  BY <1>0, <1>1 DEF BatchFollows
<1>2. CASE \E k \in Calls : RequestCall(k)
  <2>1. PICK k \in Calls : RequestCall(k)
    BY <1>2
  <2>2. /\ graph.at = "model" /\ graph' = [graph EXCEPT !.batch = Append(graph.batch, k)]
        /\ call' = [call EXCEPT ![k] = "requested"]
    BY <2>1 DEF RequestCall
  <2>3. ToSet(graph'.batch) = ToSet(graph.batch) \cup {k} /\ graph'.at = "model"
    BY <1>0, <2>2, Appended
  <2>4. \A c \in ToSet(graph'.batch) : call'[c] = "requested"
    BY <1>0, <2>2, <2>3 DEF BatchFollows
  <2>5. QED
    BY <2>3, <2>4 DEF BatchFollows
<1>3. CASE RunTools
  <2>1. graph'.at = "tools" /\ graph'.batch = graph.batch /\ Actions = {}
    BY <1>0, <1>3 DEF RunTools
  <2>2. \A k \in ToSet(graph.batch) : ToolOf[k] \notin Gated
    BY <1>0, <2>1 DEF Actions
  <2>3. QED
    BY <2>1, <2>2 DEF BatchFollows
<1>4. CASE Interrupt
  <2>1. /\ graph'.at = "interrupted" /\ graph'.batch = graph.batch /\ graph.at = "model"
        /\ call' = call
    BY <1>0, <1>4 DEF Interrupt
  <2>2. QED
    BY <1>0, <2>1 DEF BatchFollows
<1>5. CASE \E k \in Calls, outcome \in {"ran", "refused"} : ToolAnswers(k, outcome)
  <2>1. PICK k \in Calls, outcome \in {"ran", "refused"} : ToolAnswers(k, outcome)
    BY <1>5
  <2>2. graph.at = "tools" /\ graph' = graph /\ call' = [call EXCEPT ![k] = outcome]
    BY <2>1 DEF ToolAnswers
  <2>3. \A c \in Calls : call[c] # "requested" => call'[c] # "requested"
    BY <1>0, <2>2
  <2>4. QED
    BY <1>0, <2>2, <2>3 DEF BatchFollows
<1>6. CASE ToolsDone
  BY <1>6 DEF ToolsDone, BatchFollows, ToSet
<1>7. CASE EndTurn \/ GraphFails
  <2>1. graph'.at \in {"ended", "failed"}
    BY <1>0, <1>7 DEF EndTurn, GraphFails
  <2>2. QED
    BY <2>1 DEF BatchFollows
<1>8. CASE HandleEvent \/ StreamEnds
  BY <1>1, <1>8 DEF HandleEvent, StreamEnds
<1>9. CASE ConnectionLost
  <2>1. call' = call /\ (graph' = graph \/ graph'.at = "failed")
    BY <1>0, <1>9 DEF ConnectionLost
  <2>2. CASE graph' = graph
    BY <1>1, <2>1, <2>2
  <2>3. CASE graph'.at = "failed"
    BY <2>3 DEF BatchFollows
  <2>4. QED
    BY <2>1, <2>2, <2>3
<1>10. CASE \E decision \in {"approved", "rejected"} : Decide(decision)
  <2>1. PICK decision \in {"approved", "rejected"} : Decide(decision)
    BY <1>10
  <2>2. \/ graph' = [graph EXCEPT !.at = "failed"]
        \/ /\ graph' = [graph EXCEPT !.at = "tools"]
           /\ call' = [k \in Calls |-> IF \E i \in Actions : graph.batch[i] = k
                                        THEN decision ELSE call[k]]
    BY <2>1 DEF Decide
  <2>3. CASE graph' = [graph EXCEPT !.at = "failed"]
    <3>1. graph'.at = "failed"
      BY <1>0, <2>3
    <3>2. QED
      BY <3>1 DEF BatchFollows
  <2>4. CASE /\ graph' = [graph EXCEPT !.at = "tools"]
             /\ call' = [k \in Calls |-> IF \E i \in Actions : graph.batch[i] = k
                                          THEN decision ELSE call[k]]
    <3>1. graph'.at = "tools" /\ graph'.batch = graph.batch
      BY <1>0, <2>4
    <3>2. ASSUME NEW k \in ToSet(graph.batch), ToolOf[k] \in Gated
          PROVE  call'[k] # "requested"
      <4>1. \E i \in Actions : graph.batch[i] = k
        BY <1>0, <3>2 DEF Actions
      <4>2. QED
        BY <1>0, <2>4, <4>1
    <3>3. QED
      BY <3>1, <3>2 DEF BatchFollows
  <2>5. QED
    BY <2>2, <2>3, <2>4
<1>11. CASE Token
  BY <1>1, <1>11 DEF Token
<1>12. QED
  BY <1>2, <1>3, <1>4, <1>5, <1>6, <1>7, <1>8, <1>9, <1>10, <1>11 DEF Next, Graph, Page

\* A result that brings its id is taken for its own call.
LEMMA OwnResult ==
  ASSUME IInv, NEW k \in Calls, identified, graph.at = "tools", k \in ToSet(graph.batch),
         call[k] \in Unanswered
  PROVE  Completed(k) = k
<1>1. ToolOf[k] \in Tools
  BY DEF Tools
<1>2. pending[ToolOf[k]] = <<>> \/ k \in ToSet(pending[ToolOf[k]])
  BY <1>1 DEF IInv, IdsFollow
<1>3. QED
  BY <1>2 DEF Completed, ToSet

\* The lists hold the ids of the calls that still wait for a result.
LEMMA IdsFollowStep ==
  ASSUME IInv, Next
  PROVE  IdsFollow'
<1>0. /\ TypeOK /\ IdsFollow
      /\ graph \in [at : {"model", "tools", "interrupted", "ended", "failed"},
                    batch : Seq(Calls)]
      /\ call \in [Calls -> {"unused", "requested", "approved", "rejected", "ran", "refused"}]
      /\ pending \in [Tools -> Seq(Calls)] /\ \A t \in Tools : IsInjective(pending[t])
      /\ \A k \in ToSet(graph.batch) : k \in Calls /\ ToolOf[k] \in Tools
  <2>1. IInv => TypeOK /\ IdsFollow
    BY DEF IInv
  <2>2. graph.batch \in Seq(Calls)
    BY <2>1 DEF TypeOK
  <2>3. \A i \in DOMAIN graph.batch : graph.batch[i] \in Calls
    BY <2>2, ElementOfSeq, LenProperties
  <2>4. QED
    BY <2>1, <2>3 DEF TypeOK, ToSet, Tools
<1>1. ASSUME UNCHANGED <<identified, graph, call, pending>> PROVE IdsFollow'
  BY <1>0, <1>1 DEF IdsFollow
<1>2. ASSUME graph'.at \notin {"model", "tools"} PROVE IdsFollow'
  BY <1>2 DEF IdsFollow
<1>3. CASE \E k \in Calls : RequestCall(k)
  <2>1. PICK k \in Calls : RequestCall(k)
    BY <1>3
  <2>2. /\ graph.at = "model" /\ graph' = [graph EXCEPT !.batch = Append(graph.batch, k)]
        /\ pending' = [pending EXCEPT ![ToolOf[k]] = Append(pending[ToolOf[k]], k)]
        /\ identified' = identified
    BY <2>1 DEF RequestCall, Added
  <2>3. ToSet(graph'.batch) = ToSet(graph.batch) \cup {k} /\ graph'.at = "model"
    BY <1>0, <2>2, Appended
  <2>4. ToolOf[k] \in Tools /\ pending[ToolOf[k]] \in Seq(Calls)
    BY <1>0 DEF Tools
  <2>5. ToSet(Append(pending[ToolOf[k]], k)) = ToSet(pending[ToolOf[k]]) \cup {k}
    BY <2>4, Appended
  <2>6. \A t \in Tools : ToSet(pending[t]) \subseteq ToSet(pending'[t])
    BY <1>0, <2>2, <2>4, <2>5
  <2>7. k \in ToSet(pending'[ToolOf[k]])
    BY <1>0, <2>2, <2>4, <2>5
  <2>8. QED
    BY <1>0, <2>2, <2>3, <2>6, <2>7 DEF IdsFollow
<1>4. CASE RunTools
  <2>1. /\ graph'.at = "tools" /\ graph'.batch = graph.batch /\ graph.at = "model"
        /\ UNCHANGED <<identified, pending>>
    BY <1>0, <1>4 DEF RunTools
  <2>2. QED
    BY <1>0, <2>1 DEF IdsFollow
<1>5. CASE \E k \in Calls, outcome \in {"ran", "refused"} : ToolAnswers(k, outcome)
  <2>1. PICK k \in Calls, outcome \in {"ran", "refused"} : ToolAnswers(k, outcome)
    BY <1>5
  <2>2. /\ graph.at = "tools" /\ UNCHANGED <<identified, graph>>
        /\ k \in ToSet(graph.batch) /\ call[k] \in Unanswered
        /\ call' = [call EXCEPT ![k] = outcome]
        /\ pending' = [pending EXCEPT ![ToolOf[k]] =
                           Without(pending[ToolOf[k]], Completed(k))]
    BY <2>1 DEF ToolAnswers, Unanswered
  <2>3. ToolOf[k] \in Tools /\ pending[ToolOf[k]] \in Seq(Calls)
    BY <1>0 DEF Tools
  <2>4. ASSUME identified, \A t \in Tools : pending[t] = <<>>
        PROVE  \A t \in Tools : pending'[t] = <<>>
    <3>1. Without(<<>>, Completed(k)) = <<>>
      BY DEF Without, ToSet
    <3>2. QED
      BY <1>0, <2>2, <2>3, <2>4, <3>1
  <2>5. ASSUME identified,
               \A c \in ToSet(graph.batch) :
                   call[c] \in Unanswered => c \in ToSet(pending[ToolOf[c]]),
               NEW c \in ToSet(graph.batch), call'[c] \in Unanswered
        PROVE  c \in ToSet(pending'[ToolOf[c]])
    <3>1. Completed(k) = k
      BY <2>2, <2>5, OwnResult
    <3>2. ToSet(Without(pending[ToolOf[k]], k)) = ToSet(pending[ToolOf[k]]) \ {k}
      BY <1>0, <2>3, WithoutFits
    <3>3. c # k /\ call'[c] = call[c]
      BY <1>0, <2>2, <2>5 DEF Unanswered
    <3>4. c \in ToSet(pending[ToolOf[c]]) /\ ToolOf[c] \in Tools
      BY <1>0, <2>5, <3>3
    <3>5. CASE ToolOf[c] = ToolOf[k]
      BY <1>0, <2>2, <2>3, <3>1, <3>2, <3>3, <3>4, <3>5
    <3>6. CASE ToolOf[c] # ToolOf[k]
      BY <1>0, <2>2, <3>4, <3>6
    <3>7. QED
      BY <3>5, <3>6
  <2>6. QED
    BY <1>0, <2>2, <2>4, <2>5 DEF IdsFollow
<1>6. CASE ToolsDone
  <2>1. graph'.at = "model" /\ graph'.batch = <<>>
    BY <1>6 DEF ToolsDone
  <2>2. QED
    BY <2>1 DEF IdsFollow, ToSet
<1>7. CASE Interrupt \/ EndTurn \/ GraphFails
  <2>1. graph'.at \in {"interrupted", "ended", "failed"}
    BY <1>0, <1>7 DEF Interrupt, EndTurn, GraphFails
  <2>2. QED
    BY <1>2, <2>1
<1>8. CASE Token \/ HandleEvent \/ StreamEnds
  BY <1>1, <1>8 DEF Token, HandleEvent, StreamEnds
<1>9. CASE ConnectionLost
  <2>1. /\ UNCHANGED <<identified, call, pending>>
        /\ graph' = graph \/ graph'.at = "failed"
    BY <1>0, <1>9 DEF ConnectionLost
  <2>2. QED
    BY <1>1, <1>2, <2>1
<1>10. CASE \E decision \in {"approved", "rejected"} : Decide(decision)
  <2>1. /\ pending' = [t \in Tools |-> <<>>]
        /\ graph' = [graph EXCEPT !.at = "failed"] \/ graph' = [graph EXCEPT !.at = "tools"]
    BY <1>10 DEF Decide
  <2>2. graph'.at \in {"failed", "tools"} /\ \A t \in Tools : pending'[t] = <<>>
    BY <1>0, <2>1
  <2>3. QED
    BY <2>2 DEF IdsFollow
<1>11. QED
  BY <1>3, <1>4, <1>5, <1>6, <1>7, <1>8, <1>9, <1>10 DEF Next, Graph, Page

\* An interrupt with one action has the card's call for it.
LEMMA SoleAction ==
  ASSUME TypeOK, StreamFollows, page.card # None, Cardinality(Actions) = 1
  PROVE  \A i \in Actions : graph.batch[i] = page.card
<1>1. graph.batch \in Seq(Calls) /\ graph.at = "interrupted" /\ page.card = FirstAction
  BY DEF TypeOK, StreamFollows
<1>2. IsFiniteSet(Actions)
  <2>1. Actions \subseteq 1 .. Len(graph.batch) /\ Len(graph.batch) \in Nat
    BY <1>1, LenProperties DEF Actions
  <2>2. IsFiniteSet(1 .. Len(graph.batch))
    BY <2>1, FS_Interval
  <2>3. QED
    BY <2>1, <2>2, FS_Subset
<1>3. PICK x : Actions = {x}
  BY <1>2, FS_Singleton
<1>4. PICK i \in Actions : FirstAction = graph.batch[i]
  BY <1>1, <1>3, FirstActionIsCall
<1>5. QED
  BY <1>1, <1>3, <1>4

\* What was approved has an approved card, and only that runs of the gated calls.
LEMMA ApprovedStep ==
  ASSUME IInv, Next
  PROVE  ApprovedFirst' /\ UndecidedNeverRuns'
<1>0. /\ TypeOK /\ StreamFollows /\ BatchFollows /\ ApprovedFirst /\ UndecidedNeverRuns
      /\ call \in [Calls -> {"unused", "requested", "approved", "rejected", "ran", "refused"}]
      /\ approved \subseteq Calls
  BY DEF IInv, TypeOK
<1>1. ASSUME UNCHANGED call, approved \subseteq approved'
      PROVE  ApprovedFirst' /\ UndecidedNeverRuns'
  BY <1>0, <1>1 DEF ApprovedFirst, UndecidedNeverRuns
<1>2. CASE \E k \in Calls : RequestCall(k)
  <2>1. PICK k \in Calls : RequestCall(k)
    BY <1>2
  <2>2. call' = [call EXCEPT ![k] = "requested"] /\ approved' = approved
    BY <2>1 DEF RequestCall
  <2>3. QED
    BY <1>0, <2>2 DEF ApprovedFirst, UndecidedNeverRuns
<1>3. CASE \E k \in Calls, outcome \in {"ran", "refused"} : ToolAnswers(k, outcome)
  <2>1. PICK k \in Calls, outcome \in {"ran", "refused"} : ToolAnswers(k, outcome)
    BY <1>3
  <2>2. /\ graph.at = "tools" /\ k \in ToSet(graph.batch) /\ approved' = approved
        /\ call[k] \in {"requested", "approved", "rejected"}
        /\ call[k] = "rejected" => outcome = "refused"
        /\ call' = [call EXCEPT ![k] = outcome]
    BY <2>1 DEF ToolAnswers
  <2>3. outcome = "ran" /\ ToolOf[k] \in Gated => k \in approved
    BY <1>0, <2>2 DEF BatchFollows, ApprovedFirst
  <2>4. ASSUME NEW c \in Calls, c # k PROVE call'[c] = call[c]
    BY <1>0, <2>2, <2>4
  <2>5. call'[k] = outcome
    BY <1>0, <2>2
  <2>6. QED
    BY <1>0, <2>2, <2>3, <2>4, <2>5 DEF ApprovedFirst, UndecidedNeverRuns
<1>4. CASE \E decision \in {"approved", "rejected"} : Decide(decision)
  <2>1. PICK decision \in {"approved", "rejected"} : Decide(decision)
    BY <1>4
  <2>2. /\ page.card # None
        /\ approved' = IF decision = "approved" THEN approved \cup {page.card} ELSE approved
        /\ \/ call' = call
           \/ /\ Cardinality(Actions) = 1
              /\ call' = [k \in Calls |-> IF \E i \in Actions : graph.batch[i] = k
                                           THEN decision ELSE call[k]]
    <3>1. Len(<<decision>>) = 1
      OBVIOUS
    <3>2. QED
      BY <2>1, <3>1 DEF Decide, Decisions
  <2>3. approved \subseteq approved'
    BY <2>2
  <2>4. CASE call' = call
    BY <1>1, <2>3, <2>4
  <2>5. CASE /\ Cardinality(Actions) = 1
             /\ call' = [k \in Calls |-> IF \E i \in Actions : graph.batch[i] = k
                                          THEN decision ELSE call[k]]
    <3>1. \A i \in Actions : graph.batch[i] = page.card
      BY <1>0, <2>2, <2>5, SoleAction
    <3>2. \A k \in Calls : \/ call'[k] = call[k]
                           \/ call'[k] = decision /\ k = page.card
      BY <2>5, <3>1
    <3>3. QED
      BY <1>0, <2>2, <2>3, <3>2 DEF ApprovedFirst, UndecidedNeverRuns
  <2>6. QED
    BY <2>2, <2>4, <2>5
<1>5. QED
  BY <1>1, <1>2, <1>3, <1>4
     DEF Next, Graph, Page, Token, RunTools, Interrupt, ToolsDone, EndTurn, GraphFails,
         HandleEvent, StreamEnds, ConnectionLost

\* The text of the answer is on the page or on its way.
LEMMA TextFollowsStep ==
  ASSUME IInv, Next
  PROVE  TextFollows'
<1>0. /\ TypeOK /\ EventsFit /\ StreamFollows /\ TextFollows
      /\ graph \in [at : {"model", "tools", "interrupted", "ended", "failed"},
                    batch : Seq(Calls)]
      /\ network \in [events : Seq(Events), open : BOOLEAN] /\ page \in Pages
      /\ page.text \in Nat /\ answer \in Nat /\ Tokens(network.events) \in Nat
  <2>1. IInv => TypeOK /\ EventsFit /\ StreamFollows /\ TextFollows
    BY DEF IInv
  <2>2. network.events \in Seq(Events)
    BY <2>1 DEF TypeOK
  <2>3. page.text \in Nat /\ answer \in Nat
    BY <2>1 DEF TypeOK, Pages
  <2>4. QED
    BY <2>1, <2>2, <2>3, TokensCount DEF TypeOK
<1>e. \A type \in EventTypes : /\ Event(type, None) \in Events
                               /\ Event(type, None).type = type
  BY EventFits
\* The events that are sent contain no text, and the graph did not recover from a failure.
<1>1. ASSUME Tokens(network'.events) = Tokens(network.events), UNCHANGED <<page, answer>>,
             graph.at = "failed" => graph'.at = "failed"
      PROVE  TextFollows'
  BY <1>0, <1>1 DEF TextFollows
<1>2. ASSUME NEW new \in Seq(Events), Send(new), \A e \in ToSet(new) : e.type # "token"
      PROVE  Tokens(network'.events) = Tokens(network.events)
  BY <1>0, <1>2, Sends, NoTokensSent
<1>3. ASSUME NEW e \in Events, SendLast(e), e.type # "token"
      PROVE  Tokens(network'.events) = Tokens(network.events)
  <2>1. network'.events = network.events \o <<e>>
    BY <1>0, <1>3, SendsLast
  <2>2. <<e>> \in Seq(Events) /\ ToSet(<<e>>) = {e}
    BY <1>0, AppendedEvent
  <2>3. QED
    BY <1>0, <1>3, <2>1, <2>2, NoTokensSent
<1>4. ASSUME ~page'.loading PROVE TextFollows'
  BY <1>4 DEF TextFollows
<1>5. CASE Token
  <2> DEFINE e == Event("token", None)
  <2>1. e \in Events /\ e.type = "token"
    BY <1>e DEF EventTypes
  <2>2. Send(<<e>>) /\ answer' = answer + 1 /\ UNCHANGED <<graph, page>>
    BY <1>5 DEF Token
  <2> HIDE DEF e
  <2>3. <<e>> \in Seq(Events)
    BY <1>0, <2>1, AppendedEvent
  <2>4. network'.events = network.events \o <<e>>
    BY <1>0, <2>2, <2>3, Sends
  <2>5. Tokens(network'.events) = Tokens(network.events) + 1
    BY <1>0, <2>1, <2>4, TokenSent
  <2>6. QED
    BY <1>0, <2>2, <2>5 DEF TextFollows
<1>6. CASE \E k \in Calls : RequestCall(k)
  <2>1. PICK k \in Calls : RequestCall(k)
    BY <1>6
  <2>2. Event("tool_start", k) \in Events /\ Event("tool_start", k).type = "tool_start"
    BY EventFits DEF EventTypes
  <2>3. /\ <<Event("tool_start", k)>> \in Seq(Events)
        /\ ToSet(<<Event("tool_start", k)>>) = {Event("tool_start", k)}
    BY <1>0, <2>2, AppendedEvent
  <2>4. /\ Send(<<Event("tool_start", k)>>) \/ UNCHANGED network
        /\ UNCHANGED <<page, answer>> /\ graph.at = "model"
    BY <2>1 DEF RequestCall
  <2>5. Tokens(network'.events) = Tokens(network.events)
    BY <1>2, <2>2, <2>3, <2>4
  <2>6. QED
    BY <1>1, <2>4, <2>5
<1>7. CASE \E k \in Calls, outcome \in {"ran", "refused"} : ToolAnswers(k, outcome)
  <2>1. PICK k \in Calls, outcome \in {"ran", "refused"} : ToolAnswers(k, outcome)
    BY <1>7
  <2>2. /\ Send(ResultEvents(k, outcome)) /\ UNCHANGED <<page, answer, graph>>
    BY <2>1 DEF ToolAnswers
  <2>3. /\ ResultEvents(k, outcome) \in Seq(Events)
        /\ \A e \in ToSet(ResultEvents(k, outcome)) : e.type # "token"
    BY <1>0, ResultFits DEF Event
  <2>4. QED
    BY <1>1, <1>2, <2>2, <2>3
<1>8. CASE RunTools \/ ToolsDone
  <2>1. UNCHANGED <<network, page, answer>> /\ graph.at # "failed"
    BY <1>8 DEF RunTools, ToolsDone
  <2>2. QED
    BY <1>1, <2>1
<1>9. CASE Interrupt
  <2>1. /\ Event("confirmation_required", FirstAction) \in Events
        /\ Event("confirmation_required", FirstAction).type = "confirmation_required"
    BY <1>0, <1>9, FirstActionIsCall, EventFits DEF EventTypes, Interrupt
  <2>2. UNCHANGED <<page, answer>> /\ graph.at = "model"
    BY <1>9 DEF Interrupt
  <2>3. QED
    BY <1>1, <1>3, <1>9, <2>1, <2>2 DEF Interrupt
<1>10. CASE EndTurn
  <2>1. Event("done", None) \in Events /\ Event("done", None).type = "done"
    BY <1>e DEF EventTypes
  <2>2. UNCHANGED <<page, answer>> /\ graph.at = "model"
    BY <1>10 DEF EndTurn
  <2>3. QED
    BY <1>1, <1>3, <1>10, <2>1, <2>2 DEF EndTurn
<1>11. CASE GraphFails
  <2>1. Event("error", None) \in Events /\ Event("error", None).type = "error"
    BY <1>e DEF EventTypes
  <2>2. UNCHANGED <<page, answer>> /\ graph'.at = "failed"
    BY <1>0, <1>11 DEF GraphFails
  <2>3. QED
    BY <1>1, <1>3, <1>11, <2>1, <2>2 DEF GraphFails
<1>12. CASE HandleEvent
  <2> DEFINE e == Head(network.events)
  <2>1. /\ page.loading /\ network.events # <<>> /\ page' = Shown(page, e)
        /\ network' = [network EXCEPT !.events = Tail(network.events)]
        /\ UNCHANGED <<graph, answer>>
    BY <1>12 DEF HandleEvent
  <2>2. /\ e \in Events /\ e \in InFlight
        /\ page'.text = IF e.type = "token" THEN page.text + 1
                        ELSE IF e.type = "error" THEN 0 ELSE page.text
    <3>1. /\ e \in Events /\ e \in InFlight
          /\ e.type = "token" => page.text + 1 <= MaxTokens
          /\ e.type \in {"tool_start", "artifact_created", "confirmation_required"} =>
                 e.id \in Calls
      BY <2>1, NextEventFits DEF IInv
    <3>2. QED
      BY <1>0, <2>1, <3>1, ShownFields
  <2>3. network'.events = Tail(network.events)
    BY <1>0, <2>1
  <2>4. /\ Tokens(network.events) = Tokens(Tail(network.events))
                                        + (IF e.type = "token" THEN 1 ELSE 0)
        /\ Tokens(Tail(network.events)) \in Nat
    BY <1>0, <2>1, TokensTaken, Taken, TokensCount
  <2>5. e.type = "error" => graph.at = "failed"
    BY <1>0, <2>2 DEF EventsFit, Fits
  <2> HIDE DEF e
  <2>6. /\ page.text + Tokens(network.events) <= answer
        /\ graph.at # "failed" => page.text + Tokens(network.events) = answer
    BY <1>0, <2>1 DEF TextFollows
  <2>7. /\ page'.text + Tokens(network'.events) <= answer
        /\ graph.at # "failed" => page'.text + Tokens(network'.events) = answer
    <3> DEFINE left == Tokens(Tail(network.events))
               before == Tokens(network.events)
    <3>0. Tokens(network'.events) = left /\ left \in Nat /\ before \in Nat
      BY <1>0, <2>3, <2>4
    <3> HIDE DEF left, before
    <3>1. CASE e.type = "token"
      <4>1. page'.text = page.text + 1 /\ before = left + 1
        BY <2>2, <2>4, <3>1 DEF left, before
      <4>2. page.text + before <= answer /\ (graph.at # "failed" => page.text + before = answer)
        BY <2>6 DEF before
      <4>3. page'.text + left <= answer /\ (graph.at # "failed" => page'.text + left = answer)
        <5>1. page.text \in Nat
          BY <1>0
        <5>2. page'.text + left = page.text + before
          BY ONLY <3>0, <4>1, <5>1
        <5>3. QED
          BY ONLY <4>2, <5>2
      <4>4. QED
        BY <3>0, <4>3
    <3>2. CASE e.type = "error"
      <4>1. page'.text = 0 /\ before = left /\ graph.at = "failed"
        BY <2>2, <2>4, <2>5, <3>2 DEF left, before
      <4>2. page.text + before <= answer
        BY <2>6 DEF before
      <4>3. 0 + left <= answer
        BY <1>0, <3>0, <4>1, <4>2
      <4>4. QED
        BY <3>0, <4>1, <4>3
    <3>3. CASE e.type \notin {"token", "error"}
      <4>1. page'.text = page.text /\ before = left
        BY <1>0, <2>2, <2>4, <3>0, <3>3 DEF left, before
      <4>2. QED
        BY <2>6, <3>0, <4>1 DEF before
    <3>4. QED
      BY <3>1, <3>2, <3>3
  <2>8. QED
    BY <2>1, <2>7 DEF TextFollows
<1>13. CASE StreamEnds \/ ConnectionLost
  <2>1. \/ page' = [Finalized(page) EXCEPT !.loading = FALSE]
        \/ page' = [Finalized(page) EXCEPT !.loading = FALSE, !.text = 0]
    BY <1>13 DEF StreamEnds, ConnectionLost
  <2>2. ~page'.loading
    <3>1. Finalized(page) = [page EXCEPT !.activity = Finalized(page).activity,
                                         !.agent = Finalized(page).agent]
      BY <1>0, FinalizedFields
    <3>2. QED
      BY <1>0, <2>1, <3>1 DEF Pages
  <2>3. QED
    BY <1>4, <2>2
<1>14. CASE \E decision \in {"approved", "rejected"} : Decide(decision)
  <2>1. PICK decision \in {"approved", "rejected"} : Decide(decision)
    BY <1>14
  <2>2. /\ page' = NewPage /\ answer' = 0
        /\ \/ network' = [events |-> <<Event("error", None)>>, open |-> FALSE]
           \/ network' = [events |-> <<>>, open |-> TRUE]
    BY <2>1 DEF Decide, NewAnswer
  <2>3. Tokens(network'.events) = 0
    <3>1. \/ network'.events = <<Event("error", None)>>
          \/ network'.events = <<>>
      BY <2>2
    <3>2. <<Event("error", None)>>[1].type # "token"
      BY DEF Event
    <3>3. TokenPlaces(network'.events) = {}
      BY <3>1, <3>2 DEF TokenPlaces
    <3>4. QED
      BY <3>3, FS_EmptySet DEF Tokens
  <2>4. page'.text = 0
    BY <2>2 DEF NewPage
  <2>5. QED
    BY <2>2, <2>3, <2>4 DEF TextFollows
<1>15. QED
  BY <1>5, <1>6, <1>7, <1>8, <1>9, <1>10, <1>11, <1>12, <1>13, <1>14 DEF Next, Graph, Page

\* The calls of one tool among finitely many are finitely many.
LEMMA OfToolFinite ==
  ASSUME NEW t, NEW S, IsFiniteSet(S)
  PROVE  IsFiniteSet(OfTool(t, S)) /\ Cardinality(OfTool(t, S)) \in Nat
<1>1. OfTool(t, S) \subseteq S
  BY DEF OfTool
<1>2. QED
  BY <1>1, FS_Subset, FS_CardinalityType

\* A step that settles no call on the page and finishes none keeps what is settled right.
LEMMA NothingSettled ==
  ASSUME SettledFollows, identified' = identified, Finished' = Finished,
         SettledCalls' \subseteq SettledCalls,
         page'.loading /\ page'.card = None /\ ~page'.over =>
             page.loading /\ page.card = None /\ ~page.over
  PROVE  SettledFollows'
<1>1. ASSUME page'.loading, page'.card = None, ~page'.over
      PROVE  /\ IsFiniteSet(SettledCalls')
             /\ identified' => SettledCalls' \subseteq Finished'
             /\ \A t \in Tools : Cardinality(OfTool(t, SettledCalls'))
                                     <= Cardinality(OfTool(t, Finished'))
  <2>1. /\ IsFiniteSet(SettledCalls) /\ IsFiniteSet(Finished)
        /\ identified => SettledCalls \subseteq Finished
        /\ \A t \in Tools : Cardinality(OfTool(t, SettledCalls))
                                <= Cardinality(OfTool(t, Finished))
    BY <1>1 DEF SettledFollows
  <2>2. IsFiniteSet(SettledCalls')
    BY <2>1, FS_Subset
  <2>3. ASSUME NEW t \in Tools
        PROVE  Cardinality(OfTool(t, SettledCalls')) <= Cardinality(OfTool(t, Finished'))
    <3>1. OfTool(t, SettledCalls') \subseteq OfTool(t, SettledCalls)
      BY DEF OfTool
    <3>2. /\ IsFiniteSet(OfTool(t, SettledCalls)) /\ Cardinality(OfTool(t, SettledCalls)) \in Nat
          /\ Cardinality(OfTool(t, SettledCalls')) \in Nat
          /\ Cardinality(OfTool(t, Finished)) \in Nat
      BY <2>1, <2>2, OfToolFinite
    <3>3. Cardinality(OfTool(t, SettledCalls')) <= Cardinality(OfTool(t, SettledCalls))
      BY <3>1, <3>2, FS_Subset
    <3>4. QED
      BY <2>1, <3>2, <3>3
  <2>4. QED
    BY <2>1, <2>2, <2>3
<1>2. QED
  BY <1>1 DEF SettledFollows

\* The completed calls of the page are finished ones.
LEMMA SettledFollowsStep ==
  ASSUME IInv, Next
  PROVE  SettledFollows'
<1>0. /\ TypeOK /\ EventsFit /\ StreamFollows /\ SettledFollows /\ BatchFollows
      /\ call \in [Calls -> {"unused", "requested", "approved", "rejected", "ran", "refused"}]
      /\ network \in [events : Seq(Events), open : BOOLEAN] /\ page \in Pages
  BY DEF IInv, TypeOK
<1>e. \A type \in EventTypes : /\ Event(type, None) \in Events
                               /\ Event(type, None).type = type
  BY EventFits
\* An action of the graph that sends no result.
<1>1. ASSUME UNCHANGED <<identified, page>>, Finished' = Finished,
             \A e \in InFlight' : e \in InFlight \/ e.type # "tool_end"
      PROVE  SettledFollows'
  <2>1. SettledCalls' \subseteq SettledCalls
    BY <1>1 DEF SettledCalls
  <2>2. QED
    BY <1>0, <1>1, <2>1, NothingSettled
<1>2. ASSUME NEW new \in Seq(Events), Send(new), \A e \in ToSet(new) : e.type # "tool_end"
      PROVE  \A e \in InFlight' : e \in InFlight \/ e.type # "tool_end"
  BY <1>0, <1>2, Sends
<1>3. ASSUME NEW e \in Events, SendLast(e), e.type # "tool_end"
      PROVE  \A x \in InFlight' : x \in InFlight \/ x.type # "tool_end"
  BY <1>0, <1>3, SendsLast
<1>4. CASE Token
  <2>1. Event("token", None) \in Events /\ Event("token", None).type = "token"
    BY <1>e DEF EventTypes
  <2>2. /\ <<Event("token", None)>> \in Seq(Events)
        /\ ToSet(<<Event("token", None)>>) = {Event("token", None)}
    BY <1>0, <2>1, AppendedEvent
  <2>3. /\ Send(<<Event("token", None)>>) /\ UNCHANGED <<identified, page, call>>
    BY <1>4 DEF Token
  <2>4. Finished' = Finished
    BY <2>3 DEF Finished
  <2>5. QED
    BY <1>1, <1>2, <2>1, <2>2, <2>3, <2>4
<1>5. CASE \E k \in Calls : RequestCall(k)
  <2>1. PICK k \in Calls : RequestCall(k)
    BY <1>5
  <2>2. Event("tool_start", k) \in Events /\ Event("tool_start", k).type = "tool_start"
    BY EventFits DEF EventTypes
  <2>3. /\ <<Event("tool_start", k)>> \in Seq(Events)
        /\ ToSet(<<Event("tool_start", k)>>) = {Event("tool_start", k)}
    BY <1>0, <2>2, AppendedEvent
  <2>4. /\ Send(<<Event("tool_start", k)>>) \/ UNCHANGED network
        /\ UNCHANGED <<identified, page>> /\ call[k] = "unused"
        /\ call' = [call EXCEPT ![k] = "requested"]
    BY <2>1 DEF RequestCall
  <2>5. Finished' = Finished
    BY <1>0, <2>4 DEF Finished
  <2>6. \A e \in InFlight' : e \in InFlight \/ e.type # "tool_end"
    <3>1. CASE Send(<<Event("tool_start", k)>>)
      BY <1>2, <2>2, <2>3, <3>1
    <3>2. CASE UNCHANGED network
      BY <3>2 DEF InFlight
    <3>3. QED
      BY <2>4, <3>1, <3>2
  <2>7. QED
    BY <1>1, <2>4, <2>5, <2>6
<1>6. CASE RunTools \/ ToolsDone
  <2>1. UNCHANGED <<identified, page, network, call>>
    BY <1>6 DEF RunTools, ToolsDone
  <2>2. QED
    BY <1>1, <2>1 DEF Finished, InFlight
<1>7. CASE Interrupt
  <2>1. /\ Event("confirmation_required", FirstAction) \in Events
        /\ Event("confirmation_required", FirstAction).type = "confirmation_required"
    BY <1>0, <1>7, FirstActionIsCall, EventFits DEF EventTypes, Interrupt, TypeOK
  <2>2. UNCHANGED <<identified, page, call>>
        /\ SendLast(Event("confirmation_required", FirstAction))
    BY <1>7 DEF Interrupt
  <2>3. Finished' = Finished
    BY <2>2 DEF Finished
  <2>4. QED
    BY <1>1, <1>3, <2>1, <2>2, <2>3
<1>8. CASE EndTurn \/ GraphFails
  <2>1. /\ Event("done", None) \in Events /\ Event("done", None).type = "done"
        /\ Event("error", None) \in Events /\ Event("error", None).type = "error"
    BY <1>e DEF EventTypes
  <2>2. /\ UNCHANGED <<identified, page, call>>
        /\ SendLast(Event("done", None)) \/ SendLast(Event("error", None))
    BY <1>8 DEF EndTurn, GraphFails
  <2>3. Finished' = Finished
    BY <2>2 DEF Finished
  <2>4. QED
    BY <1>1, <1>3, <2>1, <2>2, <2>3
<1>9. CASE \E k \in Calls, outcome \in {"ran", "refused"} : ToolAnswers(k, outcome)
  <2>1. PICK k \in Calls, outcome \in {"ran", "refused"} : ToolAnswers(k, outcome)
    BY <1>9
  <2> DEFINE j == Completed(k)
  <2>2. /\ UNCHANGED <<identified, page>> /\ graph.at = "tools" /\ k \in ToSet(graph.batch)
        /\ call[k] \in {"requested", "approved", "rejected"}
        /\ call' = [call EXCEPT ![k] = outcome] /\ Send(ResultEvents(k, outcome))
    BY <2>1 DEF ToolAnswers
  <2>3. Finished' = Finished \cup {k} /\ k \notin Finished
    BY <1>0, <2>2 DEF Finished
  <2>4. SettledCalls' \subseteq SettledCalls \cup {j}
    <3>1. InFlight' = InFlight \cup ToSet(ResultEvents(k, outcome))
      BY <1>0, <2>2, ResultFits, Sends
    <3>2. \A e \in ToSet(ResultEvents(k, outcome)) : e.type = "tool_end" => e.id = j
      BY <1>0, ResultFits DEF Event
    <3>3. QED
      BY <2>2, <3>1, <3>2 DEF SettledCalls
  <2>5. /\ j \in Calls \cup {None} /\ j # None => ToolOf[j] = ToolOf[k]
        /\ identified => j = k
    BY <1>0, <2>2, CompletedFits, OwnResult DEF Unanswered
  <2> HIDE DEF j
  <2>6. IsFiniteSet(Finished')
    BY <1>0, <2>3, FS_AddElement DEF SettledFollows
  <2>7. ASSUME page.loading, page.card = None, ~page.over
        PROVE  /\ IsFiniteSet(SettledCalls')
               /\ identified => SettledCalls' \subseteq Finished'
               /\ \A t \in Tools : Cardinality(OfTool(t, SettledCalls'))
                                       <= Cardinality(OfTool(t, Finished'))
    <3>1. /\ IsFiniteSet(SettledCalls) /\ IsFiniteSet(Finished)
          /\ identified => SettledCalls \subseteq Finished
          /\ \A t \in Tools : Cardinality(OfTool(t, SettledCalls))
                                  <= Cardinality(OfTool(t, Finished))
      BY <1>0, <2>7 DEF SettledFollows
    <3>2. IsFiniteSet(SettledCalls')
      BY <2>4, <3>1, OneMore
    <3>3. identified => SettledCalls' \subseteq Finished'
      BY <2>3, <2>4, <2>5, <3>1
    <3>4. ASSUME NEW t \in Tools
          PROVE  Cardinality(OfTool(t, SettledCalls')) <= Cardinality(OfTool(t, Finished'))
      <4>1. /\ IsFiniteSet(OfTool(t, SettledCalls)) /\ IsFiniteSet(OfTool(t, Finished))
            /\ Cardinality(OfTool(t, SettledCalls)) \in Nat
            /\ Cardinality(OfTool(t, Finished)) \in Nat
            /\ Cardinality(OfTool(t, SettledCalls)) <= Cardinality(OfTool(t, Finished))
        BY <3>1, OfToolFinite
      <4>2. CASE t = ToolOf[k]
        <5>1. OfTool(t, SettledCalls') \subseteq OfTool(t, SettledCalls) \cup {j}
          BY <2>4 DEF OfTool
        <5>2. /\ Cardinality(OfTool(t, SettledCalls')) \in Nat
              /\ Cardinality(OfTool(t, SettledCalls'))
                     <= Cardinality(OfTool(t, SettledCalls)) + 1
          BY <4>1, <5>1, OneMore
        <5>3. OfTool(t, Finished') = OfTool(t, Finished) \cup {k} /\ k \notin OfTool(t, Finished)
          BY <2>3, <4>2 DEF OfTool
        <5>4. Cardinality(OfTool(t, Finished')) = Cardinality(OfTool(t, Finished)) + 1
          BY <4>1, <5>3, FS_AddElement
        <5>5. QED
          BY <4>1, <5>2, <5>4
      <4>3. CASE t # ToolOf[k]
        <5>1. OfTool(t, SettledCalls') \subseteq OfTool(t, SettledCalls)
          <6>1. ASSUME NEW c \in SettledCalls', ToolOf[c] = t PROVE c \in SettledCalls
            <7>1. c \in Calls
              BY DEF SettledCalls
            <7>2. c # j
              BY <2>5, <4>3, <6>1, <7>1, NoneAssumption
            <7>3. QED
              BY <2>4, <7>2
          <6>2. QED
            BY <6>1 DEF OfTool
        <5>2. Cardinality(OfTool(t, SettledCalls')) <= Cardinality(OfTool(t, SettledCalls))
          BY <4>1, <5>1, FS_Subset
        <5>3. OfTool(t, Finished') = OfTool(t, Finished)
          BY <2>3, <4>3 DEF OfTool
        <5>4. Cardinality(OfTool(t, SettledCalls')) \in Nat
          BY <3>2, OfToolFinite
        <5>5. QED
          BY <4>1, <5>2, <5>3, <5>4
      <4>4. QED
        BY <4>2, <4>3
    <3>5. QED
      BY <3>2, <3>3, <3>4
  <2>8. QED
    BY <2>2, <2>6, <2>7 DEF SettledFollows
<1>10. CASE HandleEvent
  <2> DEFINE e == Head(network.events)
  <2>1. /\ page.loading /\ network.events # <<>> /\ page' = Shown(page, e)
        /\ network' = [network EXCEPT !.events = Tail(network.events)]
        /\ UNCHANGED <<identified, call>>
    BY <1>10 DEF HandleEvent
  <2>2. /\ e \in Events /\ e \in InFlight
        /\ e.type \in {"tool_start", "artifact_created", "confirmation_required"} =>
               e.id \in Calls
        /\ page'.over = (page.over \/ e.type = "done")
        /\ page'.card = IF e.type = "confirmation_required" THEN e.id ELSE page.card
        /\ e.type \notin {"done", "confirmation_required"} =>
               \A k \in Calls : page'.activity[k] = "completed" =>
                   page.activity[k] = "completed" \/ (e.type = "tool_end" /\ e.id = k)
    <3>1. /\ e \in Events /\ e \in InFlight
          /\ e.type = "token" => page.text + 1 <= MaxTokens
          /\ e.type \in {"tool_start", "artifact_created", "confirmation_required"} =>
                 e.id \in Calls
      BY <2>1, NextEventFits DEF IInv
    <3>2. /\ page'.over = (page.over \/ e.type = "done")
          /\ page'.card = IF e.type = "confirmation_required" THEN e.id ELSE page.card
      BY <1>0, <2>1, <3>1, ShownFields
    <3> HIDE DEF e
    <3>3. e.type \notin {"done", "confirmation_required"} =>
              \A k \in Calls : Shown(page, e).activity[k] = "completed" =>
                  page.activity[k] = "completed" \/ (e.type = "tool_end" /\ e.id = k)
      BY <1>0, <3>1, ShownFields
    <3>4. QED
      BY <2>1, <3>1, <3>2, <3>3
  <2>3. InFlight' \subseteq InFlight
    <3>1. network'.events = Tail(network.events)
      BY <1>0, <2>1
    <3>2. QED
      BY <1>0, <2>1, <3>1, Taken DEF InFlight
  <2>4. Finished' = Finished
    BY <2>1 DEF Finished
  <2> HIDE DEF e
  <2>5. CASE e.type \in {"done", "confirmation_required"}
    <3>1. page'.over \/ page'.card # None
      BY <2>2, <2>5, NoneAssumption
    <3>2. QED
      BY <1>0, <2>4, <3>1 DEF SettledFollows
  <2>6. CASE e.type \notin {"done", "confirmation_required"}
    <3>1. SettledCalls' \subseteq SettledCalls
      BY <2>2, <2>3, <2>6 DEF SettledCalls
    <3>2. page'.loading /\ page'.card = None /\ ~page'.over =>
              page.loading /\ page.card = None /\ ~page.over
      BY <2>1, <2>2, <2>6
    <3>3. QED
      BY <1>0, <2>1, <2>4, <3>1, <3>2, NothingSettled
  <2>7. QED
    BY <2>5, <2>6
<1>11. CASE StreamEnds \/ ConnectionLost
  <2>1. /\ \/ page' = [Finalized(page) EXCEPT !.loading = FALSE]
           \/ page' = [Finalized(page) EXCEPT !.loading = FALSE, !.text = 0]
        /\ UNCHANGED call
    BY <1>11 DEF StreamEnds, ConnectionLost
  <2>2. ~page'.loading /\ Finished' = Finished
    <3>1. Finalized(page) = [page EXCEPT !.activity = Finalized(page).activity,
                                         !.agent = Finalized(page).agent]
      BY <1>0, FinalizedFields
    <3>2. QED
      BY <1>0, <2>1, <3>1 DEF Pages, Finished
  <2>3. QED
    BY <1>0, <2>2 DEF SettledFollows
<1>12. CASE \E decision \in {"approved", "rejected"} : Decide(decision)
  <2>1. PICK decision \in {"approved", "rejected"} : Decide(decision)
    BY <1>12
  <2>2. /\ page' = NewPage
        /\ \/ network' = [events |-> <<Event("error", None)>>, open |-> FALSE]
           \/ network' = [events |-> <<>>, open |-> TRUE]
        /\ \/ call' = call
           \/ call' = [k \in Calls |-> IF \E i \in Actions : graph.batch[i] = k
                                        THEN decision ELSE call[k]]
    BY <2>1 DEF Decide
  <2>3. SettledCalls' = {}
    <3>1. network'.events = <<Event("error", None)>> \/ network'.events = <<>>
      BY <2>2
    <3>2. <<Event("error", None)>>[1].type # "tool_end"
      BY DEF Event
    <3>3. \A e \in InFlight' : e.type # "tool_end"
      BY <3>1, <3>2 DEF InFlight, ToSet
    <3>4. \A k \in Calls : page'.activity[k] # "completed"
      BY <2>2 DEF NewPage
    <3>5. QED
      BY <3>3, <3>4 DEF SettledCalls
  <2>4. IsFiniteSet(Finished')
    <3>1. Finished' \subseteq Finished
      BY <1>0, <2>2 DEF Finished
    <3>2. QED
      BY <1>0, <3>1, FS_Subset DEF SettledFollows
  <2>5. \A t : Cardinality(OfTool(t, SettledCalls')) <= Cardinality(OfTool(t, Finished'))
    <3>1. \A t : OfTool(t, SettledCalls') = {}
      BY <2>3 DEF OfTool
    <3>2. \A t : Cardinality(OfTool(t, Finished')) \in Nat
      BY <2>4, OfToolFinite
    <3>3. QED
      BY <3>1, <3>2, FS_EmptySet
  <2>6. QED
    BY <2>3, <2>4, <2>5, FS_EmptySet DEF SettledFollows
<1>13. QED
  BY <1>4, <1>5, <1>6, <1>7, <1>8, <1>9, <1>10, <1>11, <1>12 DEF Next, Graph, Page

\* The page offers only what was published, and between streams shows nothing as running.
LEMMA PageFollowsStep ==
  ASSUME IInv, Next
  PROVE  PageFollows'
<1>0. /\ TypeOK /\ EventsFit /\ PageFollows /\ page \in Pages
  BY DEF IInv, TypeOK
<1>1. ASSUME UNCHANGED page PROVE PageFollows'
  <2>1. \A k \in page.artifacts : k \in Calls
    BY <1>0 DEF Pages
  <2>2. QED
    BY <1>0, <1>1, <2>1, RanStays DEF PageFollows, ShownAs
<1>2. CASE HandleEvent
  <2> DEFINE e == Head(network.events)
  <2>1. /\ page.loading /\ network.events # <<>> /\ page' = Shown(page, e)
        /\ UNCHANGED call
    BY <1>2 DEF HandleEvent
  <2>2. /\ e \in Events /\ e \in InFlight /\ page'.loading = page.loading
        /\ page'.artifacts = IF e.type = "artifact_created"
                             THEN page.artifacts \cup {e.id} ELSE page.artifacts
    <3>1. /\ e \in Events /\ e \in InFlight
          /\ e.type = "token" => page.text + 1 <= MaxTokens
          /\ e.type \in {"tool_start", "artifact_created", "confirmation_required"} =>
                 e.id \in Calls
      BY <2>1, NextEventFits DEF IInv
    <3>2. QED
      BY <1>0, <2>1, <3>1, ShownFields
  <2>3. e.type = "artifact_created" => call[e.id] = "ran"
    BY <1>0, <2>2 DEF EventsFit, Fits
  <2> HIDE DEF e
  <2>4. QED
    BY <1>0, <2>1, <2>2, <2>3 DEF PageFollows
<1>3. CASE StreamEnds \/ ConnectionLost
  <2>1. /\ \/ page' = [Finalized(page) EXCEPT !.loading = FALSE]
           \/ page' = [Finalized(page) EXCEPT !.loading = FALSE, !.text = 0]
        /\ UNCHANGED call
    BY <1>3 DEF StreamEnds, ConnectionLost
  <2>2. /\ Finalized(page) = [page EXCEPT !.activity = Finalized(page).activity,
                                          !.agent = Finalized(page).agent]
        /\ Finalized(page).activity \in [Calls -> Statuses \ {"running"}]
        /\ Finalized(page).agent \in Statuses \ {"running"}
    BY <1>0, FinalizedFields
  <2>3. /\ page'.activity = Finalized(page).activity /\ page'.agent = Finalized(page).agent
        /\ page'.artifacts = page.artifacts
    BY <1>0, <2>1, <2>2 DEF Pages
  <2>4. ShownAs("running")' = {} /\ page'.agent # "running"
    BY <2>2, <2>3 DEF ShownAs
  <2>5. QED
    BY <1>0, <2>1, <2>3, <2>4 DEF PageFollows
<1>4. CASE \E decision \in {"approved", "rejected"} : Decide(decision)
  <2>1. page' = NewPage
    BY <1>4 DEF Decide
  <2>2. page'.loading /\ page'.artifacts = {}
    BY <2>1 DEF NewPage
  <2>3. QED
    BY <2>2 DEF PageFollows
<1>5. QED
  BY <1>1, <1>2, <1>3, <1>4
     DEF Next, Graph, Page, Token, RequestCall, RunTools, Interrupt, ToolAnswers, ToolsDone,
         EndTurn, GraphFails
-----------------------------------------------------------------------------
(* The theorems. *)

\* The invariant holds at the start of a turn.
LEMMA InitIInv ==
  Init => IInv
<1> SUFFICES ASSUME Init PROVE IInv
  OBVIOUS
<1>0. /\ identified \in BOOLEAN /\ graph = [at |-> "model", batch |-> <<>>]
      /\ call = [k \in Calls |-> "unused"] /\ pending = [t \in Tools |-> <<>>]
      /\ answer = 0 /\ stored = None /\ network = [events |-> <<>>, open |-> TRUE]
      /\ page = NewPage /\ approved = {}
  BY DEF Init
<1>1. InFlight = {} /\ ToSet(graph.batch) = {} /\ Tokens(network.events) = 0
  <2>1. InFlight = {} /\ ToSet(graph.batch) = {}
    BY <1>0 DEF InFlight, ToSet
  <2>2. TokenPlaces(network.events) = {}
    BY <1>0 DEF TokenPlaces
  <2>3. QED
    BY <2>1, <2>2, FS_EmptySet DEF Tokens
<1>2. TypeOK
  <2>1. /\ <<>> \in Seq(Calls) /\ <<>> \in Seq(Events) /\ IsInjective(<<>>) /\ ToSet(<<>>) = {}
    BY EmptySeq DEF IsInjective, ToSet
  <2>2. QED
    BY <1>0, <2>1, NewPageFits, BoundsAssumption DEF TypeOK
<1>3. EventsFit /\ DoneIsLast
  BY <1>0, <1>1 DEF EventsFit, DoneIsLast
<1>4. StreamFollows
  BY <1>0 DEF StreamFollows, NewPage
<1>5. BatchFollows /\ IdsFollow
  BY <1>0, <1>1 DEF BatchFollows, IdsFollow
<1>6. ApprovedFirst /\ UndecidedNeverRuns
  BY <1>0 DEF ApprovedFirst, UndecidedNeverRuns
<1>7. TextFollows
  BY <1>0, <1>1 DEF TextFollows, NewPage
<1>8. SettledFollows
  <2>1. Finished = {} /\ SettledCalls = {}
    BY <1>0, <1>1 DEF Finished, SettledCalls, NewPage
  <2>2. \A t : OfTool(t, {}) = {}
    BY DEF OfTool
  <2>3. QED
    BY <2>1, <2>2, FS_EmptySet DEF SettledFollows
<1>9. PageFollows
  BY <1>0 DEF PageFollows, NewPage
<1>10. QED
  BY <1>2, <1>3, <1>4, <1>5, <1>6, <1>7, <1>8, <1>9 DEF IInv

\* Every step keeps the invariant.
LEMMA NextIInv ==
  ASSUME IInv, [Next]_vars
  PROVE  IInv'
<1>1. CASE Next
  BY <1>1, TypeStep, EventsFitStep, DoneIsLastStep, StreamFollowsStep, BatchFollowsStep,
     IdsFollowStep, ApprovedStep, TextFollowsStep, SettledFollowsStep, PageFollowsStep DEF IInv
<1>2. CASE UNCHANGED vars
  <2>1. /\ UNCHANGED <<identified, graph, call, pending, answer>>
        /\ UNCHANGED <<stored, network, page, approved>>
    BY <1>2 DEF vars
  <2>2. /\ InFlight' = InFlight /\ Actions' = Actions /\ FirstAction' = FirstAction
        /\ SettledCalls' = SettledCalls /\ Finished' = Finished
    BY <2>1 DEF InFlight, Actions, FirstAction, SettledCalls, Finished
  <2>3. TypeOK'
    BY <2>1 DEF IInv, TypeOK
  <2>4. EventsFit' /\ DoneIsLast' /\ StreamFollows'
    BY <2>1, <2>2 DEF IInv, EventsFit, Fits, DoneIsLast, StreamFollows
  <2>5. BatchFollows' /\ IdsFollow' /\ ApprovedFirst' /\ UndecidedNeverRuns' /\ TextFollows'
    BY <2>1 DEF IInv, BatchFollows, IdsFollow, ApprovedFirst, UndecidedNeverRuns, TextFollows
  <2>6. SettledFollows' /\ PageFollows'
    BY <2>1, <2>2 DEF IInv, SettledFollows, PageFollows, ShownAs
  <2>7. QED
    BY <2>3, <2>4, <2>5, <2>6 DEF IInv
<1>3. QED
  BY <1>1, <1>2

\* In every turn, however its events, its results, the failures and the user's decisions
\* interleave, the invariant above holds.
THEOREM Invariance == Spec => []IInv
<1>1. Init => IInv
  BY InitIInv
<1>2. IInv /\ [Next]_vars => IInv'
  BY NextIInv
<1>3. QED
  BY <1>1, <1>2, PTL DEF Spec

\* The graph, the lists of ids, the events and the page keep their types; an id waits at
\* most once, in the list of its own tool.
THEOREM TypeCorrect == Spec => []TypeOK
<1>1. IInv => TypeOK
  BY DEF IInv
<1>2. QED
  BY <1>1, Invariance, PTL

\* While a stream runs, the page shows no call as completed that the graph did not finish,
\* or no more of a tool than it finished when the provider gives no ids; and every file it
\* offers was published.
THEOREM ActivitiesAreFinished == Spec => []ActivitiesFollowCalls
<1>1. IInv => ActivitiesFollowCalls
  <2> SUFFICES ASSUME IInv PROVE ActivitiesFollowCalls
    OBVIOUS
  <2>1. SettledFollows /\ PageFollows
    BY DEF IInv
  <2>2. ShownAs("completed") \subseteq SettledCalls
    BY DEF ShownAs, SettledCalls
  <2>3. ASSUME page.loading, page.card = None, ~page.over
        PROVE  /\ identified => ShownAs("completed") \subseteq Finished
               /\ \A t \in Tools : Cardinality(OfTool(t, ShownAs("completed")))
                                       <= Cardinality(OfTool(t, Finished))
    <3>1. /\ IsFiniteSet(SettledCalls) /\ IsFiniteSet(Finished)
          /\ identified => SettledCalls \subseteq Finished
          /\ \A t \in Tools : Cardinality(OfTool(t, SettledCalls))
                                  <= Cardinality(OfTool(t, Finished))
      BY <2>1, <2>3 DEF SettledFollows
    <3>2. IsFiniteSet(ShownAs("completed"))
      BY <2>2, <3>1, FS_Subset
    <3>3. ASSUME NEW t \in Tools
          PROVE  Cardinality(OfTool(t, ShownAs("completed"))) <= Cardinality(OfTool(t, Finished))
      <4>1. OfTool(t, ShownAs("completed")) \subseteq OfTool(t, SettledCalls)
        BY <2>2 DEF OfTool
      <4>2. /\ IsFiniteSet(OfTool(t, SettledCalls))
            /\ Cardinality(OfTool(t, SettledCalls)) \in Nat
            /\ Cardinality(OfTool(t, ShownAs("completed"))) \in Nat
            /\ Cardinality(OfTool(t, Finished)) \in Nat
        BY <3>1, <3>2, OfToolFinite
      <4>3. Cardinality(OfTool(t, ShownAs("completed"))) <= Cardinality(OfTool(t, SettledCalls))
        BY <4>1, <4>2, FS_Subset
      <4>4. QED
        BY <3>1, <4>2, <4>3
    <3>4. QED
      BY <2>2, <3>1, <3>3
  <2>4. QED
    BY <2>1, <2>3 DEF ActivitiesFollowCalls, PageFollows
<1>2. QED
  BY <1>1, Invariance, PTL

\* When the stream is done, what the page shows is what the service saved, however often
\* the turn was interrupted.
THEOREM StoredIsShown == Spec => []ShownReplyIsStored
<1>1. IInv => ShownReplyIsStored
  <2> SUFFICES ASSUME IInv, page.over, page.loading PROVE page.text = stored
    BY DEF ShownReplyIsStored
  <2>1. graph.at = "ended" /\ network.events = <<>> /\ stored = answer
    BY DEF IInv, StreamFollows
  <2>2. page.text + Tokens(network.events) = answer
    BY <2>1 DEF IInv, TextFollows
  <2>3. Tokens(network.events) = 0
    <3>1. TokenPlaces(network.events) = {}
      BY <2>1 DEF TokenPlaces
    <3>2. QED
      BY <3>1, FS_EmptySet DEF Tokens
  <2>4. page.text \in Nat
    BY DEF IInv, TypeOK, Pages
  <2>5. QED
    BY <2>1, <2>2, <2>3, <2>4
<1>2. QED
  BY <1>1, Invariance, PTL

\* However many calls one interrupt asks for, a gated call runs only with an approved card
\* of its own.
THEOREM GatedNeedsCard == Spec => []UndecidedNeverRuns
<1>1. IInv => UndecidedNeverRuns
  BY DEF IInv
<1>2. QED
  BY <1>1, Invariance, PTL
=============================================================================
