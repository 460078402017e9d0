---------------------------- MODULE RefreshProofs ----------------------------
(***************************************************************************)
(* Theorems about Refresh.tla for any number of tabs and of requests and   *)
(* any bounds.                                                             *)
(***************************************************************************)
EXTENDS Refresh, FiniteSetTheorems, SequenceTheorems, TLAPS

-----------------------------------------------------------------------------
(* The inductive invariant                                                 *)

Last == Len(family.used)

\* A renewal appends the one token that was not used yet.
OnlyLastIsUnused ==
    /\ Last # 0
    /\ family.used[Last] = "no"
    /\ \A n \in 1 .. Last - 1 : family.used[n] # "no"

\* A tab has one renewal on the network at a time.
PostsAreOfFlights ==
    /\ \A t \in Tab, post \in net : post.by = t => flight[t] = "post"
    /\ \A p, q \in net : p.by = q.by /\ p.by # None => p = q

\* While every answer found its tab, a renewal on the network quotes the last
\* token, and the last token is in the jar or in the answer under way.
NetKnowsTheLast ==
    /\ ~family.revoked
    /\ \A post \in net :
        /\ post.by # None
        /\ IF post.answer = None THEN post.token = Last ELSE post.answer = Last
    /\ jar.refresh = Last \/ \E post \in net : post.answer = Last

\* The access cookie does not run out before the second attempt.
RetriedHaveAccess ==
    \A t \in Tab, r \in Request : request[t][r].step = "retried" => jar.access

RefreshInvariant ==
    /\ TypeOK
    /\ OnlyLastIsUnused
    /\ PostsAreOfFlights
    /\ WebLocks /\ ~broken => NetKnowsTheLast
    /\ broken => trouble
    /\ RetriedHaveAccess
    /\ WebLocks => RequestsSucceed

LEMMA InitInvariant == Init => RefreshInvariant
<1> SUFFICES ASSUME Init
             PROVE  RefreshInvariant
  OBVIOUS
<1> USE DEF Init
<1> DEFINE one == <<"no">>
<1>1. one \in Seq({"no", "just", "long"}) /\ Len(one) = 1 /\ one[1] = "no"
  OBVIOUS
<1>2. family = [revoked |-> FALSE, used |-> one]
  OBVIOUS
<1> HIDE DEF one
<1>3. family \in Family /\ family.used = one /\ family.revoked = FALSE
  BY <1>1, <1>2 DEF Family
<1>4. jar \in [access : BOOLEAN, refresh : DOMAIN family.used] /\ jar.refresh = 1
  BY <1>1, <1>3
<1>5. request \in [Tab -> [Request -> RequestRow]]
      /\ \A t \in Tab, r \in Request : request[t][r].step = "ok" /\ request[t][r].current
  BY DEF Idle, RequestRow
<1>6. IsFiniteSet(net) /\ Cardinality(net) = 0
  BY FS_EmptySet
<1>7. TypeOK
  <2>1. flight \in [Tab -> {"none", "queued", "probe", "post"}] /\ holder \in Tab \cup {None}
    OBVIOUS
  <2>2. \A u \in Tab : holder # u /\ flight[u] = "none"
    BY ConstantsAssumption
  <2>3. net \subseteq Post(DOMAIN family.used) /\ Cardinality(net) <= MaxPosts
    BY <1>6, ConstantsAssumption
  <2>4. \A u \in Tab :
          /\ WebLocks => (holder = u <=> flight[u] \in {"probe", "post"})
          /\ (\E r \in Request : request[u][r].step = "waiting") <=> flight[u] # "none"
    BY <1>5, <2>2
  <2>5. trouble \in BOOLEAN /\ broken \in BOOLEAN
    OBVIOUS
  <2> QED
    BY <1>3, <1>4, <1>5, <1>6, <2>1, <2>3, <2>4, <2>5 DEF TypeOK
<1>8. OnlyLastIsUnused /\ NetKnowsTheLast
  BY <1>1, <1>3, <1>4 DEF OnlyLastIsUnused, NetKnowsTheLast, Last
<1>9. PostsAreOfFlights /\ RetriedHaveAccess /\ RequestsSucceed
  BY <1>5 DEF PostsAreOfFlights, RetriedHaveAccess, RequestsSucceed
<1> QED
  BY <1>7, <1>8, <1>9 DEF RefreshInvariant

-----------------------------------------------------------------------------
(* Operators                                                               *)

LEMMA ReplacedPost ==
  ASSUME NEW S, IsFiniteSet(S), NEW x \in S, NEW y
  PROVE  /\ IsFiniteSet(S \ {x}) /\ Cardinality(S \ {x}) = Cardinality(S) - 1
         /\ IsFiniteSet((S \ {x}) \cup {y})
         /\ Cardinality((S \ {x}) \cup {y}) <= Cardinality(S)
<1>1. IsFiniteSet(S \ {x}) /\ Cardinality(S \ {x}) = Cardinality(S) - 1
  BY FS_RemoveElement
<1>2. /\ IsFiniteSet((S \ {x}) \cup {y})
      /\ Cardinality((S \ {x}) \cup {y}) =
           IF y \in S \ {x} THEN Cardinality(S \ {x}) ELSE Cardinality(S \ {x}) + 1
  BY <1>1, FS_AddElement
<1>3. Cardinality(S) \in Nat
  BY FS_CardinalityType
<1> QED
  BY <1>1, <1>2, <1>3

LEMMA RotatedTokens ==
  ASSUME TypeOK, OnlyLastIsUnused, NEW n \in DOMAIN family.used, Rotatable(n)
  PROVE  LET used == Append([family.used EXCEPT ![n] = "just"], "no")
         IN  /\ used \in Seq({"no", "just", "long"}) /\ Len(used) = Last + 1
             /\ used[Last + 1] = "no"
             /\ \A m \in 1 .. Last : used[m] # "no"
<1> DEFINE tokens == family.used
           aged == [tokens EXCEPT ![n] = "just"]
<1>1. tokens \in Seq({"no", "just", "long"})
  BY DEF TypeOK, Family
<1>2. Last = Len(tokens) /\ Last \in Nat /\ n \in 1 .. Last /\ n = Last
  BY <1>1 DEF Last, OnlyLastIsUnused, Rotatable
<1>3. /\ aged \in Seq({"no", "just", "long"}) /\ Len(aged) = Last
      /\ \A m \in 1 .. Last : aged[m] # "no"
  <2>1. \A m \in 1 .. Last - 1 : tokens[m] # "no"
    BY DEF OnlyLastIsUnused
  <2> HIDE DEF tokens
  <2> QED
    BY <1>1, <1>2, <2>1
<1> HIDE DEF aged
<1>4. /\ Append(aged, "no") \in Seq({"no", "just", "long"})
      /\ Len(Append(aged, "no")) = Len(aged) + 1
      /\ Append(aged, "no")[Len(aged) + 1] = "no"
      /\ \A m \in 1 .. Len(aged) : Append(aged, "no")[m] = aged[m]
  BY <1>3, AppendProperties
<1>5. /\ Append(aged, "no") \in Seq({"no", "just", "long"})
      /\ Len(Append(aged, "no")) = Last + 1
      /\ Append(aged, "no")[Last + 1] = "no"
      /\ \A m \in 1 .. Last : Append(aged, "no")[m] # "no"
  BY <1>3, <1>4
<1> QED
  BY <1>5 DEF aged

\* One step of a request.
LEMMA StepRows ==
  ASSUME TypeOK, NEW t \in Tab, NEW r \in Request,
         NEW step \in {"sent", "waiting", "retried", "ok", "failed"}, Step(t, r, step)
  PROVE  /\ request' \in [Tab -> [Request -> RequestRow]]
         /\ \A u \in Tab, q \in Request :
              /\ request'[u][q].current = request[u][q].current
              /\ request'[u][q].step = IF u = t /\ q = r THEN step ELSE request[u][q].step
<1> DEFINE row == [request[t][r] EXCEPT !.step = step]
           rows == [request[t] EXCEPT ![r] = row]
<1>1. request' = [request EXCEPT ![t] = rows]
  BY DEF Step
<1>2. request[t] \in [Request -> RequestRow] /\ request[t][r] \in RequestRow
  BY DEF TypeOK
<1>3. row \in RequestRow /\ row.step = step /\ row.current = request[t][r].current
  BY <1>2 DEF RequestRow
<1> HIDE DEF row
<1>4. /\ rows \in [Request -> RequestRow] /\ rows[r] = row
      /\ \A q \in Request \ {r} : rows[q] = request[t][q]
  BY <1>2, <1>3
<1> HIDE DEF rows
<1>5. /\ request' \in [Tab -> [Request -> RequestRow]] /\ request'[t] = rows
      /\ \A u \in Tab \ {t} : request'[u] = request[u]
  BY <1>1, <1>4 DEF TypeOK
<1> QED
  BY <1>3, <1>4, <1>5

\* A renewal that works, ...
LEMMA RenewedRows ==
  ASSUME TypeOK, NEW t \in Tab, Renewed(t)
  PROVE  /\ request' \in [Tab -> [Request -> RequestRow]]
         /\ \A u \in Tab \ {t} : request'[u] = request[u]
         /\ \A r \in Request :
              /\ request'[t][r].current = request[t][r].current
              /\ request[t][r].step # "waiting" => request'[t][r].step = request[t][r].step
              /\ request[t][r].step = "waiting" => request'[t][r].step =
                   IF request[t][r].current THEN "retried" ELSE "failed"
<1> DEFINE row(r) == IF r \notin Woken(t) THEN request[t][r]
                     ELSE [request[t][r] EXCEPT
                       !.step = IF request[t][r].current THEN "retried" ELSE "failed"]
           rows == [r \in Request |-> row(r)]
<1>1. request' = [request EXCEPT ![t] = rows]
  BY DEF Renewed
<1>2. ASSUME NEW r \in Request
      PROVE  /\ row(r) \in RequestRow /\ row(r).current = request[t][r].current
             /\ request[t][r].step # "waiting" => row(r).step = request[t][r].step
             /\ request[t][r].step = "waiting" => row(r).step =
                  IF request[t][r].current THEN "retried" ELSE "failed"
  <2> DEFINE next == IF request[t][r].current THEN "retried" ELSE "failed"
  <2>1. request[t][r] \in RequestRow /\ next \in {"retried", "failed"}
    BY DEF TypeOK
  <2> HIDE DEF next
  <2>2. /\ [request[t][r] EXCEPT !.step = next] \in RequestRow
        /\ [request[t][r] EXCEPT !.step = next].step = next
        /\ [request[t][r] EXCEPT !.step = next].current = request[t][r].current
    BY <2>1 DEF RequestRow
  <2>3. row(r) = IF request[t][r].step # "waiting" THEN request[t][r]
                 ELSE [request[t][r] EXCEPT !.step = next]
    BY DEF Woken, next
  <2> HIDE DEF row
  <2>4. CASE request[t][r].step # "waiting"
    BY <2>1, <2>3, <2>4
  <2>5. CASE request[t][r].step = "waiting"
    BY <2>2, <2>3, <2>5 DEF next
  <2> QED
    BY <2>4, <2>5
<1> HIDE DEF row
<1>3. rows \in [Request -> RequestRow] /\ \A r \in Request : rows[r] = row(r)
  BY <1>2
<1> HIDE DEF rows
<1>4. /\ request' \in [Tab -> [Request -> RequestRow]] /\ request'[t] = rows
      /\ \A u \in Tab \ {t} : request'[u] = request[u]
  BY <1>1, <1>3 DEF TypeOK
<1> QED
  BY <1>2, <1>3, <1>4

\* ... and one that does not.
LEMMA NotRenewedRows ==
  ASSUME TypeOK, NEW t \in Tab, NotRenewed(t)
  PROVE  /\ request' \in [Tab -> [Request -> RequestRow]]
         /\ \A u \in Tab, r \in Request :
              request'[u][r].step = IF u = t /\ request[u][r].step = "waiting"
                                    THEN "failed" ELSE request[u][r].step
<1> DEFINE step(u, r) == IF u = t /\ r \in Woken(t) THEN "failed" ELSE request[u][r].step
           row(u, r) == [step |-> step(u, r), current |-> request[u][r].step \notin Underway]
           rows(u) == [r \in Request |-> row(u, r)]
<1>1. request' = [u \in Tab |-> rows(u)]
  BY DEF NotRenewed
<1>2. ASSUME NEW u \in Tab, NEW r \in Request
      PROVE  /\ row(u, r) \in RequestRow
             /\ row(u, r).step = IF u = t /\ request[u][r].step = "waiting"
                                 THEN "failed" ELSE request[u][r].step
  <2>1. request[u][r] \in RequestRow
    BY DEF TypeOK
  <2>2. /\ step(u, r) \in {"sent", "waiting", "retried", "ok", "failed"}
        /\ step(u, r) = IF u = t /\ request[u][r].step = "waiting"
                        THEN "failed" ELSE request[u][r].step
    BY <2>1 DEF RequestRow, Woken
  <2> DEFINE now == request[u][r].step \notin Underway
  <2>3. now \in BOOLEAN
    OBVIOUS
  <2>4. row(u, r) = [step |-> step(u, r), current |-> now]
    OBVIOUS
  <2> HIDE DEF now, step, row
  <2> QED
    BY <2>2, <2>3, <2>4 DEF RequestRow
<1> HIDE DEF row
<1>3. ASSUME NEW u \in Tab
      PROVE  rows(u) \in [Request -> RequestRow] /\ \A r \in Request : rows(u)[r] = row(u, r)
  BY <1>2
<1> HIDE DEF rows
<1>4. request' \in [Tab -> [Request -> RequestRow]] /\ \A u \in Tab : request'[u] = rows(u)
  BY <1>1, <1>3
<1> QED
  BY <1>2, <1>3, <1>4

\* With the lock, there is one renewal on the network.
LEMMA OnePost ==
  ASSUME TypeOK, PostsAreOfFlights, NetKnowsTheLast, WebLocks
  PROVE  /\ \A post \in net : post.by \in Tab /\ holder = post.by /\ flight[holder] = "post"
         /\ \A p, q \in net : p = q
<1>1. ASSUME NEW post \in net
      PROVE  post.by \in Tab /\ holder = post.by /\ flight[holder] = "post"
  <2>1. post.by \in Tab
    BY DEF TypeOK, Post, NetKnowsTheLast
  <2>2. flight[post.by] = "post"
    BY <2>1 DEF PostsAreOfFlights
  <2> QED
    BY <2>1, <2>2 DEF TypeOK
<1>2. \A p, q \in net : p = q
  BY <1>1 DEF PostsAreOfFlights, NetKnowsTheLast
<1> QED
  BY <1>1, <1>2

-----------------------------------------------------------------------------
(* The server                                                              *)

\* What is quoted is the last token, so it is rotated, and the answer is the
\* token after it.
LEMMA ServeInvariant ==
  ASSUME RefreshInvariant, Serve
  PROVE  RefreshInvariant'
<1> USE DEF RefreshInvariant
<1>1. PICK post \in net :
        /\ post.answer = None
        /\ \/ /\ ~family.revoked /\ Rotatable(post.token)
              /\ family' = [family EXCEPT
                   !.used = Append([@ EXCEPT ![post.token] = "just"], "no")]
              /\ net' = (net \ {post}) \cup {[post EXCEPT !.answer = Len(family.used) + 1]}
           \/ /\ net' = (net \ {post}) \cup {[post EXCEPT !.answer = Refused]}
              /\ \/ family' = family
                 \/ ~Rotatable(post.token) /\ family' = [family EXCEPT !.revoked = TRUE]
              /\ family.revoked \/ ~Rotatable(post.token)
  BY DEF Serve
<1>2. UNCHANGED <<jar, request, flight, holder, trouble, broken>>
  BY DEF Serve
<1>3. /\ family \in Family /\ family.used \in Seq({"no", "just", "long"})
      /\ Last \in Nat /\ DOMAIN family.used = 1 .. Last
      /\ post \in Post(DOMAIN family.used) /\ post.token \in 1 .. Last
  BY DEF TypeOK, Family, Post, Last
<1>4. ASSUME NEW a, NEW new, new = [post EXCEPT !.answer = a],
             net' = (net \ {post}) \cup {new},
             NEW S, 1 .. Last \subseteq S, a \in {Refused} \cup S
      PROVE  /\ net' \subseteq Post(S) /\ IsFiniteSet(net') /\ Cardinality(net') <= MaxPosts
             /\ PostsAreOfFlights' /\ new.answer = a /\ new.by = post.by
  <2>1. new \in Post(S) /\ new.by = post.by /\ new.answer = a
    BY <1>3, <1>4 DEF Post
  <2>2. net \subseteq Post(S)
    BY <1>3, <1>4 DEF TypeOK, Post
  <2>3. IsFiniteSet(net') /\ Cardinality(net') <= Cardinality(net)
    BY <1>4, ReplacedPost DEF TypeOK
  <2>4. Cardinality(net) \in Nat /\ Cardinality(net') \in Nat /\ Cardinality(net) <= MaxPosts
    BY <2>3, FS_CardinalityType DEF TypeOK
  <2>5. Cardinality(net') <= MaxPosts
    BY <2>3, <2>4, ConstantsAssumption
  <2>6. PostsAreOfFlights'
    BY <1>2, <1>4, <2>1 DEF PostsAreOfFlights
  <2> QED
    BY <1>4, <2>1, <2>2, <2>3, <2>5, <2>6
<1>5. ASSUME WebLocks, ~broken
      PROVE  ~family.revoked /\ Rotatable(post.token) /\ \A p \in net : p = post
  <2>1. NetKnowsTheLast
    BY <1>5
  <2>2. ~family.revoked /\ post.token = Last
    BY <1>1, <2>1 DEF NetKnowsTheLast
  <2>3. \A p \in net : p = post
    BY <1>5, <2>1, OnePost
  <2> QED
    BY <2>2, <2>3 DEF OnlyLastIsUnused, Rotatable
<1>6. CASE /\ ~family.revoked /\ Rotatable(post.token)
           /\ family' = [family EXCEPT
                !.used = Append([@ EXCEPT ![post.token] = "just"], "no")]
           /\ net' = (net \ {post}) \cup {[post EXCEPT !.answer = Len(family.used) + 1]}
  <2> DEFINE used == Append([family.used EXCEPT ![post.token] = "just"], "no")
             next == Last + 1
             new == [post EXCEPT !.answer = next]
  <2>1. /\ used \in Seq({"no", "just", "long"}) /\ Len(used) = next
        /\ used[next] = "no"
        /\ \A m \in 1 .. Last : used[m] # "no"
    BY <1>3, <1>6, RotatedTokens
  <2>2. family' = [family EXCEPT !.used = used]
    BY <1>6
  <2>3. net' = (net \ {post}) \cup {new}
    BY <1>6 DEF Last
  <2> HIDE DEF used
  <2>4. /\ family' \in Family /\ family'.used = used /\ family'.revoked = family.revoked
        /\ Last' = next
    BY <1>3, <2>1, <2>2 DEF Family, Last
  <2>5. 1 .. Last \subseteq 1 .. next /\ next \in {Refused} \cup 1 .. next
        /\ DOMAIN family'.used = 1 .. next /\ next # None /\ next \in Nat
    BY <1>3, <2>1, <2>4, ConstantsAssumption
  <2> HIDE DEF next
  <2>6. /\ net' \subseteq Post(1 .. next) /\ IsFiniteSet(net') /\ Cardinality(net') <= MaxPosts
        /\ PostsAreOfFlights' /\ new.answer = next /\ new.by = post.by
    BY <1>4, <2>3, <2>5
  <2>7. TypeOK'
    <3>1. jar' \in [access : BOOLEAN, refresh : DOMAIN family'.used]
      BY <1>2, <1>3, <2>5 DEF TypeOK
    <3> QED
      BY <1>2, <2>4, <2>5, <2>6, <3>1 DEF TypeOK
  <2>8. OnlyLastIsUnused'
    <3>1. next # 0 /\ next - 1 = Last
      BY <1>3 DEF next
    <3> QED
      BY <2>1, <2>4, <3>1 DEF OnlyLastIsUnused
  <2>9. ASSUME WebLocks, ~broken
        PROVE  NetKnowsTheLast'
    <3>1. net' = {new}
      BY <1>5, <2>3, <2>9
    <3>2. post.by # None
      BY <2>9 DEF NetKnowsTheLast
    <3> QED
      BY <1>6, <2>4, <2>5, <2>6, <3>1, <3>2 DEF NetKnowsTheLast
  <2> QED
    BY <1>2, <2>6, <2>7, <2>8, <2>9 DEF RetriedHaveAccess, RequestsSucceed
<1>7. CASE /\ net' = (net \ {post}) \cup {[post EXCEPT !.answer = Refused]}
           /\ \/ family' = family
              \/ ~Rotatable(post.token) /\ family' = [family EXCEPT !.revoked = TRUE]
           /\ family.revoked \/ ~Rotatable(post.token)
  <2>1. family' \in Family /\ family'.used = family.used /\ Last' = Last
    BY <1>3, <1>7 DEF Family, Last
  <2> DEFINE new == [post EXCEPT !.answer = Refused]
  <2>2. /\ net' \subseteq Post(1 .. Last) /\ IsFiniteSet(net') /\ Cardinality(net') <= MaxPosts
        /\ PostsAreOfFlights'
    BY <1>4, <1>7
  <2>3. TypeOK'
    BY <1>2, <1>3, <2>1, <2>2 DEF TypeOK
  <2>4. OnlyLastIsUnused'
    BY <2>1 DEF OnlyLastIsUnused
  <2>5. ~(WebLocks /\ ~broken)
    BY <1>5, <1>7
  <2> QED
    BY <1>2, <2>2, <2>3, <2>4, <2>5 DEF RetriedHaveAccess, RequestsSucceed
<1> QED
  BY <1>1, <1>6, <1>7

LEMMA AgeInvariant ==
  ASSUME RefreshInvariant, Age
  PROVE  RefreshInvariant'
<1> USE DEF RefreshInvariant
<1> DEFINE tokens == family.used
           used == [n \in DOMAIN tokens |-> IF tokens[n] = "just" THEN "long" ELSE tokens[n]]
<1>1. /\ family' = [family EXCEPT !.used = used]
      /\ UNCHANGED <<jar, request, flight, holder, net, trouble, broken>>
  BY DEF Age
<1>2. family \in Family /\ tokens \in Seq({"no", "just", "long"})
  BY DEF TypeOK, Family
<1>3. /\ used \in Seq({"no", "just", "long"}) /\ Len(used) = Len(tokens)
      /\ DOMAIN used = DOMAIN tokens
      /\ \A n \in DOMAIN tokens : used[n] = "no" <=> tokens[n] = "no"
  <2> HIDE DEF tokens
  <2> QED
    BY <1>2
<1> HIDE DEF used
<1>4. /\ family' \in Family /\ family'.used = used /\ family'.revoked = family.revoked
      /\ Last' = Last /\ Last \in Nat /\ DOMAIN tokens = 1 .. Last
  BY <1>1, <1>2, <1>3 DEF Family, Last
<1>5. TypeOK'
  BY <1>1, <1>3, <1>4 DEF TypeOK
<1>6. OnlyLastIsUnused'
  BY <1>3, <1>4 DEF OnlyLastIsUnused
<1>7. WebLocks /\ ~broken => NetKnowsTheLast'
  BY <1>1, <1>4 DEF NetKnowsTheLast
<1> QED
  BY <1>1, <1>5, <1>6, <1>7 DEF PostsAreOfFlights, RetriedHaveAccess, RequestsSucceed

LEMMA ExpireInvariant ==
  ASSUME RefreshInvariant, ExpireAccess
  PROVE  RefreshInvariant'
<1> USE DEF RefreshInvariant
<1>1. /\ \A t \in Tab, r \in Request : request[t][r].step # "retried"
      /\ jar' = [jar EXCEPT !.access = FALSE]
      /\ UNCHANGED <<family, request, flight, holder, net, trouble, broken>>
  BY DEF ExpireAccess
<1>2. /\ jar' \in [access : BOOLEAN, refresh : DOMAIN family.used]
      /\ jar'.refresh = jar.refresh
  BY <1>1 DEF TypeOK
<1>3. TypeOK'
  BY <1>1, <1>2 DEF TypeOK
<1>4. Last' = Last
  BY <1>1 DEF Last
<1> QED
  BY <1>1, <1>2, <1>3, <1>4 DEF OnlyLastIsUnused, NetKnowsTheLast, PostsAreOfFlights,
     RetriedHaveAccess, RequestsSucceed

-----------------------------------------------------------------------------
(* The tabs                                                                *)

\* Fewer answers are under way.
LEMMA FewerPosts ==
  ASSUME TypeOK, NEW post \in net, net' = net \ {post}, UNCHANGED family
  PROVE  /\ net' \subseteq Post(DOMAIN family'.used)
         /\ IsFiniteSet(net') /\ Cardinality(net') <= MaxPosts
<1>1. /\ IsFiniteSet(net') /\ Cardinality(net') = Cardinality(net) - 1
      /\ Cardinality(net) \in Nat /\ Cardinality(net) <= MaxPosts
  BY FS_RemoveElement, FS_CardinalityType DEF TypeOK
<1>2. Cardinality(net') <= MaxPosts
  BY <1>1, ConstantsAssumption
<1> QED
  BY <1>1, <1>2 DEF TypeOK

LEMMA DiscardInvariant ==
  ASSUME RefreshInvariant, Discard
  PROVE  RefreshInvariant'
<1> USE DEF RefreshInvariant
<1>1. PICK post \in net : post.by = None /\ net' = net \ {post}
  BY DEF Discard
<1>2. UNCHANGED <<jar, family, request, flight, holder, trouble, broken>>
  BY DEF Discard
<1>3. TypeOK'
  <2>1. /\ net' \subseteq Post(DOMAIN family'.used)
        /\ IsFiniteSet(net') /\ Cardinality(net') <= MaxPosts
    BY <1>1, <1>2, FewerPosts
  <2> QED
    BY <1>2, <2>1 DEF TypeOK
<1>4. ~(WebLocks /\ ~broken)
  BY <1>1 DEF NetKnowsTheLast
<1>5. PostsAreOfFlights'
  BY <1>1, <1>2 DEF PostsAreOfFlights
<1> QED
  BY <1>2, <1>3, <1>4, <1>5 DEF OnlyLastIsUnused, Last, RetriedHaveAccess, RequestsSucceed

\* A step of a request that leaves the session, the lock and the network alone.
LEMMA RequestInvariant ==
  ASSUME RefreshInvariant, NEW t \in Tab,
         UNCHANGED <<jar, family, holder, net, trouble, broken>>,
         request' \in [Tab -> [Request -> RequestRow]],
         flight' = flight \/ (flight[t] = "none" /\ flight' = [flight EXCEPT ![t] = "queued"]),
         \A u \in Tab :
            (\E r \in Request : request'[u][r].step = "waiting") <=> flight'[u] # "none",
         \A u \in Tab, r \in Request : request'[u][r].step = "retried"
                                       => request[u][r].step = "retried",
         WebLocks /\ ~trouble => \A u \in Tab, r \in Request :
                                   request'[u][r].step # "failed" /\ request'[u][r].current
  PROVE  RefreshInvariant'
<1> USE DEF RefreshInvariant
<1>1. /\ flight' \in [Tab -> {"none", "queued", "probe", "post"}]
      /\ \A u \in Tab : /\ flight'[u] \in {"probe", "post"} <=> flight[u] \in {"probe", "post"}
                        /\ flight[u] = "post" => flight'[u] = "post"
  BY DEF TypeOK
<1>2. TypeOK'
  BY <1>1 DEF TypeOK
<1>3. PostsAreOfFlights'
  BY <1>1 DEF PostsAreOfFlights
<1>4. RetriedHaveAccess'
  BY DEF RetriedHaveAccess
<1>5. WebLocks => RequestsSucceed'
  BY DEF RequestsSucceed
<1> QED
  BY <1>2, <1>3, <1>4, <1>5 DEF OnlyLastIsUnused, NetKnowsTheLast, Last

\* While nothing failed, a session that is there is answered.
LEMMA Succeeds ==
  ASSUME RefreshInvariant, WebLocks, ~trouble
  PROVE  /\ ~family.revoked
         /\ \A t \in Tab, r \in Request :
              /\ request[t][r].step # "failed" /\ request[t][r].current
              /\ request[t][r].step = "retried" => Authorized
<1>1. ~broken
  BY DEF RefreshInvariant, TypeOK
<1> QED
  BY <1>1 DEF RefreshInvariant, NetKnowsTheLast, RequestsSucceed, RetriedHaveAccess,
     Authorized

LEMMA SendInvariant ==
  ASSUME RefreshInvariant, NEW t \in Tab, NEW r \in Request, Send(t, r)
  PROVE  RefreshInvariant'
<1> USE DEF RefreshInvariant
<1> DEFINE row == [step |-> "sent", current |-> TRUE]
           rows == [request[t] EXCEPT ![r] = row]
<1>1. /\ request[t][r].step \notin Underway /\ request' = [request EXCEPT ![t] = rows]
      /\ UNCHANGED <<jar, family, flight, holder, net, trouble, broken>>
  BY DEF Send
<1>2. row \in RequestRow /\ row.step = "sent" /\ row.current
  BY DEF RequestRow
<1> HIDE DEF row
<1>3. /\ rows \in [Request -> RequestRow] /\ rows[r] = row
      /\ \A q \in Request \ {r} : rows[q] = request[t][q]
  BY <1>2 DEF TypeOK
<1> HIDE DEF rows
<1>4. /\ request' \in [Tab -> [Request -> RequestRow]] /\ request'[t] = rows
      /\ \A u \in Tab \ {t} : request'[u] = request[u]
  BY <1>1, <1>3 DEF TypeOK
<1>5. \A u \in Tab, q \in Request :
        /\ request'[u][q] = request[u][q] \/ (u = t /\ q = r)
        /\ request'[t][r].step = "sent" /\ request'[t][r].current
  BY <1>2, <1>3, <1>4
<1>6. \A u \in Tab :
        (\E q \in Request : request'[u][q].step = "waiting") <=> flight'[u] # "none"
  <2>1. request[t][r].step # "waiting"
    BY <1>1 DEF Underway
  <2>2. \A u \in Tab, q \in Request :
          request'[u][q].step = "waiting" <=> request[u][q].step = "waiting"
    BY <1>5, <2>1
  <2> QED
    BY <1>1, <2>2 DEF TypeOK
<1>7. \A u \in Tab, q \in Request : request'[u][q].step = "retried"
                                    => request[u][q].step = "retried"
  BY <1>5
<1>8. ASSUME WebLocks, ~trouble
      PROVE  \A u \in Tab, q \in Request :
               request'[u][q].step # "failed" /\ request'[u][q].current
  BY <1>5, <1>8, Succeeds
<1> QED
  BY <1>1, <1>4, <1>6, <1>7, <1>8, RequestInvariant

LEMMA FirstAnswerInvariant ==
  ASSUME RefreshInvariant, NEW t \in Tab, NEW r \in Request, FirstAnswer(t, r)
  PROVE  RefreshInvariant'
<1> USE DEF RefreshInvariant
<1>1. /\ request[t][r].step = "sent"
      /\ \/ ~request[t][r].current /\ Step(t, r, "failed") /\ flight' = flight
         \/ Step(t, r, "ok") /\ flight' = flight
         \/ /\ Step(t, r, "waiting")
            /\ flight' = [flight EXCEPT ![t] = IF flight[t] = "none" THEN "queued"
                                               ELSE flight[t]]
      /\ UNCHANGED <<jar, family, holder, net, trouble, broken>>
  BY DEF FirstAnswer
<1>2. PICK step \in {"failed", "ok", "waiting"} :
        /\ Step(t, r, step) /\ (step = "failed" => ~request[t][r].current)
        /\ IF step = "waiting" /\ flight[t] = "none"
           THEN flight' = [flight EXCEPT ![t] = "queued"] ELSE flight' = flight
  <2>1. flight[t] # "none" => [flight EXCEPT ![t] = flight[t]] = flight
    BY DEF TypeOK
  <2>2. CASE ~request[t][r].current /\ Step(t, r, "failed") /\ flight' = flight
    BY <2>2
  <2>3. CASE Step(t, r, "ok") /\ flight' = flight
    BY <2>3
  <2>4. CASE /\ Step(t, r, "waiting")
             /\ flight' = [flight EXCEPT ![t] = IF flight[t] = "none" THEN "queued"
                                                ELSE flight[t]]
    BY <2>1, <2>4
  <2> QED
    BY <1>1, <2>2, <2>3, <2>4
<1>3. /\ request' \in [Tab -> [Request -> RequestRow]]
      /\ \A u \in Tab, q \in Request :
           /\ request'[u][q].current = request[u][q].current
           /\ request'[u][q].step = IF u = t /\ q = r THEN step ELSE request[u][q].step
  <2>1. step \in {"sent", "waiting", "retried", "ok", "failed"}
    OBVIOUS
  <2>2. TypeOK /\ Step(t, r, step)
    BY <1>2
  <2> QED
    BY ONLY <2>1, <2>2, t \in Tab, r \in Request, StepRows
<1>4. \A u \in Tab :
        (\E q \in Request : request'[u][q].step = "waiting") <=> flight'[u] # "none"
  <2>1. \A u \in Tab \ {t}, q \in Request : request'[u][q].step = request[u][q].step
    BY <1>3
  <2>2. ASSUME NEW u \in Tab \ {t}
        PROVE  flight'[u] = flight[u]
    BY <1>2 DEF TypeOK
  <2>3. step = "waiting" => request'[t][r].step = "waiting" /\ flight'[t] # "none"
    BY <1>2, <1>3 DEF TypeOK
  <2>4. step # "waiting" =>
          /\ flight'[t] = flight[t]
          /\ \A q \in Request : request'[t][q].step = "waiting" <=> request[t][q].step = "waiting"
    BY <1>1, <1>2, <1>3
  <2>5. (\E q \in Request : request[t][q].step = "waiting") <=> flight[t] # "none"
    BY DEF TypeOK
  <2>6. (\E q \in Request : request'[t][q].step = "waiting") <=> flight'[t] # "none"
    BY <2>3, <2>4, <2>5
  <2>7. ASSUME NEW u \in Tab \ {t}
        PROVE  (\E q \in Request : request'[u][q].step = "waiting") <=> flight'[u] # "none"
    <3>1. (\E q \in Request : request[u][q].step = "waiting") <=> flight[u] # "none"
      BY DEF TypeOK
    <3> QED
      BY <2>1, <2>2, <3>1
  <2> QED
    BY <2>6, <2>7
<1>5. ASSUME WebLocks, ~trouble
      PROVE  \A u \in Tab, q \in Request :
               request'[u][q].step # "failed" /\ request'[u][q].current
  BY <1>2, <1>3, <1>5, Succeeds
<1>6. \A u \in Tab, q \in Request : request'[u][q].step = "retried"
                                    => request[u][q].step = "retried"
  BY <1>3
<1>7. flight' = flight \/ (flight[t] = "none" /\ flight' = [flight EXCEPT ![t] = "queued"])
  BY <1>2
<1> QED
  BY <1>1, <1>3, <1>4, <1>5, <1>6, <1>7, RequestInvariant

LEMMA SecondAnswerInvariant ==
  ASSUME RefreshInvariant, NEW t \in Tab, NEW r \in Request, SecondAnswer(t, r)
  PROVE  RefreshInvariant'
<1> USE DEF RefreshInvariant
<1> DEFINE step == IF request[t][r].current /\ Authorized THEN "ok" ELSE "failed"
<1>1. /\ request[t][r].step = "retried" /\ Step(t, r, step)
      /\ UNCHANGED <<jar, family, flight, holder, net, trouble, broken>>
  BY DEF SecondAnswer
<1>2. step \in {"ok", "failed"} /\ (WebLocks /\ ~trouble => step = "ok")
  BY <1>1, Succeeds
<1> HIDE DEF step
<1>3. /\ request' \in [Tab -> [Request -> RequestRow]]
      /\ \A u \in Tab, q \in Request :
           /\ request'[u][q].current = request[u][q].current
           /\ request'[u][q].step = IF u = t /\ q = r THEN step ELSE request[u][q].step
  <2>1. step \in {"sent", "waiting", "retried", "ok", "failed"}
    BY <1>2
  <2>2. TypeOK /\ Step(t, r, step)
    BY <1>1
  <2> QED
    BY ONLY <2>1, <2>2, t \in Tab, r \in Request, StepRows
<1>4. \A u \in Tab :
        (\E q \in Request : request'[u][q].step = "waiting") <=> flight'[u] # "none"
  <2>1. \A u \in Tab, q \in Request :
          request'[u][q].step = "waiting" <=> request[u][q].step = "waiting"
    BY <1>1, <1>2, <1>3
  <2> QED
    BY <1>1, <2>1 DEF TypeOK
<1>5. ASSUME WebLocks, ~trouble
      PROVE  \A u \in Tab, q \in Request :
               request'[u][q].step # "failed" /\ request'[u][q].current
  BY <1>2, <1>3, <1>5, Succeeds
<1>6. \A u \in Tab, q \in Request : request'[u][q].step = "retried"
                                    => request[u][q].step = "retried"
  BY <1>2, <1>3
<1> QED
  BY <1>1, <1>3, <1>4, <1>5, <1>6, RequestInvariant

LEMMA GrantInvariant ==
  ASSUME RefreshInvariant, NEW t \in Tab, Grant(t)
  PROVE  RefreshInvariant'
<1> USE DEF RefreshInvariant
<1>1. /\ flight[t] = "queued" /\ (WebLocks => holder = None)
      /\ flight' = [flight EXCEPT ![t] = "probe"]
      /\ holder' = IF WebLocks THEN t ELSE None
      /\ UNCHANGED <<jar, family, request, net, trouble, broken>>
  BY DEF Grant, Grantable
<1>2. /\ flight' \in [Tab -> {"none", "queued", "probe", "post"}] /\ flight'[t] = "probe"
      /\ \A u \in Tab \ {t} : flight'[u] = flight[u]
  BY <1>1 DEF TypeOK
<1>3. ASSUME NEW u \in Tab
      PROVE  /\ WebLocks => (holder' = u <=> flight'[u] \in {"probe", "post"})
             /\ (\E r \in Request : request'[u][r].step = "waiting") <=> flight'[u] # "none"
  <2>1. WebLocks => (holder = u <=> flight[u] \in {"probe", "post"})
    BY DEF TypeOK
  <2>2. (\E r \in Request : request[u][r].step = "waiting") <=> flight[u] # "none"
    BY DEF TypeOK
  <2>3. CASE u = t
    BY <1>1, <1>2, <2>2, <2>3
  <2>4. CASE u # t
    BY <1>1, <1>2, <2>1, <2>2, <2>4, ConstantsAssumption
  <2> QED
    BY <2>3, <2>4
<1>4. TypeOK'
  BY <1>1, <1>2, <1>3 DEF TypeOK
<1>5. PostsAreOfFlights'
  BY <1>1, <1>2 DEF PostsAreOfFlights
<1> QED
  BY <1>1, <1>4, <1>5 DEF OnlyLastIsUnused, NetKnowsTheLast, Last, RetriedHaveAccess,
     RequestsSucceed

\* The flight of the tab ends: the lock is free if it held it, and nobody waits.
LEMMA LandedFlight ==
  ASSUME TypeOK, NEW t \in Tab, flight' = [flight EXCEPT ![t] = "none"], holder' = Free(t),
         \A u \in Tab \ {t}, r \in Request :
           request'[u][r].step = "waiting" <=> request[u][r].step = "waiting",
         \A r \in Request : request'[t][r].step # "waiting"
  PROVE  /\ flight' \in [Tab -> {"none", "queued", "probe", "post"}]
         /\ flight'[t] = "none" /\ \A u \in Tab \ {t} : flight'[u] = flight[u]
         /\ holder' \in Tab \cup {None}
         /\ \A u \in Tab :
              /\ WebLocks => (holder' = u <=> flight'[u] \in {"probe", "post"})
              /\ (\E r \in Request : request'[u][r].step = "waiting") <=> flight'[u] # "none"
<1>1. /\ flight' \in [Tab -> {"none", "queued", "probe", "post"}]
      /\ flight'[t] = "none" /\ \A u \in Tab \ {t} : flight'[u] = flight[u]
  BY DEF TypeOK
<1>2. holder' = IF holder = t THEN None ELSE holder
  BY DEF Free
<1>3. ASSUME NEW u \in Tab
      PROVE  /\ WebLocks => (holder' = u <=> flight'[u] \in {"probe", "post"})
             /\ (\E r \in Request : request'[u][r].step = "waiting") <=> flight'[u] # "none"
  <2>1. WebLocks => (holder = u <=> flight[u] \in {"probe", "post"})
    BY DEF TypeOK
  <2>2. (\E r \in Request : request[u][r].step = "waiting") <=> flight[u] # "none"
    BY DEF TypeOK
  <2>3. CASE u = t
    BY <1>1, <1>2, <2>3, ConstantsAssumption
  <2>4. CASE u # t
    BY <1>1, <1>2, <2>1, <2>2, <2>4, ConstantsAssumption
  <2> QED
    BY <2>3, <2>4
<1> QED
  BY <1>1, <1>2, <1>3 DEF TypeOK

\* The rows after a renewal that does not work: what fails, fails with trouble.
LEMMA TroubleInvariant ==
  ASSUME RefreshInvariant, NEW t \in Tab, UNCHANGED <<jar, family>>,
         request' \in [Tab -> [Request -> RequestRow]],
         \A u \in Tab, r \in Request : request'[u][r].step = "retried"
                                       => request[u][r].step = "retried",
         \A u \in Tab \ {t}, r \in Request :
           request'[u][r].step = "waiting" <=> request[u][r].step = "waiting",
         \A r \in Request : request'[t][r].step # "waiting",
         flight' = [flight EXCEPT ![t] = "none"], holder' = Free(t), trouble',
         trouble' \in BOOLEAN, broken' \in BOOLEAN, broken => broken',
         net' \subseteq Post(DOMAIN family'.used), IsFiniteSet(net'),
         Cardinality(net') <= MaxPosts,
         \A post \in net' : post.by # None => post \in net /\ post.by # t,
         WebLocks /\ ~broken' =>
           /\ \A post \in net' : post.by # None
           /\ \A post \in net : post.answer # None => post \in net'
  PROVE  RefreshInvariant'
<1> USE DEF RefreshInvariant
<1>1. /\ flight' \in [Tab -> {"none", "queued", "probe", "post"}]
      /\ flight'[t] = "none" /\ \A u \in Tab \ {t} : flight'[u] = flight[u]
      /\ holder' \in Tab \cup {None}
      /\ \A u \in Tab :
           /\ WebLocks => (holder' = u <=> flight'[u] \in {"probe", "post"})
           /\ (\E r \in Request : request'[u][r].step = "waiting") <=> flight'[u] # "none"
  BY LandedFlight
<1>2. TypeOK'
  BY <1>1 DEF TypeOK
<1>3. PostsAreOfFlights'
  <2>1. ASSUME NEW u \in Tab, NEW post \in net', post.by = u
        PROVE  flight'[u] = "post"
    <3>1. post \in net /\ u # t
      BY <2>1, ConstantsAssumption
    <3> QED
      BY <1>1, <2>1, <3>1 DEF PostsAreOfFlights
  <2>2. \A p, q \in net' : p.by = q.by /\ p.by # None => p = q
    BY DEF PostsAreOfFlights
  <2> QED
    BY <2>1, <2>2 DEF PostsAreOfFlights
<1>4. Last' = Last
  BY DEF Last
<1>5. ASSUME WebLocks, ~broken'
      PROVE  NetKnowsTheLast'
  <2>1. NetKnowsTheLast
    BY <1>5
  <2>2. \A post \in net' : post \in net
    BY <1>5
  <2>3. \A post \in net' : IF post.answer = None THEN post.token = Last ELSE post.answer = Last
    BY <2>1, <2>2 DEF NetKnowsTheLast
  <2>4. Last # None
    BY ConstantsAssumption DEF TypeOK, Family, Last
  <2>5. jar.refresh = Last \/ \E post \in net' : post.answer = Last
    BY <1>5, <2>1, <2>4 DEF NetKnowsTheLast
  <2>6. \A post \in net' : post.by # None
    BY <1>5
  <2> QED
    BY <1>4, <2>1, <2>3, <2>5, <2>6 DEF NetKnowsTheLast
<1>6. OnlyLastIsUnused'
  BY <1>4 DEF OnlyLastIsUnused
<1>7. RetriedHaveAccess' /\ RequestsSucceed'
  BY DEF RetriedHaveAccess, RequestsSucceed
<1> QED
  BY <1>2, <1>3, <1>5, <1>6, <1>7

LEMMA LockTimeoutInvariant ==
  ASSUME RefreshInvariant, NEW t \in Tab, LockTimeout(t)
  PROVE  RefreshInvariant'
<1> USE DEF RefreshInvariant
<1>1. /\ flight[t] = "queued" /\ NotRenewed(t) /\ trouble' = TRUE
      /\ UNCHANGED <<jar, family, net, broken>>
  BY DEF LockTimeout
<1>2. /\ request' \in [Tab -> [Request -> RequestRow]]
      /\ \A u \in Tab, r \in Request :
           request'[u][r].step = IF u = t /\ request[u][r].step = "waiting"
                                 THEN "failed" ELSE request[u][r].step
  BY <1>1, NotRenewedRows
<1>3. flight' = [flight EXCEPT ![t] = "none"] /\ holder' = Free(t)
  BY <1>1 DEF NotRenewed
<1>4. /\ net' \subseteq Post(DOMAIN family'.used) /\ IsFiniteSet(net')
      /\ Cardinality(net') <= MaxPosts /\ broken' \in BOOLEAN
  BY <1>1 DEF TypeOK
<1>5. \A post \in net' : post.by # None => post \in net /\ post.by # t
  BY <1>1 DEF PostsAreOfFlights
<1>6. WebLocks /\ ~broken' =>
        /\ \A post \in net' : post.by # None
        /\ \A post \in net : post.answer # None => post \in net'
  <2>1. ~broken /\ WebLocks => \A post \in net : post.by # None
    BY DEF NetKnowsTheLast
  <2> QED
    BY <1>1, <2>1
<1> QED
  BY <1>1, <1>2, <1>3, <1>4, <1>5, <1>6, TroubleInvariant

LEMMA LoseInvariant ==
  ASSUME RefreshInvariant, NEW t \in Tab, LoseConnection(t)
  PROVE  RefreshInvariant'
<1> USE DEF RefreshInvariant
<1>1. PICK post \in net :
        /\ flight[t] = "post" /\ post.by = t
        /\ \/ post.answer = None /\ net' = net \ {post} /\ UNCHANGED broken
           \/ /\ net' = (net \ {post}) \cup
                    (IF post.answer = None THEN {[post EXCEPT !.by = None]} ELSE {})
              /\ broken' = TRUE
        /\ NotRenewed(t)
        /\ trouble' = TRUE
        /\ UNCHANGED <<jar, family>>
  BY DEF LoseConnection
<1>2. /\ request' \in [Tab -> [Request -> RequestRow]]
      /\ \A u \in Tab, r \in Request :
           request'[u][r].step = IF u = t /\ request[u][r].step = "waiting"
                                 THEN "failed" ELSE request[u][r].step
  BY <1>1, NotRenewedRows
<1>3. flight' = [flight EXCEPT ![t] = "none"] /\ holder' = Free(t)
  BY <1>1 DEF NotRenewed
<1> DEFINE new == [post EXCEPT !.by = None]
<1>4. new \in Post(DOMAIN family.used) /\ new.by = None
  BY <1>1 DEF TypeOK, Post
<1>5. net' = net \ {post} \/ (net' = (net \ {post}) \cup {new} /\ broken')
  BY <1>1
<1> HIDE DEF new
<1>6. /\ net' \subseteq Post(DOMAIN family'.used) /\ IsFiniteSet(net')
      /\ Cardinality(net') <= MaxPosts
  <2>1. CASE net' = net \ {post}
    BY <1>1, <2>1, FewerPosts
  <2>2. CASE net' = (net \ {post}) \cup {new}
    <3>1. IsFiniteSet(net') /\ Cardinality(net') <= Cardinality(net)
      BY <2>2, ReplacedPost DEF TypeOK
    <3>2. Cardinality(net) \in Nat /\ Cardinality(net') \in Nat /\ Cardinality(net) <= MaxPosts
      BY <3>1, FS_CardinalityType DEF TypeOK
    <3>3. Cardinality(net') <= MaxPosts
      BY <3>1, <3>2, ConstantsAssumption
    <3>4. net' \subseteq Post(DOMAIN family'.used)
      BY <1>1, <1>4, <2>2 DEF TypeOK
    <3> QED
      BY <3>1, <3>3, <3>4
  <2> QED
    BY <1>5, <2>1, <2>2
<1>7. /\ broken' \in BOOLEAN /\ (broken => broken')
      /\ trouble' \in BOOLEAN /\ trouble'
  <2>1. broken' = broken \/ broken' = TRUE
    BY <1>1
  <2>2. broken' \in BOOLEAN /\ (broken => broken')
    BY <2>1 DEF TypeOK
  <2>3. trouble' = TRUE
    BY <1>1
  <2> QED
    BY <2>2, <2>3
<1>8. \A p \in net' : p.by # None => p \in net /\ p.by # t
  <2>1. \A p \in net : p.by = t => p = post
    BY <1>1, ConstantsAssumption DEF PostsAreOfFlights
  <2> QED
    BY <1>4, <1>5, <2>1
<1>9. WebLocks /\ ~broken' =>
        /\ \A p \in net' : p.by # None
        /\ \A p \in net : p.answer # None => p \in net'
  <2>1. WebLocks /\ ~broken => \A p \in net : p.by # None
    BY DEF NetKnowsTheLast
  <2> QED
    BY <1>1, <2>1
<1>10. /\ \A u \in Tab, r \in Request : request'[u][r].step = "retried"
                                        => request[u][r].step = "retried"
       /\ \A u \in Tab \ {t}, r \in Request :
            request'[u][r].step = "waiting" <=> request[u][r].step = "waiting"
       /\ \A r \in Request : request'[t][r].step # "waiting"
  BY <1>2
<1>11. UNCHANGED <<jar, family>>
  BY <1>1
<1> QED
  BY <1>2, <1>3, <1>6, <1>7, <1>8, <1>9, <1>10, <1>11, TroubleInvariant

LEMMA CloseInvariant ==
  ASSUME RefreshInvariant, NEW t \in Tab, Close(t)
  PROVE  RefreshInvariant'
<1> USE DEF RefreshInvariant
<1> DEFINE orphans == {[post EXCEPT !.by = None] :
                         post \in {p \in net : p.by = t /\ p.answer = None}}
           others == {post \in net : post.by # t}
           rows == [r \in Request |-> Idle]
<1>1. /\ request' = [request EXCEPT ![t] = rows]
      /\ flight' = [flight EXCEPT ![t] = "none"] /\ holder' = Free(t)
      /\ net' = others \cup orphans /\ trouble' = TRUE
      /\ broken' = (broken \/ \E post \in net : post.by = t)
      /\ UNCHANGED <<jar, family>>
  BY DEF Close
<1>2. rows \in [Request -> RequestRow] /\ \A r \in Request : rows[r].step = "ok"
  BY DEF Idle, RequestRow
<1> HIDE DEF rows
<1>3. /\ request' \in [Tab -> [Request -> RequestRow]] /\ request'[t] = rows
      /\ \A u \in Tab \ {t} : request'[u] = request[u]
  BY <1>1, <1>2 DEF TypeOK
<1>4. ASSUME NEW post \in orphans
      PROVE  post.by = None /\ post \in Post(DOMAIN family.used)
  <2>1. PICK p \in net : post = [p EXCEPT !.by = None]
    OBVIOUS
  <2>2. p \in Post(DOMAIN family.used)
    BY DEF TypeOK
  <2> QED
    BY <2>1, <2>2 DEF Post
<1>5. /\ net' \subseteq Post(DOMAIN family'.used) /\ IsFiniteSet(net')
      /\ Cardinality(net') <= MaxPosts
  <2>1. CASE \A post \in net : post.by # t
    <3>1. net' = net
      BY <1>1, <2>1
    <3> QED
      BY <1>1, <3>1 DEF TypeOK
  <2>2. ASSUME NEW post \in net, post.by = t
        PROVE  IsFiniteSet(net') /\ Cardinality(net') <= MaxPosts
    <3> DEFINE new == [post EXCEPT !.by = None]
               more == (net \ {post}) \cup {new}
    <3>1. \A p \in net : p.by = t => p = post
      BY <2>2, ConstantsAssumption DEF PostsAreOfFlights
    <3>2. net' \subseteq more
      BY <1>1, <2>2, <3>1
    <3> HIDE DEF new
    <3>3. IsFiniteSet(more) /\ Cardinality(more) <= Cardinality(net)
      BY ReplacedPost DEF TypeOK
    <3> HIDE DEF more
    <3>4. IsFiniteSet(net') /\ Cardinality(net') <= Cardinality(more)
      BY <3>2, <3>3, FS_Subset
    <3>5. /\ Cardinality(net) \in Nat /\ Cardinality(net') \in Nat /\ Cardinality(more) \in Nat
          /\ Cardinality(net) <= MaxPosts
      BY <3>3, <3>4, FS_CardinalityType DEF TypeOK
    <3> QED
      BY <3>3, <3>4, <3>5, ConstantsAssumption
  <2>3. net' \subseteq Post(DOMAIN family'.used)
    BY <1>1, <1>4 DEF TypeOK
  <2> QED
    BY <2>1, <2>2, <2>3
<1>6. /\ broken' \in BOOLEAN /\ (broken => broken')
      /\ trouble' \in BOOLEAN /\ trouble'
  BY <1>1 DEF TypeOK
<1>7. \A post \in net' : post.by # None => post \in net /\ post.by # t
  BY <1>1, <1>4
<1>8. ASSUME WebLocks, ~broken'
      PROVE  /\ \A post \in net' : post.by # None
             /\ \A post \in net : post.answer # None => post \in net'
  <2>1. ~broken /\ \A post \in net : post.by # t
    BY <1>1, <1>8
  <2>2. net' = net
    BY <1>1, <2>1
  <2> QED
    BY <1>8, <2>1, <2>2 DEF NetKnowsTheLast
<1>9. /\ \A u \in Tab, r \in Request : request'[u][r].step = "retried"
                                       => request[u][r].step = "retried"
      /\ \A u \in Tab \ {t}, r \in Request :
           request'[u][r].step = "waiting" <=> request[u][r].step = "waiting"
      /\ \A r \in Request : request'[t][r].step # "waiting"
  BY <1>2, <1>3
<1> HIDE DEF orphans, others
<1> QED
  BY <1>1, <1>3, <1>5, <1>6, <1>7, <1>8, <1>9, TroubleInvariant

\* What waits for a renewal that works is retried, with an access cookie.
LEMMA RenewedInvariant ==
  ASSUME RefreshInvariant, NEW t \in Tab, Renewed(t),
         UNCHANGED <<family, trouble, broken>>,
         jar' \in [access : BOOLEAN, refresh : DOMAIN family.used], jar'.access,
         net' \subseteq Post(DOMAIN family.used), IsFiniteSet(net'),
         Cardinality(net') <= MaxPosts,
         \A post \in net' : post \in net /\ post.by # t,
         WebLocks /\ ~broken => NetKnowsTheLast'
  PROVE  RefreshInvariant'
<1> USE DEF RefreshInvariant
<1>1. /\ request' \in [Tab -> [Request -> RequestRow]]
      /\ \A u \in Tab \ {t} : request'[u] = request[u]
      /\ \A r \in Request :
           /\ request'[t][r].current = request[t][r].current
           /\ request[t][r].step # "waiting" => request'[t][r].step = request[t][r].step
           /\ request[t][r].step = "waiting" => request'[t][r].step =
                IF request[t][r].current THEN "retried" ELSE "failed"
  BY RenewedRows
<1>2. flight' = [flight EXCEPT ![t] = "none"] /\ holder' = Free(t)
  BY DEF Renewed
<1>3. /\ \A u \in Tab \ {t}, r \in Request :
           request'[u][r].step = "waiting" <=> request[u][r].step = "waiting"
      /\ \A r \in Request : request'[t][r].step # "waiting"
  BY <1>1
<1>4. /\ flight' \in [Tab -> {"none", "queued", "probe", "post"}]
      /\ flight'[t] = "none" /\ \A u \in Tab \ {t} : flight'[u] = flight[u]
      /\ holder' \in Tab \cup {None}
      /\ \A u \in Tab :
           /\ WebLocks => (holder' = u <=> flight'[u] \in {"probe", "post"})
           /\ (\E r \in Request : request'[u][r].step = "waiting") <=> flight'[u] # "none"
  BY <1>2, <1>3, LandedFlight
<1>5. TypeOK'
  BY <1>1, <1>4 DEF TypeOK
<1>6. PostsAreOfFlights'
  BY <1>4 DEF PostsAreOfFlights
<1>7. RetriedHaveAccess'
  BY DEF RetriedHaveAccess
<1>8. ASSUME WebLocks, ~trouble
      PROVE  RequestsSucceed'
  BY <1>1, <1>8, Succeeds DEF RequestsSucceed
<1>9. OnlyLastIsUnused'
  BY DEF OnlyLastIsUnused, Last
<1> QED
  BY <1>5, <1>6, <1>7, <1>8, <1>9 DEF RequestsSucceed

LEMMA ProbeInvariant ==
  ASSUME RefreshInvariant, NEW t \in Tab, Probe(t)
  PROVE  RefreshInvariant'
<1> USE DEF RefreshInvariant
<1>1. flight[t] = "probe" /\ UNCHANGED <<jar, family, trouble, broken>>
  BY DEF Probe
<1>2. \A post \in net : post.by # t
  BY <1>1 DEF PostsAreOfFlights
<1>3. CASE Authorized /\ Renewed(t) /\ UNCHANGED net
  <2>1. jar' \in [access : BOOLEAN, refresh : DOMAIN family.used] /\ jar'.access
    BY <1>1, <1>3 DEF TypeOK, Authorized
  <2>2. /\ net' \subseteq Post(DOMAIN family.used) /\ IsFiniteSet(net')
        /\ Cardinality(net') <= MaxPosts
    BY <1>3 DEF TypeOK
  <2>3. WebLocks /\ ~broken => NetKnowsTheLast'
    BY <1>1, <1>3 DEF NetKnowsTheLast, Last
  <2> QED
    BY <1>1, <1>2, <1>3, <2>1, <2>2, <2>3, RenewedInvariant
<1>4. CASE /\ ~Authorized /\ Cardinality(net) < MaxPosts
           /\ flight' = [flight EXCEPT ![t] = "post"]
           /\ net' = net \cup {[by |-> t, token |-> jar.refresh, answer |-> None]}
           /\ UNCHANGED <<request, holder>>
  <2> DEFINE new == [by |-> t, token |-> jar.refresh, answer |-> None]
  <2>1. /\ new \in Post(DOMAIN family.used)
        /\ new.by = t /\ new.token = jar.refresh /\ new.answer = None
    BY DEF TypeOK, Post
  <2>2. net' = net \cup {new}
    BY <1>4
  <2> HIDE DEF new
  <2>3. /\ flight' \in [Tab -> {"none", "queued", "probe", "post"}] /\ flight'[t] = "post"
        /\ \A u \in Tab \ {t} : flight'[u] = flight[u]
    BY <1>4 DEF TypeOK
  <2>4. /\ net' \subseteq Post(DOMAIN family'.used) /\ IsFiniteSet(net')
        /\ Cardinality(net') <= MaxPosts
    <3>1. /\ IsFiniteSet(net')
          /\ Cardinality(net') = IF new \in net THEN Cardinality(net) ELSE Cardinality(net) + 1
          /\ Cardinality(net) \in Nat
      BY <2>2, FS_AddElement, FS_CardinalityType DEF TypeOK
    <3>2. Cardinality(net') <= MaxPosts
      BY <1>4, <3>1, ConstantsAssumption
    <3> QED
      BY <1>1, <2>1, <2>2, <3>1, <3>2 DEF TypeOK
  <2>5. ASSUME NEW u \in Tab
        PROVE  /\ WebLocks => (holder' = u <=> flight'[u] \in {"probe", "post"})
               /\ (\E r \in Request : request'[u][r].step = "waiting") <=> flight'[u] # "none"
    <3>1. WebLocks => (holder = u <=> flight[u] \in {"probe", "post"})
      BY DEF TypeOK
    <3>2. (\E r \in Request : request[u][r].step = "waiting") <=> flight[u] # "none"
      BY DEF TypeOK
    <3>3. CASE u = t
      BY <1>1, <1>4, <2>3, <3>1, <3>2, <3>3
    <3>4. CASE u # t
      BY <1>4, <2>3, <3>1, <3>2, <3>4
    <3> QED
      BY <3>3, <3>4
  <2>6. TypeOK'
    BY <1>1, <1>4, <2>3, <2>4, <2>5 DEF TypeOK
  <2>7. PostsAreOfFlights'
    BY <1>2, <2>1, <2>2, <2>3 DEF PostsAreOfFlights
  <2>8. ASSUME WebLocks, ~broken
        PROVE  NetKnowsTheLast'
    <3>1. NetKnowsTheLast
      BY <2>8
    <3>2. net = {}
      <4>1. ASSUME NEW post \in net
            PROVE  FALSE
        <5>1. holder = post.by /\ flight[holder] = "post"
          BY <2>8, <3>1, OnePost
        <5>2. holder = t
          BY <1>1, <2>8 DEF TypeOK
        <5> QED
          BY <1>1, <5>1, <5>2
      <4> QED
        BY <4>1
    <3>3. jar.refresh = Last
      BY <3>1, <3>2 DEF NetKnowsTheLast
    <3>4. Last' = Last
      BY <1>1 DEF Last
    <3>5. t # None
      BY ConstantsAssumption
    <3> QED
      BY <1>1, <2>1, <2>2, <3>1, <3>2, <3>3, <3>4, <3>5 DEF NetKnowsTheLast
  <2> QED
    BY <1>1, <1>4, <2>6, <2>7, <2>8 DEF OnlyLastIsUnused, Last, RetriedHaveAccess,
       RequestsSucceed
<1> QED
  BY <1>3, <1>4 DEF Probe

LEMMA ReceiveInvariant ==
  ASSUME RefreshInvariant, NEW t \in Tab, Receive(t)
  PROVE  RefreshInvariant'
<1> USE DEF RefreshInvariant
<1>1. PICK post \in net :
        /\ flight[t] = "post" /\ post.by = t /\ post.answer # None
        /\ net' = net \ {post}
        /\ IF post.answer \in DOMAIN family.used
           THEN jar' = [access |-> TRUE, refresh |-> post.answer] /\ Renewed(t)
           ELSE UNCHANGED jar /\ NotRenewed(t)
        /\ UNCHANGED <<family, trouble, broken>>
  BY DEF Receive
<1>2. /\ net' \subseteq Post(DOMAIN family'.used) /\ IsFiniteSet(net')
      /\ Cardinality(net') <= MaxPosts
  BY <1>1, FewerPosts
<1>3. \A p \in net' : p \in net /\ p.by # t
  BY <1>1, ConstantsAssumption DEF PostsAreOfFlights
<1>4. family.used \in Seq({"no", "just", "long"}) /\ DOMAIN family.used = 1 .. Last /\ Last \in Nat
  BY DEF TypeOK, Family, Last
<1>5. ASSUME WebLocks, ~broken
      PROVE  ~family.revoked /\ post.answer = Last /\ net' = {} /\ Last \in DOMAIN family.used
  <2>1. NetKnowsTheLast
    BY <1>5
  <2>2. net' = {}
    BY <1>1, <1>5, <2>1, OnePost
  <2>3. Last \in DOMAIN family.used
    BY <1>4 DEF OnlyLastIsUnused
  <2> QED
    BY <1>1, <2>1, <2>2, <2>3 DEF NetKnowsTheLast
<1>6. CASE /\ post.answer \in DOMAIN family.used
           /\ jar' = [access |-> TRUE, refresh |-> post.answer] /\ Renewed(t)
  <2>1. /\ jar' \in [access : BOOLEAN, refresh : DOMAIN family.used] /\ jar'.access
        /\ jar'.refresh = post.answer
    BY <1>6
  <2>2. WebLocks /\ ~broken => NetKnowsTheLast'
    BY <1>1, <1>5, <2>1 DEF NetKnowsTheLast, Last
  <2> QED
    BY <1>1, <1>2, <1>3, <1>6, <2>1, <2>2, RenewedInvariant
<1>7. CASE /\ post.answer \notin DOMAIN family.used
           /\ UNCHANGED jar /\ NotRenewed(t)
  <2>1. ~WebLocks \/ broken
    BY <1>5, <1>7
  <2>2. /\ request' \in [Tab -> [Request -> RequestRow]]
        /\ \A u \in Tab, r \in Request :
             request'[u][r].step = IF u = t /\ request[u][r].step = "waiting"
                                   THEN "failed" ELSE request[u][r].step
    BY <1>7, NotRenewedRows
  <2>3. flight' = [flight EXCEPT ![t] = "none"] /\ holder' = Free(t)
    BY <1>7 DEF NotRenewed
  <2>4. /\ flight' \in [Tab -> {"none", "queued", "probe", "post"}]
        /\ flight'[t] = "none" /\ \A u \in Tab \ {t} : flight'[u] = flight[u]
        /\ holder' \in Tab \cup {None}
        /\ \A u \in Tab :
             /\ WebLocks => (holder' = u <=> flight'[u] \in {"probe", "post"})
             /\ (\E r \in Request : request'[u][r].step = "waiting") <=> flight'[u] # "none"
    BY <2>2, <2>3, LandedFlight
  <2>5. TypeOK'
    BY <1>1, <1>2, <1>7, <2>2, <2>4 DEF TypeOK
  <2>6. PostsAreOfFlights'
    BY <1>3, <2>4 DEF PostsAreOfFlights
  <2>7. WebLocks => RequestsSucceed'
    BY <1>1, <2>1 DEF RequestsSucceed
  <2>8. RetriedHaveAccess'
    BY <1>7, <2>2 DEF RetriedHaveAccess
  <2> QED
    BY <1>1, <2>1, <2>5, <2>6, <2>7, <2>8 DEF OnlyLastIsUnused, Last
<1> QED
  BY <1>1, <1>6, <1>7

-----------------------------------------------------------------------------
(* Theorems                                                                *)

LEMMA NextInvariant == RefreshInvariant /\ [Next]_vars => RefreshInvariant'
<1> SUFFICES ASSUME RefreshInvariant, [Next]_vars
             PROVE  RefreshInvariant'
  OBVIOUS
<1>1. CASE UNCHANGED vars
  <2>1. UNCHANGED <<jar, family, request, flight, holder, net, trouble, broken>>
    BY <1>1 DEF vars
  <2>2. TypeOK'
    BY <2>1 DEF RefreshInvariant, TypeOK
  <2>3. OnlyLastIsUnused' /\ PostsAreOfFlights' /\ RetriedHaveAccess'
    BY <2>1 DEF RefreshInvariant, OnlyLastIsUnused, Last, PostsAreOfFlights, RetriedHaveAccess
  <2>4. (WebLocks /\ ~broken => NetKnowsTheLast)' /\ (WebLocks => RequestsSucceed)'
    BY <2>1 DEF RefreshInvariant, NetKnowsTheLast, Last, RequestsSucceed
  <2>5. (broken => trouble)'
    BY <2>1 DEF RefreshInvariant
  <2> QED
    BY <2>2, <2>3, <2>4, <2>5 DEF RefreshInvariant
<1> QED
  BY <1>1, ServeInvariant, AgeInvariant, ExpireInvariant, DiscardInvariant, SendInvariant,
     FirstAnswerInvariant, SecondAnswerInvariant, GrantInvariant, LockTimeoutInvariant,
     ProbeInvariant, ReceiveInvariant, LoseInvariant, CloseInvariant DEF Next

LEMMA Safety == Spec => []RefreshInvariant
  BY InitInvariant, NextInvariant, PTL DEF Spec

\* Every variable has a value that the code gives it, the lock is held by whose
\* renewal is under way, and a request waits only while its tab has a renewal;
\* with Web Locks or without.
THEOREM TypeCorrect == Spec => []TypeOK
<1>1. RefreshInvariant => TypeOK
  BY DEF RefreshInvariant
<1> QED
  BY <1>1, Safety, PTL

\* Any number of tabs that take turns by the lock never get their own session
\* revoked as stolen, unless the answer to a renewal found nobody.
THEOREM LockedTabsKeepTheSession ==
  ASSUME WebLocks
  PROVE  Spec => []HealthySessionSurvives
<1>1. RefreshInvariant => HealthySessionSurvives
  BY DEF RefreshInvariant, NetKnowsTheLast, HealthySessionSurvives
<1> QED
  BY <1>1, Safety, PTL

\* And no request of theirs fails while no connection fails, no tab closes and
\* no lock takes fifteen seconds.
THEOREM LockedTabsSucceed ==
  ASSUME WebLocks
  PROVE  Spec => []RequestsSucceed
<1>1. RefreshInvariant => RequestsSucceed
  BY DEF RefreshInvariant
<1> QED
  BY <1>1, Safety, PTL
=============================================================================
