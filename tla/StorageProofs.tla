---------------------------- MODULE StorageProofs ----------------------------
(***************************************************************************)
(* The same calls leave the same rows and the same events in the three     *)
(* adapters (StorageParity), for all inputs and any number of calls.       *)
(***************************************************************************)
EXTENDS StorageParity, SequenceTheorems, FiniteSetTheorems, TLAPS

-----------------------------------------------------------------------------
(* What it is for two stores to agree.  WritesAgree compares what the      *)
(* adapters keep evenly; that says nothing of what a next write makes of   *)
(* it.  The invariant says more: each row is a record with the columns     *)
(* that writes look at, versions are numbers, and the logs hold alike      *)
(* events one by one.                                                      *)

\* r is a row: a record, so a function.
Fcn(r) == r = [c \in DOMAIN r |-> r[c]]

\* Null is told apart from a row: an event has a `before' or it has none.
NullIsNoRow == ~Fcn(None)

\* The columns that a write reads before it decides what to do.
Read ==
  {<<"turns", "archived">>, <<"candidates", "promoted">>, <<"candidates", "at">>,
   <<"items", "version">>, <<"associations", "source">>, <<"associations", "target">>,
   <<"associations", "type">>, <<"sessions", "session">>, <<"configs", "key">>,
   <<"configs", "at">>, <<"governance", "part">>, <<"governance", "name">>}

Row(tab, r) ==
  /\ Fcn(r)
  /\ "own" \in DOMAIN r
  /\ \A c : <<tab, c>> \in Read => c \in DOMAIN r
  /\ tab = "items" => r.version \in Int

\* Rows that agree in every column that the adapters keep evenly.
Alike(tab, r, q) ==
  /\ Row(tab, r) /\ Row(tab, q) /\ DOMAIN r = DOMAIN q
  /\ \A c \in DOMAIN r : <<tab, c>> \notin KeptUnevenly => r[c] = q[c]

AlikeRows(tab, f, g) ==
  DOMAIN f = DOMAIN g /\ \A i \in DOMAIN f : Alike(tab, f[i], g[i])

\* What an event holds of a row is alike, or null in both.
AlikeSnapshots(kind, r, q) == r = q \/ Alike(kind, r, q)

IsEvent(e) ==
  e = [kind |-> e.kind, id |-> e.id, type |-> e.type, own |-> e.own, session |-> e.session,
       before |-> e.before, after |-> e.after, at |-> e.at]

AlikeEvents(e, f) ==
  /\ IsEvent(e) /\ IsEvent(f)
  /\ e.kind = f.kind /\ e.id = f.id /\ e.type = f.type /\ e.own = f.own /\ e.session = f.session
  /\ e.at = f.at
  /\ AlikeSnapshots(e.kind, e.before, f.before)
  /\ AlikeSnapshots(e.kind, e.after, f.after)

\* A list of n elements.
Listed(l, n) == l = [k \in 1..n |-> l[k]]

AlikeLists(tab, rs, qs) ==
  \E n \in Nat : Listed(rs, n) /\ Listed(qs, n) /\ \A k \in 1..n : Alike(tab, rs[k], qs[k])

AlikeLogs(a, b) ==
  \E n \in Nat : Listed(a, n) /\ Listed(b, n) /\ \A k \in 1..n : AlikeEvents(a[k], b[k])

\* A table: finitely many rows, by their ids.
Numbered(f) == IsFiniteSet(DOMAIN f) /\ DOMAIN f \subseteq Int

IsStore(st) ==
  /\ DOMAIN st = Tables \cup {"events", "ids"}
  /\ \A tab \in Tables : Numbered(st[tab])
  /\ DOMAIN st.ids = Tables /\ \A tab \in Tables : st.ids[tab] \in Int

AlikeStores(s, m) ==
  /\ IsStore(s) /\ IsStore(m)
  /\ \A tab \in Tables : AlikeRows(tab, s[tab], m[tab])
  /\ AlikeLogs(s.events, m.events)

\* The inductive invariant.  That the ids are the same is no part of it: the guard
\* of Call (Aligned) sees to that.
Agree == AlikeStores(sqlite, memory) /\ AlikeStores(memory, postgres)

-----------------------------------------------------------------------------
(* Tables, lists and logs. *)

LEMMA NoTables == "events" \notin Tables /\ "ids" \notin Tables
BY DEF Tables

LEMMA TableNames ==
  /\ "turns" \in Tables /\ "working" \in Tables /\ "knowledge" \in Tables
  /\ "candidates" \in Tables /\ "evidence" \in Tables /\ "audits" \in Tables
  /\ "items" \in Tables /\ "monitors" \in Tables /\ "compactions" \in Tables
  /\ "playbooks" \in Tables /\ "revisions" \in Tables /\ "associations" \in Tables
  /\ "sessions" \in Tables /\ "documents" \in Tables /\ "configs" \in Tables
  /\ "governance" \in Tables
BY DEF Tables

LEMMA ListedSeq ==
    ASSUME NEW l, NEW n \in Nat, Listed(l, n), NEW X, \A k \in 1..n : l[k] \in X
    PROVE  l \in Seq(X) /\ Len(l) = n
<1>1. l \in [1..n -> X]
  BY DEF Listed
<1> QED
  BY <1>1

LEMMA ListedLen ==
    ASSUME NEW l, NEW n \in Nat, Listed(l, n)
    PROVE  Len(l) = n /\ DOMAIN l = 1..n
<1>1. DOMAIN l = 1..n
  BY DEF Listed
<1> DEFINE X == {l[k] : k \in 1..n}
<1>2. \A k \in 1..n : l[k] \in X
  OBVIOUS
<1> HIDE DEF X
<1> QED
  BY <1>1, <1>2, ListedSeq

\* c is a followed by b.
Joins(c, a, n, b, m) ==
  /\ Listed(c, n + m)
  /\ \A k \in 1..n : c[k] = a[k]
  /\ \A k \in 1..m : c[n + k] = b[k]

LEMMA ConcatListed ==
    ASSUME NEW a, NEW b, NEW n \in Nat, NEW m \in Nat, Listed(a, n), Listed(b, m)
    PROVE  Joins(a \o b, a, n, b, m)
<1> DEFINE X == {a[k] : k \in 1..n} \cup {b[k] : k \in 1..m}
<1>0. (\A k \in 1..n : a[k] \in X) /\ (\A k \in 1..m : b[k] \in X)
  OBVIOUS
<1> HIDE DEF X
<1>1. a \in Seq(X) /\ Len(a) = n
  BY <1>0, ListedSeq
<1>2. b \in Seq(X) /\ Len(b) = m
  BY <1>0, ListedSeq
<1>3. a \o b \in Seq(X) /\ Len(a \o b) = n + m
  BY <1>1, <1>2, ConcatProperties
<1>4. \A k \in 1..(n + m) : (a \o b)[k] = IF k <= n THEN a[k] ELSE b[k - n]
  BY <1>1, <1>2, ConcatProperties
<1>5. a \o b \in [1..(n + m) -> X]
  BY <1>3, LenProperties
<1>6. ASSUME NEW k \in 1..m PROVE (a \o b)[n + k] = b[k]
  <2>1. n + k \in 1..(n + m) /\ ~(n + k <= n) /\ (n + k) - n = k
    OBVIOUS
  <2> QED
    BY <1>4, <2>1
<1>7. ASSUME NEW k \in 1..n PROVE (a \o b)[k] = a[k]
  <2>1. k \in 1..(n + m) /\ k <= n
    OBVIOUS
  <2> QED
    BY <1>4, <2>1
<1>8. Listed(a \o b, n + m)
  BY <1>5 DEF Listed
<1> QED
  BY <1>6, <1>7, <1>8 DEF Joins

LEMMA ConcatAlike ==
    ASSUME NEW a, NEW b, NEW c, NEW d, AlikeLogs(a, b), AlikeLogs(c, d)
    PROVE  AlikeLogs(a \o c, b \o d)
<1>1. PICK n \in Nat : Listed(a, n) /\ Listed(b, n) /\ \A k \in 1..n : AlikeEvents(a[k], b[k])
  BY DEF AlikeLogs
<1>2. PICK m \in Nat : Listed(c, m) /\ Listed(d, m) /\ \A k \in 1..m : AlikeEvents(c[k], d[k])
  BY DEF AlikeLogs
<1>3. Joins(a \o c, a, n, c, m)
  BY <1>1, <1>2, ConcatListed
<1>4. Joins(b \o d, b, n, d, m)
  BY <1>1, <1>2, ConcatListed
<1> DEFINE u == a \o c
           v == b \o d
<1> HIDE DEF u, v
<1>30. Joins(u, a, n, c, m) /\ Joins(v, b, n, d, m)
  BY <1>3, <1>4 DEF u, v
<1>5. ASSUME NEW k \in 1..(n + m) PROVE AlikeEvents(u[k], v[k])
  <2>1. CASE k \in 1..n
    BY <1>1, <1>30, <2>1 DEF Joins
  <2>2. CASE k \notin 1..n
    <3>1. PICK j \in 1..m : k = n + j
      <4>1. k - n \in 1..m /\ k = n + (k - n)
        BY <2>2
      <4> QED
        BY <4>1
    <3> QED
      BY <1>2, <1>30, <3>1 DEF Joins
  <2> QED
    BY <2>1, <2>2
<1>6. n + m \in Nat /\ Listed(u, n + m) /\ Listed(v, n + m)
  BY <1>30 DEF Joins
<1>7. AlikeLogs(u, v)
  BY <1>5, <1>6 DEF AlikeLogs
<1> QED
  BY <1>7 DEF u, v

\* Events about two alike rows.
LEMMA EventAlike ==
    ASSUME NullIsNoRow, NEW kind, NEW id, NEW type, NEW at, NEW b, NEW c, NEW r, NEW q,
           (b = None /\ c = None) \/ Alike(kind, b, c),
           (r = None /\ q = None) \/ Alike(kind, r, q), r # None \/ b # None
    PROVE  AlikeEvents(Event(kind, id, type, b, r, at), Event(kind, id, type, c, q, at))
<1>1. <<kind, "own">> \notin KeptUnevenly /\ <<kind, "session">> \notin KeptUnevenly
  BY DEF KeptUnevenly
<1>2. ASSUME NEW x, NEW y, Alike(kind, x, y)
      PROVE  /\ x.own = y.own /\ ("session" \in DOMAIN x <=> "session" \in DOMAIN y)
             /\ "session" \in DOMAIN x => x.session = y.session
             /\ x # None /\ y # None
  BY <1>1, <1>2 DEF Alike, Row, NullIsNoRow
<1>0. AlikeSnapshots(kind, b, c) /\ AlikeSnapshots(kind, r, q)
  BY DEF AlikeSnapshots
<1>3. r = None <=> q = None
  BY <1>2
<1>4. CASE r # None
  <2>1. Alike(kind, r, q)
    BY <1>4
  <2> QED
    BY <1>0, <1>2, <1>3, <1>4, <2>1 DEF AlikeEvents, IsEvent, Event
<1>5. CASE r = None
  <2>1. Alike(kind, b, c)
    BY <1>5, <1>2
  <2> QED
    BY <1>0, <1>2, <1>3, <1>5, <2>1 DEF AlikeEvents, IsEvent, Event
<1> QED
  BY <1>4, <1>5

LEMMA OneEvent ==
    ASSUME NEW e, NEW f, AlikeEvents(e, f)
    PROVE  AlikeLogs(<<e>>, <<f>>)
<1>1. Listed(<<e>>, 1) /\ Listed(<<f>>, 1)
  BY DEF Listed
<1>2. \A k \in 1..1 : AlikeEvents(<<e>>[k], <<f>>[k])
  OBVIOUS
<1> QED
  BY <1>1, <1>2, 1 \in Nat DEF AlikeLogs

LEMMA OneRow ==
    ASSUME NEW tab, NEW r, NEW q, Alike(tab, r, q)
    PROVE  AlikeLists(tab, <<r>>, <<q>>)
<1>1. Listed(<<r>>, 1) /\ Listed(<<q>>, 1)
  BY DEF Listed
<1>2. \A k \in 1..1 : Alike(tab, <<r>>[k], <<q>>[k])
  OBVIOUS
<1> QED
  BY <1>1, <1>2, 1 \in Nat DEF AlikeLists

-----------------------------------------------------------------------------
(* The writes of StorageKernel keep stores alike. *)

\* Tables, ids and the log of what such a write leaves.
LEMMA LoggedAllIs ==
    ASSUME NEW st, IsStore(st), NEW es
    PROVE  LET t == LoggedAll(st, es)
           IN  /\ IsStore(t)
               /\ \A tab \in Tables : t[tab] = st[tab]
               /\ t.events = st.events \o es
               /\ t.ids = st.ids
BY NoTables DEF LoggedAll, IsStore

LEMMA LoggedAllAlike ==
    ASSUME NEW s, NEW m, NEW es, NEW fs, AlikeStores(s, m), AlikeLogs(es, fs)
    PROVE  AlikeStores(LoggedAll(s, es), LoggedAll(m, fs))
<1> DEFINE u == LoggedAll(s, es)
           v == LoggedAll(m, fs)
<1>1. /\ IsStore(u) /\ IsStore(v)
      /\ \A tab \in Tables : u[tab] = s[tab] /\ v[tab] = m[tab]
      /\ u.events = s.events \o es /\ v.events = m.events \o fs
  BY LoggedAllIs DEF AlikeStores
<1>2. AlikeLogs(s.events \o es, m.events \o fs)
  BY ConcatAlike DEF AlikeStores
<1> HIDE DEF u, v
<1>3. AlikeStores(u, v)
  BY <1>1, <1>2 DEF AlikeStores
<1> QED
  BY <1>3 DEF u, v

\* A table replaced by an alike one, and the ids as they may become.
LEMMA TableAlike ==
    ASSUME NEW s, NEW m, AlikeStores(s, m), NEW tab \in Tables, NEW u, NEW v,
           IsStore(u), IsStore(v), AlikeRows(tab, u[tab], v[tab]),
           \A x \in Tables \ {tab} : u[x] = s[x] /\ v[x] = m[x],
           u.events = s.events, v.events = m.events
    PROVE  AlikeStores(u, v)
<1>1. ASSUME NEW x \in Tables PROVE AlikeRows(x, u[x], v[x])
  <2>1. CASE x = tab
    BY <2>1
  <2>2. CASE x # tab
    BY <2>2 DEF AlikeStores
  <2> QED
    BY <2>1, <2>2
<1> QED
  BY <1>1 DEF AlikeStores

LEMMA ChangedAlike ==
    ASSUME NEW s, NEW m, AlikeStores(s, m), NEW tab \in Tables, NEW id, NEW r, NEW q,
           Alike(tab, r, q)
    PROVE  AlikeStores(Changed(s, tab, id, r), Changed(m, tab, id, q))
<1> DEFINE u == Changed(s, tab, id, r)
           v == Changed(m, tab, id, q)
<1>0. IsStore(s) /\ IsStore(m) /\ AlikeRows(tab, s[tab], m[tab])
  BY DEF AlikeStores
<1>6. ASSUME NEW st, IsStore(st), NEW z PROVE IsStore(Changed(st, tab, id, z))
  <2> DEFINE t == Changed(st, tab, id, z)
  <2>1. DOMAIN t = DOMAIN st /\ t.ids = st.ids
    BY <1>6, NoTables DEF Changed, IsStore
  <2>2. \A x \in Tables : DOMAIN t[x] = DOMAIN st[x]
    BY <1>6, NoTables DEF Changed, IsStore
  <2> HIDE DEF t
  <2>3. IsStore(t)
    BY <1>6, <2>1, <2>2 DEF IsStore, Numbered
  <2> QED
    BY <2>3 DEF t
<1>1. IsStore(u) /\ IsStore(v)
  BY <1>0, <1>6
<1>2. /\ \A x \in Tables \ {tab} : u[x] = s[x] /\ v[x] = m[x]
      /\ u.events = s.events /\ v.events = m.events
  BY <1>0, NoTables DEF Changed, IsStore
<1>3. u[tab] = [s[tab] EXCEPT ![id] = r] /\ v[tab] = [m[tab] EXCEPT ![id] = q]
  BY <1>0 DEF Changed, IsStore
<1> HIDE DEF u, v
<1>4. AlikeRows(tab, u[tab], v[tab])
  BY <1>0, <1>3 DEF AlikeRows
<1>5. AlikeStores(u, v)
  BY <1>1, <1>2, <1>4, TableAlike
<1> QED
  BY <1>5 DEF u, v

LEMMA RemovedAlike ==
    ASSUME NEW s, NEW m, AlikeStores(s, m), NEW tab \in Tables, NEW ids
    PROVE  AlikeStores(Removed(s, tab, ids), Removed(m, tab, ids))
<1> DEFINE u == Removed(s, tab, ids)
           v == Removed(m, tab, ids)
<1>0. IsStore(s) /\ IsStore(m) /\ AlikeRows(tab, s[tab], m[tab])
  BY DEF AlikeStores
<1>6. ASSUME NEW st, IsStore(st) PROVE IsStore(Removed(st, tab, ids))
  <2> DEFINE t == Removed(st, tab, ids)
  <2>1. DOMAIN t = DOMAIN st /\ t.ids = st.ids
    BY <1>6, NoTables DEF Removed, IsStore
  <2>2. /\ \A x \in Tables \ {tab} : t[x] = st[x]
        /\ DOMAIN t[tab] = DOMAIN st[tab] \ ids
    BY <1>6, NoTables DEF Removed, IsStore
  <2>3. Numbered(st[tab])
    BY <1>6 DEF IsStore
  <2> HIDE DEF t
  <2>4. Numbered(t[tab])
    BY <2>2, <2>3, FS_Difference DEF Numbered
  <2>5. IsStore(t)
    BY <1>6, <2>1, <2>2, <2>4 DEF IsStore
  <2> QED
    BY <2>5 DEF t
<1>1. IsStore(u) /\ IsStore(v)
  BY <1>0, <1>6
<1>2. /\ \A x \in Tables \ {tab} : u[x] = s[x] /\ v[x] = m[x]
      /\ u.events = s.events /\ v.events = m.events
  BY <1>0, NoTables DEF Removed, IsStore
<1>3. /\ u[tab] = [i \in DOMAIN s[tab] \ ids |-> s[tab][i]]
      /\ v[tab] = [i \in DOMAIN m[tab] \ ids |-> m[tab][i]]
  BY <1>0 DEF Removed, IsStore
<1> HIDE DEF u, v
<1>4. AlikeRows(tab, u[tab], v[tab])
  BY <1>0, <1>3 DEF AlikeRows
<1>5. AlikeStores(u, v)
  BY <1>1, <1>2, <1>4, TableAlike
<1> QED
  BY <1>5 DEF u, v

LEMMA AddedAllAlike ==
    ASSUME NEW s, NEW m, AlikeStores(s, m), NEW tab \in Tables, s.ids[tab] = m.ids[tab],
           NEW rs, NEW qs, AlikeLists(tab, rs, qs)
    PROVE  AlikeStores(AddedAll(s, tab, rs), AddedAll(m, tab, qs))
<1> DEFINE u == AddedAll(s, tab, rs)
           v == AddedAll(m, tab, qs)
           id == s.ids[tab]
<1>0. IsStore(s) /\ IsStore(m) /\ AlikeRows(tab, s[tab], m[tab]) /\ id \in Int
  BY DEF AlikeStores, IsStore
<1>6. PICK n \in Nat : Listed(rs, n) /\ Listed(qs, n) /\ \A k \in 1..n : Alike(tab, rs[k], qs[k])
  BY DEF AlikeLists
<1>7. Len(rs) = n /\ Len(qs) = n
  BY <1>6, ListedLen
<1>9. ASSUME NEW st, IsStore(st), NEW rows, Len(rows) = n PROVE IsStore(AddedAll(st, tab, rows))
  <2> DEFINE t == AddedAll(st, tab, rows)
             d == st.ids[tab]
  <2>7. /\ DOMAIN t = DOMAIN st
        /\ \A x \in Tables \ {tab} : t[x] = st[x]
        /\ t[tab] = With([i \in d .. d + n - 1 |-> rows[i - d + 1]], st[tab])
    BY <1>9, NoTables DEF AddedAll, IsStore, NewId
  <2>8. t.ids = [st.ids EXCEPT ![tab] = @ + n]
    BY <1>9, NoTables DEF AddedAll, IsStore, NewId
  <2>1. DOMAIN t.ids = DOMAIN st.ids /\ \A x \in Tables : t.ids[x] \in Int
    BY <1>9, <2>8 DEF IsStore
  <2>2. Numbered(st[tab]) /\ d \in Int
    BY <1>9 DEF IsStore
  <2> HIDE DEF t, d
  <2>3. DOMAIN t[tab] = (d .. d + n - 1) \cup DOMAIN st[tab]
    BY <2>7 DEF With
  <2>9. d + n - 1 \in Int
    BY <2>2
  <2>4. IsFiniteSet(d .. d + n - 1) /\ (d .. d + n - 1) \subseteq Int
    BY <2>2, <2>9, FS_Interval
  <2>10. IsFiniteSet((d .. d + n - 1) \cup DOMAIN st[tab])
    BY <2>2, <2>4, FS_Union DEF Numbered
  <2>5. Numbered(t[tab])
    BY <2>2, <2>3, <2>4, <2>10 DEF Numbered
  <2>6. IsStore(t)
    BY <1>9, <2>1, <2>7, <2>5 DEF IsStore
  <2> QED
    BY <2>6 DEF t
<1>1. IsStore(u) /\ IsStore(v)
  BY <1>0, <1>7, <1>9
<1>2. /\ \A x \in Tables \ {tab} : u[x] = s[x] /\ v[x] = m[x]
      /\ u.events = s.events /\ v.events = m.events
  BY <1>0, NoTables DEF AddedAll, IsStore, NewId
<1> DEFINE New(rows) == [i \in id .. id + n - 1 |-> rows[i - id + 1]]
<1>3. u[tab] = With(New(rs), s[tab]) /\ v[tab] = With(New(qs), m[tab])
  BY <1>0, <1>7, NoTables DEF AddedAll, IsStore, NewId
<1>4. ASSUME NEW i \in id .. id + n - 1 PROVE Alike(tab, New(rs)[i], New(qs)[i])
  <2>1. i - id + 1 \in 1..n
    BY <1>0
  <2> QED
    BY <1>6, <2>1
<1>40. DOMAIN New(rs) = id .. id + n - 1 /\ DOMAIN New(qs) = id .. id + n - 1
  OBVIOUS
<1> HIDE DEF u, v, New, id
<1>8. AlikeRows(tab, u[tab], v[tab])
  BY <1>0, <1>3, <1>4, <1>40 DEF AlikeRows, With
<1>5. AlikeStores(u, v)
  BY <1>1, <1>2, <1>8, TableAlike
<1> QED
  BY <1>5 DEF u, v

LEMMA RolledBackAlike ==
    ASSUME NEW s, NEW m, AlikeStores(s, m), NEW tab \in Tables, NEW n \in Int
    PROVE  AlikeStores(s, [m EXCEPT !.ids[tab] = @ + n])
<1> DEFINE v == [m EXCEPT !.ids[tab] = @ + n]
<1>0. IsStore(s) /\ IsStore(m)
  BY DEF AlikeStores
<1>1. IsStore(v)
  BY <1>0, NoTables DEF IsStore
<1>2. (\A x \in Tables : v[x] = m[x]) /\ v.events = m.events
  BY <1>0, NoTables DEF IsStore
<1> HIDE DEF v
<1>3. AlikeStores(s, v)
  BY <1>0, <1>1, <1>2 DEF AlikeStores
<1> QED
  BY <1>3 DEF v

LEMMA LoggedAlike ==
    ASSUME NullIsNoRow, NEW s, NEW m, AlikeStores(s, m), NEW kind, NEW id, NEW type, NEW at,
           NEW b, NEW c, NEW r, NEW q,
           (b = None /\ c = None) \/ Alike(kind, b, c),
           (r = None /\ q = None) \/ Alike(kind, r, q), r # None \/ b # None
    PROVE  AlikeStores(Logged(s, kind, id, type, b, r, at), Logged(m, kind, id, type, c, q, at))
<1>1. AlikeEvents(Event(kind, id, type, b, r, at), Event(kind, id, type, c, q, at))
  BY EventAlike
<1>2. AlikeLogs(<<Event(kind, id, type, b, r, at)>>, <<Event(kind, id, type, c, q, at)>>)
  BY <1>1, OneEvent
<1> QED
  BY <1>2, LoggedAllAlike DEF Logged

LEMMA AlikeIsRow ==
    ASSUME NullIsNoRow, NEW tab, NEW r, NEW q, Alike(tab, r, q)
    PROVE  r # None /\ q # None
BY DEF Alike, Row, NullIsNoRow

LEMMA EditedAlike ==
    ASSUME NullIsNoRow, NEW s, NEW m, AlikeStores(s, m), NEW tab \in Tables,
           NEW id \in DOMAIN s[tab], NEW type, NEW at, NEW r, NEW q, Alike(tab, r, q)
    PROVE  AlikeStores(Edited(s, tab, id, type, r, at), Edited(m, tab, id, type, q, at))
<1>1. AlikeStores(Changed(s, tab, id, r), Changed(m, tab, id, q))
  BY ChangedAlike
<1>2. Alike(tab, s[tab][id], m[tab][id])
  BY DEF AlikeStores, AlikeRows
<1>3. r # None
  BY AlikeIsRow
<1> QED
  BY <1>1, <1>2, <1>3, LoggedAlike DEF Edited

LEMMA DeletedAlike ==
    ASSUME NullIsNoRow, NEW s, NEW m, AlikeStores(s, m), NEW tab \in Tables,
           NEW id \in DOMAIN s[tab], NEW type, NEW at
    PROVE  AlikeStores(Deleted(s, tab, id, type, at), Deleted(m, tab, id, type, at))
<1>1. AlikeStores(Removed(s, tab, {id}), Removed(m, tab, {id}))
  BY RemovedAlike
<1>2. Alike(tab, s[tab][id], m[tab][id])
  BY DEF AlikeStores, AlikeRows
<1>3. s[tab][id] # None
  BY <1>2, AlikeIsRow
<1> QED
  BY <1>1, <1>2, <1>3, LoggedAlike DEF Deleted

LEMMA CreatedAllAlike ==
    ASSUME NullIsNoRow, NEW s, NEW m, AlikeStores(s, m), NEW tab \in Tables,
           s.ids[tab] = m.ids[tab], NEW rs, NEW qs, AlikeLists(tab, rs, qs),
           \A k \in DOMAIN rs : rs[k].at = qs[k].at
    PROVE  AlikeStores(CreatedAll(s, tab, rs), CreatedAll(m, tab, qs))
<1> DEFINE Made(st, rows) == [k \in DOMAIN rows |->
               Event(tab, NewId(st, tab) + k - 1, "created", None, rows[k], rows[k].at)]
<1>1. PICK n \in Nat : Listed(rs, n) /\ Listed(qs, n) /\ \A k \in 1..n : Alike(tab, rs[k], qs[k])
  BY DEF AlikeLists
<1>2. DOMAIN rs = 1..n /\ DOMAIN qs = 1..n
  BY <1>1, ListedLen
<1>3. Listed(Made(s, rs), n) /\ Listed(Made(m, qs), n)
  BY <1>2 DEF Listed
<1>4. ASSUME NEW k \in 1..n PROVE AlikeEvents(Made(s, rs)[k], Made(m, qs)[k])
  <2>1. Alike(tab, rs[k], qs[k]) /\ rs[k].at = qs[k].at
    BY <1>1, <1>2
  <2>2. rs[k] # None
    BY <2>1, AlikeIsRow
  <2>3. NewId(s, tab) = NewId(m, tab)
    BY DEF NewId
  <2>4. AlikeEvents(Event(tab, NewId(s, tab) + k - 1, "created", None, rs[k], rs[k].at),
                    Event(tab, NewId(s, tab) + k - 1, "created", None, qs[k], rs[k].at))
    BY <2>1, <2>2, EventAlike
  <2> QED
    BY <1>2, <2>1, <2>3, <2>4
<1> HIDE DEF Made
<1>5. AlikeLogs(Made(s, rs), Made(m, qs))
  BY <1>3, <1>4 DEF AlikeLogs
<1>6. AlikeStores(AddedAll(s, tab, rs), AddedAll(m, tab, qs))
  BY AddedAllAlike
<1>7. AlikeStores(LoggedAll(AddedAll(s, tab, rs), Made(s, rs)),
                  LoggedAll(AddedAll(m, tab, qs), Made(m, qs)))
  BY <1>5, <1>6, LoggedAllAlike
<1> QED
  BY <1>7 DEF CreatedAll, Made

LEMMA CreatedAlike ==
    ASSUME NullIsNoRow, NEW s, NEW m, AlikeStores(s, m), NEW tab \in Tables,
           s.ids[tab] = m.ids[tab], NEW r, NEW q, Alike(tab, r, q), r.at = q.at
    PROVE  AlikeStores(Created(s, tab, r), Created(m, tab, q))
<1>1. AlikeLists(tab, <<r>>, <<q>>)
  BY OneRow
<1>2. \A k \in DOMAIN <<r>> : <<r>>[k].at = <<q>>[k].at
  OBVIOUS
<1> QED
  BY <1>1, <1>2, CreatedAllAlike DEF Created

LEMMA AddedAlike ==
    ASSUME NEW s, NEW m, AlikeStores(s, m), NEW tab \in Tables,
           s.ids[tab] = m.ids[tab], NEW r, NEW q, Alike(tab, r, q)
    PROVE  AlikeStores(Added(s, tab, r), Added(m, tab, q))
<1>1. AlikeLists(tab, <<r>>, <<q>>)
  BY OneRow
<1> QED
  BY <1>1, AddedAllAlike DEF Added

LEMMA PutAlike ==
    ASSUME NEW s, NEW m, AlikeStores(s, m), NEW tab \in Tables,
           s.ids[tab] = m.ids[tab], NEW ids, NEW r, NEW q, Alike(tab, r, q)
    PROVE  AlikeStores(Put(s, tab, ids, r), Put(m, tab, ids, q))
<1>1. AlikeStores(Added(s, tab, r), Added(m, tab, q))
  BY AddedAlike
<1>2. AlikeStores(Changed(s, tab, TheOne(ids), r), Changed(m, tab, TheOne(ids), q))
  BY ChangedAlike
<1> QED
  BY <1>1, <1>2 DEF Put

-----------------------------------------------------------------------------
(* Each adapter has StorageKernel as its own (S!Event and Event are two    *)
(* definitions to the prover): they are the same operators.                *)

LEMMA SqliteKernel ==
  /\ \A x, d : S!Given(x, d) = Given(x, d)
  /\ \A st, tab : S!NewId(st, tab) = NewId(st, tab)
  /\ \A st, tab, id : S!Exists(st, tab, id) = Exists(st, tab, id)
  /\ \A new, old : S!With(new, old) = With(new, old)
  /\ \A st, tab, rows : S!AddedAll(st, tab, rows) = AddedAll(st, tab, rows)
  /\ \A st, tab, row : S!Added(st, tab, row) = Added(st, tab, row)
  /\ \A st, tab, id, row : S!Changed(st, tab, id, row) = Changed(st, tab, id, row)
  /\ \A st, tab, ids : S!Removed(st, tab, ids) = Removed(st, tab, ids)
  /\ \A kind, id, type, b, r, at : S!Event(kind, id, type, b, r, at)
       = Event(kind, id, type, b, r, at)
  /\ \A st, events : S!LoggedAll(st, events) = LoggedAll(st, events)
  /\ \A st, kind, id, type, b, r, at : S!Logged(st, kind, id, type, b, r, at)
       = Logged(st, kind, id, type, b, r, at)
  /\ \A st, tab, rows : S!CreatedAll(st, tab, rows) = CreatedAll(st, tab, rows)
  /\ \A st, tab, row : S!Created(st, tab, row) = Created(st, tab, row)
  /\ \A st, tab, id, type, r, at : S!Edited(st, tab, id, type, r, at)
       = Edited(st, tab, id, type, r, at)
  /\ \A st, tab, id, type, at : S!Deleted(st, tab, id, type, at) = Deleted(st, tab, id, type, at)
  /\ \A in : S!AllValid(in) = AllValid(in)
  /\ \A in : S!BeforeFailure(in) = BeforeFailure(in)
  /\ \A ids : S!TheOne(ids) = TheOne(ids)
  /\ \A st, tab, ids, row : S!Put(st, tab, ids, row) = Put(st, tab, ids, row)
<1>1. \A x, d : S!Given(x, d) = Given(x, d)
  BY DEF Given, S!Given
<1>2. \A st, tab : S!NewId(st, tab) = NewId(st, tab)
  BY DEF NewId, S!NewId
<1>3. \A st, tab, id : S!Exists(st, tab, id) = Exists(st, tab, id)
  BY DEF Exists, S!Exists
<1>4. \A new, old : S!With(new, old) = With(new, old)
  BY DEF With, S!With
<1>5. \A st, tab, rows : S!AddedAll(st, tab, rows) = AddedAll(st, tab, rows)
  BY DEF AddedAll, With, NewId, S!AddedAll, S!With, S!NewId
<1>6. \A st, tab, row : S!Added(st, tab, row) = Added(st, tab, row)
  BY DEF Added, AddedAll, With, NewId, S!Added, S!AddedAll, S!With, S!NewId
<1>7. \A st, tab, id, row : S!Changed(st, tab, id, row) = Changed(st, tab, id, row)
  BY DEF Changed, S!Changed
<1>8. \A st, tab, ids : S!Removed(st, tab, ids) = Removed(st, tab, ids)
  BY DEF Removed, S!Removed
<1>9. \A kind, id, type, b, r, at : S!Event(kind, id, type, b, r, at)
        = Event(kind, id, type, b, r, at)
  BY DEF Event, S!Event
<1>10. \A st, events : S!LoggedAll(st, events) = LoggedAll(st, events)
  BY DEF LoggedAll, S!LoggedAll
<1>11. \A st, kind, id, type, b, r, at : S!Logged(st, kind, id, type, b, r, at)
         = Logged(st, kind, id, type, b, r, at)
  BY DEF Logged, LoggedAll, Event, S!Logged, S!LoggedAll, S!Event
<1>12. \A st, tab, rows : S!CreatedAll(st, tab, rows) = CreatedAll(st, tab, rows)
  BY DEF CreatedAll, LoggedAll, AddedAll, With, NewId, Event, S!CreatedAll, S!LoggedAll,
         S!AddedAll, S!With, S!NewId, S!Event
<1>13. \A st, tab, row : S!Created(st, tab, row) = Created(st, tab, row)
  BY DEF Created, CreatedAll, LoggedAll, AddedAll, With, NewId, Event, S!Created, S!CreatedAll,
         S!LoggedAll, S!AddedAll, S!With, S!NewId, S!Event
<1>14. \A st, tab, id, type, r, at : S!Edited(st, tab, id, type, r, at)
         = Edited(st, tab, id, type, r, at)
  BY DEF Edited, Logged, LoggedAll, Event, Changed, S!Edited, S!Logged, S!LoggedAll, S!Event,
         S!Changed
<1>15. \A st, tab, id, type, at : S!Deleted(st, tab, id, type, at) = Deleted(st, tab, id, type, at)
  BY DEF Deleted, Logged, LoggedAll, Event, Removed, S!Deleted, S!Logged, S!LoggedAll, S!Event,
         S!Removed
<1>16. \A in : S!AllValid(in) = AllValid(in)
  BY DEF AllValid, S!AllValid
<1>17. \A in : S!BeforeFailure(in) = BeforeFailure(in)
  BY DEF BeforeFailure, S!BeforeFailure
<1>18. \A ids : S!TheOne(ids) = TheOne(ids)
  BY DEF TheOne, S!TheOne
<1>19. \A st, tab, ids, row : S!Put(st, tab, ids, row) = Put(st, tab, ids, row)
  BY DEF Put, Added, AddedAll, With, NewId, Changed, TheOne, S!Put, S!Added, S!AddedAll, S!With,
         S!NewId, S!Changed, S!TheOne
<1> QED
  BY <1>1, <1>2, <1>3, <1>4, <1>5, <1>6, <1>7, <1>8, <1>9, <1>10, <1>11, <1>12, <1>13, <1>14,
     <1>15, <1>16, <1>17, <1>18, <1>19

LEMMA MemoryKernel ==
  /\ \A x, d : M!Given(x, d) = Given(x, d)
  /\ \A st, tab : M!NewId(st, tab) = NewId(st, tab)
  /\ \A st, tab, id : M!Exists(st, tab, id) = Exists(st, tab, id)
  /\ \A new, old : M!With(new, old) = With(new, old)
  /\ \A st, tab, rows : M!AddedAll(st, tab, rows) = AddedAll(st, tab, rows)
  /\ \A st, tab, row : M!Added(st, tab, row) = Added(st, tab, row)
  /\ \A st, tab, id, row : M!Changed(st, tab, id, row) = Changed(st, tab, id, row)
  /\ \A st, tab, ids : M!Removed(st, tab, ids) = Removed(st, tab, ids)
  /\ \A kind, id, type, b, r, at : M!Event(kind, id, type, b, r, at)
       = Event(kind, id, type, b, r, at)
  /\ \A st, events : M!LoggedAll(st, events) = LoggedAll(st, events)
  /\ \A st, kind, id, type, b, r, at : M!Logged(st, kind, id, type, b, r, at)
       = Logged(st, kind, id, type, b, r, at)
  /\ \A st, tab, rows : M!CreatedAll(st, tab, rows) = CreatedAll(st, tab, rows)
  /\ \A st, tab, row : M!Created(st, tab, row) = Created(st, tab, row)
  /\ \A st, tab, id, type, r, at : M!Edited(st, tab, id, type, r, at)
       = Edited(st, tab, id, type, r, at)
  /\ \A st, tab, id, type, at : M!Deleted(st, tab, id, type, at) = Deleted(st, tab, id, type, at)
  /\ \A in : M!AllValid(in) = AllValid(in)
  /\ \A in : M!BeforeFailure(in) = BeforeFailure(in)
  /\ \A ids : M!TheOne(ids) = TheOne(ids)
  /\ \A st, tab, ids, row : M!Put(st, tab, ids, row) = Put(st, tab, ids, row)
<1>1. \A x, d : M!Given(x, d) = Given(x, d)
  BY DEF Given, M!Given
<1>2. \A st, tab : M!NewId(st, tab) = NewId(st, tab)
  BY DEF NewId, M!NewId
<1>3. \A st, tab, id : M!Exists(st, tab, id) = Exists(st, tab, id)
  BY DEF Exists, M!Exists
<1>4. \A new, old : M!With(new, old) = With(new, old)
  BY DEF With, M!With
<1>5. \A st, tab, rows : M!AddedAll(st, tab, rows) = AddedAll(st, tab, rows)
  BY DEF AddedAll, With, NewId, M!AddedAll, M!With, M!NewId
<1>6. \A st, tab, row : M!Added(st, tab, row) = Added(st, tab, row)
  BY DEF Added, AddedAll, With, NewId, M!Added, M!AddedAll, M!With, M!NewId
<1>7. \A st, tab, id, row : M!Changed(st, tab, id, row) = Changed(st, tab, id, row)
  BY DEF Changed, M!Changed
<1>8. \A st, tab, ids : M!Removed(st, tab, ids) = Removed(st, tab, ids)
  BY DEF Removed, M!Removed
<1>9. \A kind, id, type, b, r, at : M!Event(kind, id, type, b, r, at)
        = Event(kind, id, type, b, r, at)
  BY DEF Event, M!Event
<1>10. \A st, events : M!LoggedAll(st, events) = LoggedAll(st, events)
  BY DEF LoggedAll, M!LoggedAll
<1>11. \A st, kind, id, type, b, r, at : M!Logged(st, kind, id, type, b, r, at)
         = Logged(st, kind, id, type, b, r, at)
  BY DEF Logged, LoggedAll, Event, M!Logged, M!LoggedAll, M!Event
<1>12. \A st, tab, rows : M!CreatedAll(st, tab, rows) = CreatedAll(st, tab, rows)
  BY DEF CreatedAll, LoggedAll, AddedAll, With, NewId, Event, M!CreatedAll, M!LoggedAll,
         M!AddedAll, M!With, M!NewId, M!Event
<1>13. \A st, tab, row : M!Created(st, tab, row) = Created(st, tab, row)
  BY DEF Created, CreatedAll, LoggedAll, AddedAll, With, NewId, Event, M!Created, M!CreatedAll,
         M!LoggedAll, M!AddedAll, M!With, M!NewId, M!Event
<1>14. \A st, tab, id, type, r, at : M!Edited(st, tab, id, type, r, at)
         = Edited(st, tab, id, type, r, at)
  BY DEF Edited, Logged, LoggedAll, Event, Changed, M!Edited, M!Logged, M!LoggedAll, M!Event,
         M!Changed
<1>15. \A st, tab, id, type, at : M!Deleted(st, tab, id, type, at) = Deleted(st, tab, id, type, at)
  BY DEF Deleted, Logged, LoggedAll, Event, Removed, M!Deleted, M!Logged, M!LoggedAll, M!Event,
         M!Removed
<1>16. \A in : M!AllValid(in) = AllValid(in)
  BY DEF AllValid, M!AllValid
<1>17. \A in : M!BeforeFailure(in) = BeforeFailure(in)
  BY DEF BeforeFailure, M!BeforeFailure
<1>18. \A ids : M!TheOne(ids) = TheOne(ids)
  BY DEF TheOne, M!TheOne
<1>19. \A st, tab, ids, row : M!Put(st, tab, ids, row) = Put(st, tab, ids, row)
  BY DEF Put, Added, AddedAll, With, NewId, Changed, TheOne, M!Put, M!Added, M!AddedAll, M!With,
         M!NewId, M!Changed, M!TheOne
<1> QED
  BY <1>1, <1>2, <1>3, <1>4, <1>5, <1>6, <1>7, <1>8, <1>9, <1>10, <1>11, <1>12, <1>13, <1>14,
     <1>15, <1>16, <1>17, <1>18, <1>19

LEMMA PostgresKernel ==
  /\ \A x, d : P!Given(x, d) = Given(x, d)
  /\ \A st, tab : P!NewId(st, tab) = NewId(st, tab)
  /\ \A st, tab, id : P!Exists(st, tab, id) = Exists(st, tab, id)
  /\ \A new, old : P!With(new, old) = With(new, old)
  /\ \A st, tab, rows : P!AddedAll(st, tab, rows) = AddedAll(st, tab, rows)
  /\ \A st, tab, row : P!Added(st, tab, row) = Added(st, tab, row)
  /\ \A st, tab, id, row : P!Changed(st, tab, id, row) = Changed(st, tab, id, row)
  /\ \A st, tab, ids : P!Removed(st, tab, ids) = Removed(st, tab, ids)
  /\ \A kind, id, type, b, r, at : P!Event(kind, id, type, b, r, at)
       = Event(kind, id, type, b, r, at)
  /\ \A st, events : P!LoggedAll(st, events) = LoggedAll(st, events)
  /\ \A st, kind, id, type, b, r, at : P!Logged(st, kind, id, type, b, r, at)
       = Logged(st, kind, id, type, b, r, at)
  /\ \A st, tab, rows : P!CreatedAll(st, tab, rows) = CreatedAll(st, tab, rows)
  /\ \A st, tab, row : P!Created(st, tab, row) = Created(st, tab, row)
  /\ \A st, tab, id, type, r, at : P!Edited(st, tab, id, type, r, at)
       = Edited(st, tab, id, type, r, at)
  /\ \A st, tab, id, type, at : P!Deleted(st, tab, id, type, at) = Deleted(st, tab, id, type, at)
  /\ \A in : P!AllValid(in) = AllValid(in)
  /\ \A in : P!BeforeFailure(in) = BeforeFailure(in)
  /\ \A ids : P!TheOne(ids) = TheOne(ids)
  /\ \A st, tab, ids, row : P!Put(st, tab, ids, row) = Put(st, tab, ids, row)
<1>1. \A x, d : P!Given(x, d) = Given(x, d)
  BY DEF Given, P!Given
<1>2. \A st, tab : P!NewId(st, tab) = NewId(st, tab)
  BY DEF NewId, P!NewId
<1>3. \A st, tab, id : P!Exists(st, tab, id) = Exists(st, tab, id)
  BY DEF Exists, P!Exists
<1>4. \A new, old : P!With(new, old) = With(new, old)
  BY DEF With, P!With
<1>5. \A st, tab, rows : P!AddedAll(st, tab, rows) = AddedAll(st, tab, rows)
  BY DEF AddedAll, With, NewId, P!AddedAll, P!With, P!NewId
<1>6. \A st, tab, row : P!Added(st, tab, row) = Added(st, tab, row)
  BY DEF Added, AddedAll, With, NewId, P!Added, P!AddedAll, P!With, P!NewId
<1>7. \A st, tab, id, row : P!Changed(st, tab, id, row) = Changed(st, tab, id, row)
  BY DEF Changed, P!Changed
<1>8. \A st, tab, ids : P!Removed(st, tab, ids) = Removed(st, tab, ids)
  BY DEF Removed, P!Removed
<1>9. \A kind, id, type, b, r, at : P!Event(kind, id, type, b, r, at)
        = Event(kind, id, type, b, r, at)
  BY DEF Event, P!Event
<1>10. \A st, events : P!LoggedAll(st, events) = LoggedAll(st, events)
  BY DEF LoggedAll, P!LoggedAll
<1>11. \A st, kind, id, type, b, r, at : P!Logged(st, kind, id, type, b, r, at)
         = Logged(st, kind, id, type, b, r, at)
  BY DEF Logged, LoggedAll, Event, P!Logged, P!LoggedAll, P!Event
<1>12. \A st, tab, rows : P!CreatedAll(st, tab, rows) = CreatedAll(st, tab, rows)
  BY DEF CreatedAll, LoggedAll, AddedAll, With, NewId, Event, P!CreatedAll, P!LoggedAll,
         P!AddedAll, P!With, P!NewId, P!Event
<1>13. \A st, tab, row : P!Created(st, tab, row) = Created(st, tab, row)
  BY DEF Created, CreatedAll, LoggedAll, AddedAll, With, NewId, Event, P!Created, P!CreatedAll,
         P!LoggedAll, P!AddedAll, P!With, P!NewId, P!Event
<1>14. \A st, tab, id, type, r, at : P!Edited(st, tab, id, type, r, at)
         = Edited(st, tab, id, type, r, at)
  BY DEF Edited, Logged, LoggedAll, Event, Changed, P!Edited, P!Logged, P!LoggedAll, P!Event,
         P!Changed
<1>15. \A st, tab, id, type, at : P!Deleted(st, tab, id, type, at) = Deleted(st, tab, id, type, at)
  BY DEF Deleted, Logged, LoggedAll, Event, Removed, P!Deleted, P!Logged, P!LoggedAll, P!Event,
         P!Removed
<1>16. \A in : P!AllValid(in) = AllValid(in)
  BY DEF AllValid, P!AllValid
<1>17. \A in : P!BeforeFailure(in) = BeforeFailure(in)
  BY DEF BeforeFailure, P!BeforeFailure
<1>18. \A ids : P!TheOne(ids) = TheOne(ids)
  BY DEF TheOne, P!TheOne
<1>19. \A st, tab, ids, row : P!Put(st, tab, ids, row) = Put(st, tab, ids, row)
  BY DEF Put, Added, AddedAll, With, NewId, Changed, TheOne, P!Put, P!Added, P!AddedAll, P!With,
         P!NewId, P!Changed, P!TheOne
<1> QED
  BY <1>1, <1>2, <1>3, <1>4, <1>5, <1>6, <1>7, <1>8, <1>9, <1>10, <1>11, <1>12, <1>13, <1>14,
     <1>15, <1>16, <1>17, <1>18, <1>19

-----------------------------------------------------------------------------
(* Rows, and the columns that a write sets. *)

LEMMA SameAlike ==
    ASSUME NEW tab, NEW r, Row(tab, r)
    PROVE  Alike(tab, r, r)
BY DEF Alike

LEMMA RowAlike ==
    ASSUME NEW s, NEW m, AlikeStores(s, m), NEW tab \in Tables, NEW id \in DOMAIN s[tab]
    PROVE  Alike(tab, s[tab][id], m[tab][id])
BY DEF AlikeStores, AlikeRows

LEMMA ExistAlike ==
    ASSUME NEW s, NEW m, AlikeStores(s, m), NEW tab \in Tables, NEW id
    PROVE  Exists(s, tab, id) <=> Exists(m, tab, id)
BY DEF AlikeStores, AlikeRows, Exists

EditedIfThere(st, tab, id, type, r, at) ==
  IF ~Exists(st, tab, id) THEN st ELSE Edited(st, tab, id, type, r, at)

LEMMA EditedIfThereAlike ==
    ASSUME NullIsNoRow, NEW s, NEW m, AlikeStores(s, m), NEW tab \in Tables, NEW id, NEW type,
           NEW at, NEW r, NEW q, id \in DOMAIN s[tab] => Alike(tab, r, q)
    PROVE  AlikeStores(EditedIfThere(s, tab, id, type, r, at),
                       EditedIfThere(m, tab, id, type, q, at))
<1>1. CASE Exists(s, tab, id)
  <2>1. id \in DOMAIN s[tab] /\ Alike(tab, r, q) /\ Exists(m, tab, id)
    BY <1>1, ExistAlike DEF Exists
  <2> QED
    BY <1>1, <2>1, EditedAlike DEF EditedIfThere
<1>2. CASE ~Exists(s, tab, id)
  BY <1>2, ExistAlike DEF EditedIfThere
<1> QED
  BY <1>1, <1>2

-----------------------------------------------------------------------------
LEMMA NewTurnAlike ==
    ASSUME NEW in, NEW t
    PROVE  /\ S!NewTurn(in, t) = M!NewTurn(in, t) /\ P!NewTurn(in, t) = M!NewTurn(in, t)
           /\ Row("turns", M!NewTurn(in, t))
<1>1. S!NewTurn(in, t) = M!NewTurn(in, t) /\ P!NewTurn(in, t) = M!NewTurn(in, t)
  BY SqliteKernel, MemoryKernel, PostgresKernel DEF S!NewTurn, M!NewTurn, P!NewTurn
<1>2. Row("turns", M!NewTurn(in, t))
  BY DEF M!NewTurn, Row, Fcn, Read
<1> QED
  BY <1>1, <1>2

LEMMA InsertTurnAgrees ==
    ASSUME NullIsNoRow, Agree, NEW in, InsertTurn(in)
    PROVE  Agree'
<1> DEFINE r == M!NewTurn(in, now)
<1>1. Alike("turns", r, r)
  BY NewTurnAlike, SameAlike
<1>2. /\ sqlite' = Created(sqlite, "turns", r) /\ memory' = Created(memory, "turns", r)
      /\ postgres' = Created(postgres, "turns", r) /\ Aligned
  BY SqliteKernel, MemoryKernel, PostgresKernel, NewTurnAlike
     DEF InsertTurn, Call, S!InsertTurn, M!InsertTurn, P!InsertTurn
<1> HIDE DEF r
<1>3. "turns" \in Tables
  BY DEF Tables
<1>4. AlikeStores(Created(sqlite, "turns", r), Created(memory, "turns", r))
  BY <1>1, <1>2, <1>3, CreatedAlike DEF Agree, Aligned
<1>5. AlikeStores(Created(memory, "turns", r), Created(postgres, "turns", r))
  BY <1>1, <1>2, <1>3, CreatedAlike DEF Agree, Aligned
<1> QED
  BY <1>2, <1>4, <1>5 DEF Agree

\* One column written, or several by a row of the new values.
LEMMA SetAlike ==
    ASSUME NEW tab, NEW r, NEW q, Alike(tab, r, q), NEW c, NEW v, NEW w,
           c \in DOMAIN r => v = w \/ <<tab, c>> \in KeptUnevenly,
           tab = "items" /\ c = "version" => v \in Int /\ w \in Int
    PROVE  Alike(tab, [r EXCEPT ![c] = v], [q EXCEPT ![c] = w])
<1> DEFINE x == [r EXCEPT ![c] = v]
           y == [q EXCEPT ![c] = w]
<1>1. DOMAIN x = DOMAIN r /\ DOMAIN y = DOMAIN q /\ DOMAIN r = DOMAIN q
  BY DEF Alike
<1>2. Fcn(x) /\ Fcn(y)
  BY DEF Fcn
<1>3. \A d \in DOMAIN r : x[d] = (IF d = c THEN v ELSE r[d]) /\ y[d] = (IF d = c THEN w ELSE q[d])
  BY <1>1
<1> HIDE DEF x, y
<1>4. Row(tab, x) /\ Row(tab, y)
  <2>1. tab = "items" => "version" \in DOMAIN r
    BY DEF Alike, Row, Read
  <2> QED
    BY <1>1, <1>2, <1>3, <2>1 DEF Alike, Row
<1>5. Alike(tab, x, y)
  BY <1>1, <1>3, <1>4 DEF Alike
<1> QED
  BY <1>5 DEF x, y

LEMMA DriftAlike ==
    ASSUME NEW tab, NEW r, NEW q, Alike(tab, r, q), NEW c, NEW w, <<tab, c>> \in KeptUnevenly,
           tab = "items" /\ c = "version" => w \in Int
    PROVE  Alike(tab, r, [q EXCEPT ![c] = w])
<1> DEFINE y == [q EXCEPT ![c] = w]
<1>1. DOMAIN y = DOMAIN q /\ DOMAIN r = DOMAIN q
  BY DEF Alike
<1>2. Fcn(y)
  BY DEF Fcn
<1>3. \A d \in DOMAIN q : y[d] = (IF d = c THEN w ELSE q[d])
  BY <1>1
<1> HIDE DEF y
<1>4. Row(tab, y)
  <2>1. tab = "items" => "version" \in DOMAIN q
    BY DEF Alike, Row, Read
  <2> QED
    BY <1>1, <1>2, <1>3, <2>1 DEF Alike, Row
<1>5. Alike(tab, r, y)
  BY <1>1, <1>3, <1>4 DEF Alike
<1> QED
  BY <1>5 DEF y

LEMMA WithAlike ==
    ASSUME NEW tab, NEW r, NEW q, Alike(tab, r, q), NEW patch,
           tab = "items" => "version" \notin DOMAIN patch
    PROVE  Alike(tab, With(patch, r), With(patch, q))
<1> DEFINE x == With(patch, r)
           y == With(patch, q)
<1>1. /\ DOMAIN x = DOMAIN patch \cup DOMAIN r /\ DOMAIN y = DOMAIN patch \cup DOMAIN q
      /\ DOMAIN r = DOMAIN q
  BY DEF Alike, With
<1>2. Fcn(x) /\ Fcn(y)
  BY DEF Fcn, With
<1>3. \A d \in DOMAIN x : /\ x[d] = (IF d \in DOMAIN patch THEN patch[d] ELSE r[d])
                         /\ y[d] = (IF d \in DOMAIN patch THEN patch[d] ELSE q[d])
  BY <1>1 DEF With
<1> HIDE DEF x, y
<1>4. Row(tab, x) /\ Row(tab, y)
  <2>1. tab = "items" => "version" \in DOMAIN r
    BY DEF Alike, Row, Read
  <2> QED
    BY <1>1, <1>2, <1>3, <2>1 DEF Alike, Row
<1>5. Alike(tab, x, y)
  BY <1>1, <1>3, <1>4 DEF Alike
<1> QED
  BY <1>5 DEF x, y

LEMMA ArchivedAlike ==
    ASSUME NEW r, NEW q, Alike("turns", r, q), NEW t
    PROVE  Alike("turns", [r EXCEPT !.archived = t, !.log = 1],
                 [q EXCEPT !.archived = t, !.log = 1])
<1> DEFINE x1 == [r EXCEPT !["archived"] = t]
           y1 == [q EXCEPT !["archived"] = t]
           x2 == [x1 EXCEPT !["log"] = 1]
           y2 == [y1 EXCEPT !["log"] = 1]
<1>1. Alike("turns", x1, y1)
  BY SetAlike
<1> HIDE DEF x1, y1
<1>2. Alike("turns", x2, y2)
  BY <1>1, SetAlike
<1> HIDE DEF x2, y2
<1> QED
  BY <1>2 DEF x1, y1, x2, y2

LEMMA ExpiredAlike ==
    ASSUME NEW r, NEW q, Alike("working", r, q), NEW t
    PROVE  Alike("working", [r EXCEPT !.expires = t],
                 [q EXCEPT !.expires = t])
BY SetAlike

LEMMA PromotedAlike ==
    ASSUME NEW r, NEW q, Alike("working", r, q), NEW t
    PROVE  Alike("working", [r EXCEPT !.promoted = t],
                 [q EXCEPT !.promoted = t])
BY SetAlike

LEMMA RetiredAlike ==
    ASSUME NEW r, NEW q, Alike("knowledge", r, q), NEW t
    PROVE  Alike("knowledge", [r EXCEPT !.retired = t],
                 [q EXCEPT !.retired = t])
BY SetAlike

LEMMA TouchedAlike ==
    ASSUME NEW r, NEW q, Alike("knowledge", r, q), NEW t
    PROVE  Alike("knowledge", [r EXCEPT !.touched = t, !.uses = @ + 1],
                 [q EXCEPT !.touched = t, !.uses = @ + 1])
<1> DEFINE x1 == [r EXCEPT !["touched"] = t]
           y1 == [q EXCEPT !["touched"] = t]
           x2 == [x1 EXCEPT !["uses"] = r.uses + 1]
           y2 == [y1 EXCEPT !["uses"] = q.uses + 1]
<1>20. DOMAIN x1 = DOMAIN r /\ ("uses" \in DOMAIN r => r.uses = q.uses)
  BY DEF Alike, KeptUnevenly, x1
<1>1. Alike("knowledge", x1, y1)
  BY SetAlike
<1> HIDE DEF x1, y1
<1>2. Alike("knowledge", x2, y2)
  BY <1>1, <1>20, SetAlike
<1> HIDE DEF x2, y2
<1> QED
  BY <1>2 DEF x1, y1, x2, y2

LEMMA SupersededAlike ==
    ASSUME NEW r, NEW q, Alike("knowledge", r, q), NEW t, NEW new
    PROVE  Alike("knowledge", [r EXCEPT !.supersededBy = new, !.superseded = t,
             !.state = "superseded"],
                 [q EXCEPT !.supersededBy = new, !.superseded = t, !.state = "superseded"])
<1> DEFINE x1 == [r EXCEPT !["supersededBy"] = new]
           y1 == [q EXCEPT !["supersededBy"] = new]
           x2 == [x1 EXCEPT !["superseded"] = t]
           y2 == [y1 EXCEPT !["superseded"] = t]
           x3 == [x2 EXCEPT !["state"] = "superseded"]
           y3 == [y2 EXCEPT !["state"] = "superseded"]
<1>1. Alike("knowledge", x1, y1)
  BY SetAlike
<1> HIDE DEF x1, y1
<1>2. Alike("knowledge", x2, y2)
  BY <1>1, SetAlike
<1> HIDE DEF x2, y2
<1>3. Alike("knowledge", x3, y3)
  BY <1>2, SetAlike
<1> HIDE DEF x3, y3
<1> QED
  BY <1>3 DEF x1, y1, x2, y2, x3, y3

LEMMA CandidatePromotedAlike ==
    ASSUME NEW r, NEW q, Alike("candidates", r, q), NEW new
    PROVE  Alike("candidates", [r EXCEPT !.promoted = new, !.state = "provisional"],
                 [q EXCEPT !.promoted = new, !.state = "provisional"])
<1> DEFINE x1 == [r EXCEPT !["promoted"] = new]
           y1 == [q EXCEPT !["promoted"] = new]
           x2 == [x1 EXCEPT !["state"] = "provisional"]
           y2 == [y1 EXCEPT !["state"] = "provisional"]
<1>1. Alike("candidates", x1, y1)
  BY SetAlike
<1> HIDE DEF x1, y1
<1>2. Alike("candidates", x2, y2)
  BY <1>1, SetAlike
<1> HIDE DEF x2, y2
<1> QED
  BY <1>2 DEF x1, y1, x2, y2

LEMMA StatusAlike ==
    ASSUME NEW r, NEW q, Alike("items", r, q), NEW t, NEW status
    PROVE  Alike("items", [r EXCEPT !.status = status, !.updated = t],
                 [q EXCEPT !.status = status, !.updated = t])
<1> DEFINE x1 == [r EXCEPT !["status"] = status]
           y1 == [q EXCEPT !["status"] = status]
           x2 == [x1 EXCEPT !["updated"] = t]
           y2 == [y1 EXCEPT !["updated"] = t]
<1>1. Alike("items", x1, y1)
  BY SetAlike
<1> HIDE DEF x1, y1
<1>2. Alike("items", x2, y2)
  BY <1>1, SetAlike
<1> HIDE DEF x2, y2
<1> QED
  BY <1>2 DEF x1, y1, x2, y2

LEMMA UsedAlike ==
    ASSUME NEW r, NEW q, Alike("playbooks", r, q), NEW t
    PROVE  Alike("playbooks", [r EXCEPT !.uses = @ + 1, !.usedAt = t],
                 [q EXCEPT !.uses = @ + 1, !.usedAt = t])
<1> DEFINE x1 == [r EXCEPT !["uses"] = r.uses + 1]
           y1 == [q EXCEPT !["uses"] = q.uses + 1]
           x2 == [x1 EXCEPT !["usedAt"] = t]
           y2 == [y1 EXCEPT !["usedAt"] = t]
<1>10. ("uses" \in DOMAIN r => r.uses = q.uses)
  BY DEF Alike, KeptUnevenly
<1>1. Alike("playbooks", x1, y1)
  BY <1>10, SetAlike
<1> HIDE DEF x1, y1
<1>2. Alike("playbooks", x2, y2)
  BY <1>1, SetAlike
<1> HIDE DEF x2, y2
<1> QED
  BY <1>2 DEF x1, y1, x2, y2

LEMMA RevisedAlike ==
    ASSUME NEW r, NEW q, Alike("playbooks", r, q), NEW t
    PROVE  Alike("playbooks", [r EXCEPT !.revisions = @ + 1, !.updated = t],
                 [q EXCEPT !.revisions = @ + 1, !.updated = t])
<1> DEFINE x1 == [r EXCEPT !["revisions"] = r.revisions + 1]
           y1 == [q EXCEPT !["revisions"] = q.revisions + 1]
           x2 == [x1 EXCEPT !["updated"] = t]
           y2 == [y1 EXCEPT !["updated"] = t]
<1>10. ("revisions" \in DOMAIN r => r.revisions = q.revisions)
  BY DEF Alike, KeptUnevenly
<1>1. Alike("playbooks", x1, y1)
  BY <1>10, SetAlike
<1> HIDE DEF x1, y1
<1>2. Alike("playbooks", x2, y2)
  BY <1>1, SetAlike
<1> HIDE DEF x2, y2
<1> QED
  BY <1>2 DEF x1, y1, x2, y2

-----------------------------------------------------------------------------
(* One lemma for each call that the three adapters are given: after it     *)
(* they agree if they did before.                                          *)

LEMMA EditsAgree ==
    ASSUME NullIsNoRow, Agree, NEW tab \in Tables, NEW id, NEW type, NEW at, NEW r, NEW q, NEW u,
           id \in DOMAIN sqlite[tab] => Alike(tab, r, q),
           id \in DOMAIN memory[tab] => Alike(tab, q, u),
           sqlite' = EditedIfThere(sqlite, tab, id, type, r, at),
           memory' = EditedIfThere(memory, tab, id, type, q, at),
           postgres' = EditedIfThere(postgres, tab, id, type, u, at)
    PROVE  Agree'
<1>1. AlikeStores(sqlite', memory')
  BY EditedIfThereAlike DEF Agree
<1>2. AlikeStores(memory', postgres')
  BY EditedIfThereAlike DEF Agree
<1> QED
  BY <1>1, <1>2 DEF Agree

LEMMA CreatesAgree ==
    ASSUME NullIsNoRow, Agree, Aligned, NEW tab \in Tables, NEW r, NEW q, NEW u,
           Alike(tab, r, q), Alike(tab, q, u), r.at = q.at, q.at = u.at,
           sqlite' = Created(sqlite, tab, r), memory' = Created(memory, tab, q),
           postgres' = Created(postgres, tab, u)
    PROVE  Agree'
<1>1. AlikeStores(sqlite', memory')
  BY CreatedAlike DEF Agree, Aligned
<1>2. AlikeStores(memory', postgres')
  BY CreatedAlike DEF Agree, Aligned
<1> QED
  BY <1>1, <1>2 DEF Agree

LEMMA AddsAgree ==
    ASSUME Agree, Aligned, NEW tab \in Tables, NEW r, NEW q, NEW u,
           Alike(tab, r, q), Alike(tab, q, u),
           sqlite' = Added(sqlite, tab, r), memory' = Added(memory, tab, q),
           postgres' = Added(postgres, tab, u)
    PROVE  Agree'
<1>1. AlikeStores(sqlite', memory')
  BY AddedAlike DEF Agree, Aligned
<1>2. AlikeStores(memory', postgres')
  BY AddedAlike DEF Agree, Aligned
<1> QED
  BY <1>1, <1>2 DEF Agree


LEMMA ExpireWorkingMemoryAgrees ==
    ASSUME NullIsNoRow, Agree, NEW id, ExpireWorkingMemory(id)
    PROVE  Agree'
<1> DEFINE New(r) == [r EXCEPT !.expires = now]
<1>1. ASSUME id \in DOMAIN sqlite["working"]
      PROVE  Alike("working", New(sqlite.working[id]), New(memory.working[id]))
  <2>1. Alike("working", sqlite.working[id], memory.working[id])
    BY <1>1, RowAlike, TableNames DEF Agree
  <2> QED
    BY <2>1, ExpiredAlike
<1>2. ASSUME id \in DOMAIN memory["working"]
      PROVE  Alike("working", New(memory.working[id]), New(postgres.working[id]))
  <2>1. Alike("working", memory.working[id], postgres.working[id])
    BY <1>2, RowAlike, TableNames DEF Agree
  <2> QED
    BY <2>1, ExpiredAlike
<1>3. /\ sqlite' = EditedIfThere(sqlite, "working", id, "expired", New(sqlite.working[id]), now)
      /\ memory' = EditedIfThere(memory, "working", id, "expired", New(memory.working[id]), now)
      /\ postgres' = EditedIfThere(postgres, "working", id, "expired", New(postgres.working[id]),
           now)
  BY SqliteKernel, MemoryKernel, PostgresKernel
     DEF ExpireWorkingMemory, Call, S!ExpireWorkingMemory, M!ExpireWorkingMemory,
         P!ExpireWorkingMemory, EditedIfThere
<1>4. "working" \in Tables
  BY DEF Tables
<1> QED
  BY <1>1, <1>2, <1>3, <1>4, EditsAgree

LEMMA MarkWorkingMemoryPromotedAgrees ==
    ASSUME NullIsNoRow, Agree, NEW id, NEW knowledge, MarkWorkingMemoryPromoted(id, knowledge)
    PROVE  Agree'
<1> DEFINE New(r) == [r EXCEPT !.promoted = knowledge]
<1>1. ASSUME id \in DOMAIN sqlite["working"]
      PROVE  Alike("working", New(sqlite.working[id]), New(memory.working[id]))
  <2>1. Alike("working", sqlite.working[id], memory.working[id])
    BY <1>1, RowAlike, TableNames DEF Agree
  <2> QED
    BY <2>1, PromotedAlike
<1>2. ASSUME id \in DOMAIN memory["working"]
      PROVE  Alike("working", New(memory.working[id]), New(postgres.working[id]))
  <2>1. Alike("working", memory.working[id], postgres.working[id])
    BY <1>2, RowAlike, TableNames DEF Agree
  <2> QED
    BY <2>1, PromotedAlike
<1>3. /\ sqlite' = EditedIfThere(sqlite, "working", id, "promoted", New(sqlite.working[id]), now)
      /\ memory' = EditedIfThere(memory, "working", id, "promoted", New(memory.working[id]), now)
      /\ postgres' = EditedIfThere(postgres, "working", id, "promoted", New(postgres.working[id]),
           now)
  BY SqliteKernel, MemoryKernel, PostgresKernel
     DEF MarkWorkingMemoryPromoted, Call, S!MarkWorkingMemoryPromoted,
         M!MarkWorkingMemoryPromoted, P!MarkWorkingMemoryPromoted, EditedIfThere
<1>4. "working" \in Tables
  BY DEF Tables
<1> QED
  BY <1>1, <1>2, <1>3, <1>4, EditsAgree

LEMMA TouchKnowledgeMemoryAgrees ==
    ASSUME NullIsNoRow, Agree, NEW id, TouchKnowledgeMemory(id)
    PROVE  Agree'
<1> DEFINE New(r) == [r EXCEPT !.touched = now, !.uses = @ + 1]
<1>1. ASSUME id \in DOMAIN sqlite["knowledge"]
      PROVE  Alike("knowledge", New(sqlite.knowledge[id]), New(memory.knowledge[id]))
  <2>1. Alike("knowledge", sqlite.knowledge[id], memory.knowledge[id])
    BY <1>1, RowAlike, TableNames DEF Agree
  <2> QED
    BY <2>1, TouchedAlike
<1>2. ASSUME id \in DOMAIN memory["knowledge"]
      PROVE  Alike("knowledge", New(memory.knowledge[id]), New(postgres.knowledge[id]))
  <2>1. Alike("knowledge", memory.knowledge[id], postgres.knowledge[id])
    BY <1>2, RowAlike, TableNames DEF Agree
  <2> QED
    BY <2>1, TouchedAlike
<1>3. /\ sqlite' = EditedIfThere(sqlite, "knowledge", id, "touched", New(sqlite.knowledge[id]), now)
      /\ memory' = EditedIfThere(memory, "knowledge", id, "touched", New(memory.knowledge[id]), now)
      /\ postgres' = EditedIfThere(postgres, "knowledge", id, "touched",
           New(postgres.knowledge[id]), now)
  BY SqliteKernel, MemoryKernel, PostgresKernel
     DEF TouchKnowledgeMemory, Call, S!TouchKnowledgeMemory, M!TouchKnowledgeMemory,
         P!TouchKnowledgeMemory, EditedIfThere, S!Touched, M!Touched, P!Touched
<1>4. "knowledge" \in Tables
  BY DEF Tables
<1> QED
  BY <1>1, <1>2, <1>3, <1>4, EditsAgree

LEMMA RetireKnowledgeMemoryAgrees ==
    ASSUME NullIsNoRow, Agree, NEW id, RetireKnowledgeMemory(id)
    PROVE  Agree'
<1> DEFINE New(r) == [r EXCEPT !.retired = now]
<1>1. ASSUME id \in DOMAIN sqlite["knowledge"]
      PROVE  Alike("knowledge", New(sqlite.knowledge[id]), New(memory.knowledge[id]))
  <2>1. Alike("knowledge", sqlite.knowledge[id], memory.knowledge[id])
    BY <1>1, RowAlike, TableNames DEF Agree
  <2> QED
    BY <2>1, RetiredAlike
<1>2. ASSUME id \in DOMAIN memory["knowledge"]
      PROVE  Alike("knowledge", New(memory.knowledge[id]), New(postgres.knowledge[id]))
  <2>1. Alike("knowledge", memory.knowledge[id], postgres.knowledge[id])
    BY <1>2, RowAlike, TableNames DEF Agree
  <2> QED
    BY <2>1, RetiredAlike
<1>3. /\ sqlite' = EditedIfThere(sqlite, "knowledge", id, "retired", New(sqlite.knowledge[id]), now)
      /\ memory' = EditedIfThere(memory, "knowledge", id, "retired", New(memory.knowledge[id]), now)
      /\ postgres' = EditedIfThere(postgres, "knowledge", id, "retired",
           New(postgres.knowledge[id]), now)
  BY SqliteKernel, MemoryKernel, PostgresKernel
     DEF RetireKnowledgeMemory, Call, S!RetireKnowledgeMemory, M!RetireKnowledgeMemory,
         P!RetireKnowledgeMemory, EditedIfThere
<1>4. "knowledge" \in Tables
  BY DEF Tables
<1> QED
  BY <1>1, <1>2, <1>3, <1>4, EditsAgree

LEMMA RecordPlaybookUseAgrees ==
    ASSUME NullIsNoRow, Agree, NEW id, RecordPlaybookUse(id)
    PROVE  Agree'
<1> DEFINE New(r) == [r EXCEPT !.uses = @ + 1, !.usedAt = now]
<1>1. ASSUME id \in DOMAIN sqlite["playbooks"]
      PROVE  Alike("playbooks", New(sqlite.playbooks[id]), New(memory.playbooks[id]))
  <2>1. Alike("playbooks", sqlite.playbooks[id], memory.playbooks[id])
    BY <1>1, RowAlike, TableNames DEF Agree
  <2> QED
    BY <2>1, UsedAlike
<1>2. ASSUME id \in DOMAIN memory["playbooks"]
      PROVE  Alike("playbooks", New(memory.playbooks[id]), New(postgres.playbooks[id]))
  <2>1. Alike("playbooks", memory.playbooks[id], postgres.playbooks[id])
    BY <1>2, RowAlike, TableNames DEF Agree
  <2> QED
    BY <2>1, UsedAlike
<1>3. /\ sqlite' = EditedIfThere(sqlite, "playbooks", id, "used", New(sqlite.playbooks[id]), now)
      /\ memory' = EditedIfThere(memory, "playbooks", id, "used", New(memory.playbooks[id]), now)
      /\ postgres' = EditedIfThere(postgres, "playbooks", id, "used", New(postgres.playbooks[id]),
           now)
  BY SqliteKernel, MemoryKernel, PostgresKernel
     DEF RecordPlaybookUse, Call, S!RecordPlaybookUse, M!RecordPlaybookUse, P!RecordPlaybookUse,
         EditedIfThere
<1>4. "playbooks" \in Tables
  BY DEF Tables
<1> QED
  BY <1>1, <1>2, <1>3, <1>4, EditsAgree

LEMMA ArchiveTurnAgrees ==
    ASSUME NullIsNoRow, Agree, NEW id, ArchiveTurn(id)
    PROVE  Agree'
<1> DEFINE New(r) == [r EXCEPT !.archived = now, !.log = 1]
<1>1. ASSUME id \in DOMAIN sqlite["turns"]
      PROVE  /\ Alike("turns", sqlite.turns[id], memory.turns[id])
             /\ Alike("turns", New(sqlite.turns[id]), New(memory.turns[id]))
  <2>1. Alike("turns", sqlite.turns[id], memory.turns[id])
    BY <1>1, RowAlike, TableNames DEF Agree
  <2> QED
    BY <2>1, ArchivedAlike
<1>2. ASSUME id \in DOMAIN memory["turns"]
      PROVE  Alike("turns", New(memory.turns[id]), New(postgres.turns[id]))
  <2>1. Alike("turns", memory.turns[id], postgres.turns[id])
    BY <1>2, RowAlike, TableNames DEF Agree
  <2> QED
    BY <2>1, ArchivedAlike
<1>3. Exists(sqlite, "turns", id) => sqlite.turns[id].archived = None
  <2>1. Exists(sqlite, "turns", id) <=> Exists(memory, "turns", id)
    BY ExistAlike DEF Agree, Tables
  <2>2. ASSUME Exists(sqlite, "turns", id)
        PROVE  sqlite.turns[id].archived = memory.turns[id].archived
    BY <1>1, <2>2 DEF Exists, Alike, Row, Read, KeptUnevenly
  <2> QED
    BY <2>1, <2>2 DEF ArchiveTurn
<1>4. /\ sqlite' = EditedIfThere(sqlite, "turns", id, "archived", New(sqlite.turns[id]), now)
      /\ memory' = EditedIfThere(memory, "turns", id, "archived", New(memory.turns[id]), now)
      /\ postgres' = EditedIfThere(postgres, "turns", id, "archived", New(postgres.turns[id]), now)
  BY <1>3, SqliteKernel, MemoryKernel, PostgresKernel
     DEF ArchiveTurn, Call, S!ArchiveTurn, M!ArchiveTurn, P!ArchiveTurn, EditedIfThere
<1>5. "turns" \in Tables
  BY DEF Tables
<1> QED
  BY <1>1, <1>2, <1>4, <1>5, EditsAgree

LEMMA SupersedeKnowledgeMemoryAgrees ==
    ASSUME NullIsNoRow, Agree, NEW old, NEW new, SupersedeKnowledgeMemory(old, new)
    PROVE  Agree'
<1> DEFINE New(r) == [r EXCEPT !.supersededBy = new, !.superseded = now, !.state = "superseded"]
           Retired(r) == [New(r) EXCEPT !["retired"] = now]
           Retiring(r) == [r EXCEPT !.supersededBy = new, !.superseded = now,
                                    !.state = "superseded", !.retired = now]
<1>0. ASSUME NEW r PROVE Retiring(r) = Retired(r)
  OBVIOUS
<1>1. ASSUME old \in DOMAIN sqlite["knowledge"]
      PROVE  Alike("knowledge", New(sqlite.knowledge[old]), New(memory.knowledge[old]))
  <2>1. Alike("knowledge", sqlite.knowledge[old], memory.knowledge[old])
    BY <1>1, RowAlike, TableNames DEF Agree
  <2> QED
    BY <2>1, SupersededAlike
<1>2. ASSUME old \in DOMAIN memory["knowledge"]
      PROVE  Alike("knowledge", New(memory.knowledge[old]), Retiring(postgres.knowledge[old]))
  <2>1. Alike("knowledge", memory.knowledge[old], postgres.knowledge[old])
    BY <1>2, RowAlike, TableNames DEF Agree
  <2>2. Alike("knowledge", New(memory.knowledge[old]), New(postgres.knowledge[old]))
    BY <2>1, SupersededAlike
  <2> HIDE DEF New
  <2>3. Alike("knowledge", New(memory.knowledge[old]), Retired(postgres.knowledge[old]))
    BY <2>2, DriftAlike DEF KeptUnevenly
  <2> HIDE DEF Retired
  <2> QED
    BY <1>0, <2>3
<1>3. /\ sqlite' = EditedIfThere(sqlite, "knowledge", old, "superseded",
                                 New(sqlite.knowledge[old]), now)
      /\ memory' = EditedIfThere(memory, "knowledge", old, "superseded",
                                 New(memory.knowledge[old]), now)
      /\ postgres' = EditedIfThere(postgres, "knowledge", old, "superseded",
                                   Retiring(postgres.knowledge[old]), now)
  BY SqliteKernel, MemoryKernel, PostgresKernel
     DEF SupersedeKnowledgeMemory, Call, S!SupersedeKnowledgeMemory, M!SupersedeKnowledgeMemory,
         P!SupersedeKnowledgeMemory, EditedIfThere
<1>4. "knowledge" \in Tables
  BY DEF Tables
<1> HIDE DEF New, Retired, Retiring
<1> QED
  BY <1>1, <1>2, <1>3, <1>4, EditsAgree

LEMMA UpdateWorkItemStatusAgrees ==
    ASSUME NullIsNoRow, Agree, NEW id, NEW status, UpdateWorkItemStatus(id, status)
    PROVE  Agree'
<1> DEFINE New(r) == [r EXCEPT !.status = status, !.updated = now]
           Raised(r) == [New(r) EXCEPT !["version"] = r.version + 1]
           Raising(r) == [r EXCEPT !.status = status, !.updated = now, !.version = @ + 1]
<1>0. ASSUME NEW r PROVE Raising(r) = Raised(r)
  OBVIOUS
<1>1. ASSUME id \in DOMAIN sqlite["items"]
      PROVE  Alike("items", New(sqlite.items[id]), Raising(memory.items[id]))
  <2>1. Alike("items", sqlite.items[id], memory.items[id])
    BY <1>1, RowAlike, TableNames DEF Agree
  <2>2. Alike("items", New(sqlite.items[id]), New(memory.items[id]))
    BY <2>1, StatusAlike
  <2>3. memory.items[id].version + 1 \in Int
    BY <2>1 DEF Alike, Row
  <2> HIDE DEF New
  <2>4. Alike("items", New(sqlite.items[id]), Raised(memory.items[id]))
    BY <2>2, <2>3, DriftAlike DEF KeptUnevenly
  <2> HIDE DEF Raised
  <2> QED
    BY <1>0, <2>4
<1>2. ASSUME id \in DOMAIN memory["items"]
      PROVE  Alike("items", Raising(memory.items[id]), Raising(postgres.items[id]))
  <2>1. Alike("items", memory.items[id], postgres.items[id])
    BY <1>2, RowAlike, TableNames DEF Agree
  <2>2. Alike("items", New(memory.items[id]), New(postgres.items[id]))
    BY <2>1, StatusAlike
  <2>3. memory.items[id].version + 1 \in Int /\ postgres.items[id].version + 1 \in Int
    BY <2>1 DEF Alike, Row
  <2> HIDE DEF New
  <2>4. Alike("items", Raised(memory.items[id]), Raised(postgres.items[id]))
    BY <2>2, <2>3, SetAlike DEF KeptUnevenly
  <2> HIDE DEF Raised
  <2> QED
    BY <1>0, <2>4
<1>3. /\ sqlite' = EditedIfThere(sqlite, "items", id, "status_changed", New(sqlite.items[id]), now)
      /\ memory' = EditedIfThere(memory, "items", id, "status_changed", Raising(memory.items[id]),
           now)
      /\ postgres' = EditedIfThere(postgres, "items", id, "status_changed",
                                   Raising(postgres.items[id]), now)
  BY SqliteKernel, MemoryKernel, PostgresKernel
     DEF UpdateWorkItemStatus, Call, S!UpdateWorkItemStatus, M!UpdateWorkItemStatus,
         P!UpdateWorkItemStatus, EditedIfThere
<1>4. "items" \in Tables
  BY DEF Tables
<1> HIDE DEF New, Raised, Raising
<1> QED
  BY <1>1, <1>2, <1>3, <1>4, EditsAgree

LEMMA UpdateKnowledgeMemoryAgrees ==
    ASSUME NullIsNoRow, Agree, NEW id, NEW patch, DOMAIN patch # {}, UpdateKnowledgeMemory(id,
             patch)
    PROVE  Agree'
<1>1. ASSUME id \in DOMAIN sqlite["knowledge"]
      PROVE  Alike("knowledge", With(patch, sqlite.knowledge[id]), With(patch,
               memory.knowledge[id]))
  <2>1. Alike("knowledge", sqlite.knowledge[id], memory.knowledge[id])
    BY <1>1, RowAlike, TableNames DEF Agree
  <2> QED
    BY <2>1, WithAlike
<1>2. ASSUME id \in DOMAIN memory["knowledge"]
      PROVE  Alike("knowledge", With(patch, memory.knowledge[id]), With(patch,
               postgres.knowledge[id]))
  <2>1. Alike("knowledge", memory.knowledge[id], postgres.knowledge[id])
    BY <1>2, RowAlike, TableNames DEF Agree
  <2> QED
    BY <2>1, WithAlike
<1>3. /\ sqlite' = EditedIfThere(sqlite, "knowledge", id, "updated",
                                 With(patch, sqlite.knowledge[id]), now)
      /\ memory' = EditedIfThere(memory, "knowledge", id, "updated",
                                 With(patch, memory.knowledge[id]), now)
      /\ postgres' = EditedIfThere(postgres, "knowledge", id, "updated",
                                   With(patch, postgres.knowledge[id]), now)
  BY SqliteKernel, MemoryKernel, PostgresKernel
     DEF UpdateKnowledgeMemory, Call, S!UpdateKnowledgeMemory, M!UpdateKnowledgeMemory,
         P!UpdateKnowledgeMemory, EditedIfThere
<1>4. "knowledge" \in Tables
  BY DEF Tables
<1> QED
  BY <1>1, <1>2, <1>3, <1>4, EditsAgree

LEMMA UpdateSourceDocumentAgrees ==
    ASSUME NullIsNoRow, Agree, NEW id, NEW patch, DOMAIN patch # {}, UpdateSourceDocument(id, patch)
    PROVE  Agree'
<1>1. ASSUME id \in DOMAIN sqlite["documents"]
      PROVE  Alike("documents", With(patch, sqlite.documents[id]), With(patch,
               memory.documents[id]))
  <2>1. Alike("documents", sqlite.documents[id], memory.documents[id])
    BY <1>1, RowAlike, TableNames DEF Agree
  <2> QED
    BY <2>1, WithAlike
<1>2. ASSUME id \in DOMAIN memory["documents"]
      PROVE  Alike("documents", With(patch, memory.documents[id]), With(patch,
               postgres.documents[id]))
  <2>1. Alike("documents", memory.documents[id], postgres.documents[id])
    BY <1>2, RowAlike, TableNames DEF Agree
  <2> QED
    BY <2>1, WithAlike
<1>3. /\ sqlite' = EditedIfThere(sqlite, "documents", id, "updated",
                                 With(patch, sqlite.documents[id]), now)
      /\ memory' = EditedIfThere(memory, "documents", id, "updated",
                                 With(patch, memory.documents[id]), now)
      /\ postgres' = EditedIfThere(postgres, "documents", id, "updated",
                                   With(patch, postgres.documents[id]), now)
  BY SqliteKernel, MemoryKernel, PostgresKernel
     DEF UpdateSourceDocument, Call, S!UpdateSourceDocument, M!UpdateSourceDocument,
         P!UpdateSourceDocument, EditedIfThere
<1>4. "documents" \in Tables
  BY DEF Tables
<1> QED
  BY <1>1, <1>2, <1>3, <1>4, EditsAgree

LEMMA UpdatePlaybookAgrees ==
    ASSUME NullIsNoRow, Agree, NEW id, NEW patch, DOMAIN patch # {}, UpdatePlaybook(id, patch)
    PROVE  Agree'
<1> DEFINE New(r) == [With(patch, r) EXCEPT !["updated"] = now]
<1>0. ASSUME NEW r, NEW q, Alike("playbooks", r, q)
      PROVE  Alike("playbooks", New(r), New(q))
  <2>1. Alike("playbooks", With(patch, r), With(patch, q))
    BY <1>0, WithAlike
  <2> QED
    BY <2>1, SetAlike
<1>1. ASSUME id \in DOMAIN sqlite["playbooks"]
      PROVE  Alike("playbooks", New(sqlite.playbooks[id]), New(memory.playbooks[id]))
  <2>1. Alike("playbooks", sqlite.playbooks[id], memory.playbooks[id])
    BY <1>1, RowAlike, TableNames DEF Agree
  <2> QED
    BY <2>1, <1>0
<1>2. ASSUME id \in DOMAIN memory["playbooks"]
      PROVE  Alike("playbooks", New(memory.playbooks[id]), New(postgres.playbooks[id]))
  <2>1. Alike("playbooks", memory.playbooks[id], postgres.playbooks[id])
    BY <1>2, RowAlike, TableNames DEF Agree
  <2> QED
    BY <2>1, <1>0
<1>3. /\ sqlite' = EditedIfThere(sqlite, "playbooks", id, "updated", New(sqlite.playbooks[id]), now)
      /\ memory' = EditedIfThere(memory, "playbooks", id, "updated", New(memory.playbooks[id]), now)
      /\ postgres' = EditedIfThere(postgres, "playbooks", id, "updated",
                                   New(postgres.playbooks[id]), now)
  BY SqliteKernel, MemoryKernel, PostgresKernel
     DEF UpdatePlaybook, Call, S!UpdatePlaybook, M!UpdatePlaybook, P!UpdatePlaybook, EditedIfThere
<1>4. "playbooks" \in Tables
  BY DEF Tables
<1> HIDE DEF New
<1> QED
  BY <1>1, <1>2, <1>3, <1>4, EditsAgree

LEMMA UpdateWorkItemAgrees ==
    ASSUME NullIsNoRow, Agree, None \notin Int, NEW id, NEW patch, "version" \notin DOMAIN patch,
           NEW stale \in BOOLEAN, UpdateWorkItem(id, patch, stale)
    PROVE  Agree'
<1> DEFINE New(r) == [With(patch, r) EXCEPT !.updated = now, !.version = @ + 1]
           Timed(r) == [With(patch, r) EXCEPT !["updated"] = now]
           Raised(r) == [Timed(r) EXCEPT !["version"] = With(patch, r).version + 1]
           Type == IF DOMAIN patch = {"class"} THEN "visibility_changed" ELSE "updated"
<1>0. ASSUME NEW r, NEW q, Alike("items", r, q)
      PROVE  Alike("items", New(r), New(q))
  <2>1. Alike("items", With(patch, r), With(patch, q))
    BY <1>0, WithAlike
  <2>2. Alike("items", Timed(r), Timed(q))
    BY <2>1, SetAlike
  <2>3. With(patch, r).version + 1 \in Int /\ With(patch, q).version + 1 \in Int
    BY <2>1 DEF Alike, Row
  <2>4. New(r) = Raised(r) /\ New(q) = Raised(q)
    OBVIOUS
  <2> HIDE DEF Timed
  <2>5. Alike("items", Raised(r), Raised(q))
    BY <2>2, <2>3, SetAlike DEF KeptUnevenly
  <2> HIDE DEF New, Raised
  <2> QED
    BY <2>4, <2>5
<1>1. ASSUME id \in DOMAIN sqlite["items"]
      PROVE  /\ Alike("items", New(sqlite.items[id]), New(memory.items[id]))
             /\ sqlite.items[id].version \in Int
  <2>1. Alike("items", sqlite.items[id], memory.items[id])
    BY <1>1, RowAlike, TableNames DEF Agree
  <2>2. sqlite.items[id].version \in Int
    BY <2>1 DEF Alike, Row
  <2> HIDE DEF New
  <2> QED
    BY <2>1, <2>2, <1>0
<1>2. ASSUME id \in DOMAIN memory["items"]
      PROVE  /\ Alike("items", New(memory.items[id]), New(postgres.items[id]))
             /\ memory.items[id].version \in Int /\ postgres.items[id].version \in Int
  <2>1. Alike("items", memory.items[id], postgres.items[id])
    BY <1>2, RowAlike, TableNames DEF Agree
  <2>2. memory.items[id].version \in Int /\ postgres.items[id].version \in Int
    BY <2>1 DEF Alike, Row
  <2> HIDE DEF New
  <2> QED
    BY <2>1, <2>2, <1>0
<1>4. "items" \in Tables
  BY DEF Tables
<1>5. /\ Exists(sqlite, "items", id) <=> Exists(memory, "items", id)
      /\ Exists(memory, "items", id) <=> Exists(postgres, "items", id)
  BY <1>4, ExistAlike DEF Agree
<1>6. CASE stale
  <2>1. ASSUME NEW v \in Int PROVE v - 1 \notin {None, v}
    <3>1. v - 1 \in Int /\ v - 1 # v
      OBVIOUS
    <3> QED
      BY <3>1
  <2>2. ASSUME NEW st, Exists(st, "items", id) => st.items[id].version \in Int,
               NEW t, NEW v, Exists(st, "items", id) => v = st.items[id].version - 1
        PROVE  /\ S!UpdateWorkItem(st, id, patch, v, t) = st
               /\ M!UpdateWorkItem(st, id, patch, v, t) = st
               /\ P!UpdateWorkItem(st, id, patch, v, t) = st
    BY <2>1, <2>2, SqliteKernel, MemoryKernel, PostgresKernel
       DEF S!UpdateWorkItem, M!UpdateWorkItem, P!UpdateWorkItem
  <2>3. sqlite' = sqlite /\ memory' = memory /\ postgres' = postgres
    BY <1>1, <1>2, <1>5, <1>6, <2>2 DEF UpdateWorkItem, Call, Exists
  <2> QED
    BY <2>3 DEF Agree
<1>7. CASE ~stale
  <2>2. ASSUME NEW st, Exists(st, "items", id) => st.items[id].version \in Int,
               NEW t, NEW v, Exists(st, "items", id) => v = st.items[id].version - 0
        PROVE  /\ S!UpdateWorkItem(st, id, patch, v, t)
                    = EditedIfThere(st, "items", id, Type, [With(patch,
                      st.items[id]) EXCEPT !.updated = t, !.version = @ + 1], t)
               /\ M!UpdateWorkItem(st, id, patch, v, t)
                    = EditedIfThere(st, "items", id, Type, [With(patch,
                      st.items[id]) EXCEPT !.updated = t, !.version = @ + 1], t)
               /\ P!UpdateWorkItem(st, id, patch, v, t)
                    = EditedIfThere(st, "items", id, Type, [With(patch,
                      st.items[id]) EXCEPT !.updated = t, !.version = @ + 1], t)
    <3>1. Exists(st, "items", id) => v = st.items[id].version
      BY <2>2
    <3> QED
      BY <3>1, SqliteKernel, MemoryKernel, PostgresKernel
       DEF S!UpdateWorkItem, M!UpdateWorkItem, P!UpdateWorkItem, EditedIfThere
  <2>3. /\ sqlite' = EditedIfThere(sqlite, "items", id, Type, New(sqlite.items[id]), now)
        /\ memory' = EditedIfThere(memory, "items", id, Type, New(memory.items[id]), now)
        /\ postgres' = EditedIfThere(postgres, "items", id, Type, New(postgres.items[id]), now)
    <3> HIDE DEF Type
    <3> QED
      BY <1>1, <1>2, <1>5, <1>7, <2>2 DEF UpdateWorkItem, Call, Exists
  <2> HIDE DEF New, Type
  <2> QED
    BY <1>1, <1>2, <1>4, <2>3, EditsAgree
<1> QED
  BY <1>6, <1>7

LEMMA DeletesAgree ==
    ASSUME NullIsNoRow, Agree, NEW tab \in Tables, NEW id,
           sqlite' = IF ~Exists(sqlite, tab, id) THEN sqlite
                     ELSE Deleted(sqlite, tab, id, "deleted", now),
           memory' = IF ~Exists(memory, tab, id) THEN memory
                     ELSE Deleted(memory, tab, id, "deleted", now),
           postgres' = IF ~Exists(postgres, tab, id) THEN postgres
                       ELSE Deleted(postgres, tab, id, "deleted", now)
    PROVE  Agree'
<1>1. /\ Exists(sqlite, tab, id) <=> Exists(memory, tab, id)
      /\ Exists(memory, tab, id) <=> Exists(postgres, tab, id)
  BY ExistAlike DEF Agree
<1>2. CASE Exists(memory, tab, id)
  <2>1. /\ sqlite' = Deleted(sqlite, tab, id, "deleted", now)
        /\ memory' = Deleted(memory, tab, id, "deleted", now)
        /\ postgres' = Deleted(postgres, tab, id, "deleted", now)
    BY <1>1, <1>2
  <2>2. id \in DOMAIN sqlite[tab] /\ id \in DOMAIN memory[tab]
    BY <1>1, <1>2 DEF Exists
  <2>3. AlikeStores(sqlite', memory') /\ AlikeStores(memory', postgres')
    BY <2>1, <2>2, DeletedAlike DEF Agree
  <2> QED
    BY <2>3 DEF Agree
<1>3. CASE ~Exists(memory, tab, id)
  BY <1>1, <1>3 DEF Agree
<1> QED
  BY <1>2, <1>3


LEMMA DeleteWorkItemAgrees ==
    ASSUME NullIsNoRow, Agree, NEW id, DeleteWorkItem(id)
    PROVE  Agree'
<1>1. "items" \in Tables
  BY DEF Tables
<1>2. /\ sqlite' = IF ~Exists(sqlite, "items", id) THEN sqlite
                   ELSE Deleted(sqlite, "items", id, "deleted", now)
      /\ memory' = IF ~Exists(memory, "items", id) THEN memory
                   ELSE Deleted(memory, "items", id, "deleted", now)
      /\ postgres' = IF ~Exists(postgres, "items", id) THEN postgres
                     ELSE Deleted(postgres, "items", id, "deleted", now)
  BY SqliteKernel, MemoryKernel, PostgresKernel
     DEF DeleteWorkItem, Call, S!DeleteWorkItem, M!DeleteWorkItem, P!DeleteWorkItem
<1> QED
  BY <1>1, <1>2, DeletesAgree

LEMMA DeleteAssociationAgrees ==
    ASSUME NullIsNoRow, Agree, NEW id, DeleteAssociation(id)
    PROVE  Agree'
<1>1. "associations" \in Tables
  BY DEF Tables
<1>2. /\ sqlite' = IF ~Exists(sqlite, "associations", id) THEN sqlite
                   ELSE Deleted(sqlite, "associations", id, "deleted", now)
      /\ memory' = IF ~Exists(memory, "associations", id) THEN memory
                   ELSE Deleted(memory, "associations", id, "deleted", now)
      /\ postgres' = IF ~Exists(postgres, "associations", id) THEN postgres
                     ELSE Deleted(postgres, "associations", id, "deleted", now)
  BY SqliteKernel, MemoryKernel, PostgresKernel
     DEF DeleteAssociation, Call, S!DeleteAssociation, M!DeleteAssociation, P!DeleteAssociation
<1> QED
  BY <1>1, <1>2, DeletesAgree


LEMMA InsertWorkingMemoryAgrees ==
    ASSUME NullIsNoRow, Agree, NEW in, InsertWorkingMemory(in)
    PROVE  Agree'
<1> DEFINE q == [own |-> in.own, session |-> in.session, at |-> now,
                 expires |-> Given(in.expires, now + WorkingTtl), promoted |-> None]
           u == [own |-> in.own, session |-> in.session, at |-> now,
                 expires |-> None, promoted |-> None]
<1>1. Alike("working", q, q) /\ Alike("working", q, u) /\ q.at = u.at
  BY DEF Alike, Row, Fcn, Read, KeptUnevenly
<1>2. /\ sqlite' = Created(sqlite, "working", q) /\ memory' = Created(memory, "working", q)
      /\ postgres' = Created(postgres, "working", u) /\ Aligned
  BY SqliteKernel, MemoryKernel, PostgresKernel
     DEF InsertWorkingMemory, Call, S!InsertWorkingMemory, M!InsertWorkingMemory,
         P!InsertWorkingMemory
<1>3. "working" \in Tables
  BY DEF Tables
<1> HIDE DEF q, u
<1> QED
  BY <1>1, <1>2, <1>3, CreatesAgree

LEMMA InsertKnowledgeMemoryAgrees ==
    ASSUME NullIsNoRow, Agree, NEW in, InsertKnowledgeMemory(in)
    PROVE  Agree'
<1> DEFINE r == M!NewKnowledge(in, now)
<1>1. Alike("knowledge", r, r)
  BY DEF Alike, Row, Fcn, Read, KeptUnevenly, M!NewKnowledge
<1>2. /\ sqlite' = Created(sqlite, "knowledge", r) /\ memory' = Created(memory, "knowledge", r)
      /\ postgres' = Created(postgres, "knowledge", r) /\ Aligned
  BY SqliteKernel, MemoryKernel, PostgresKernel
     DEF InsertKnowledgeMemory, Call, S!InsertKnowledgeMemory, M!InsertKnowledgeMemory,
         P!InsertKnowledgeMemory,
         S!NewKnowledge, M!NewKnowledge, P!NewKnowledge
<1>3. "knowledge" \in Tables
  BY DEF Tables
<1> HIDE DEF r
<1> QED
  BY <1>1, <1>2, <1>3, CreatesAgree

LEMMA InsertKnowledgeCandidateAgrees ==
    ASSUME NullIsNoRow, Agree, NEW in, InsertKnowledgeCandidate(in)
    PROVE  Agree'
<1> DEFINE r == M!NewCandidate(in, now)
<1>1. Alike("candidates", r, r)
  BY DEF Alike, Row, Fcn, Read, KeptUnevenly, M!NewCandidate
<1>2. /\ sqlite' = Created(sqlite, "candidates", r) /\ memory' = Created(memory, "candidates", r)
      /\ postgres' = Created(postgres, "candidates", r) /\ Aligned
  BY SqliteKernel, MemoryKernel, PostgresKernel
     DEF InsertKnowledgeCandidate, Call, S!InsertKnowledgeCandidate, M!InsertKnowledgeCandidate,
         P!InsertKnowledgeCandidate,
         S!NewCandidate, M!NewCandidate, P!NewCandidate
<1>3. "candidates" \in Tables
  BY DEF Tables
<1> HIDE DEF r
<1> QED
  BY <1>1, <1>2, <1>3, CreatesAgree

LEMMA InsertKnowledgeEvidenceAgrees ==
    ASSUME Agree, NEW in, InsertKnowledgeEvidence(in)
    PROVE  Agree'
<1> DEFINE r == M!NewEvidence(in, now)
<1>1. Alike("evidence", r, r)
  BY DEF Alike, Row, Fcn, Read, KeptUnevenly, M!NewEvidence
<1>2. /\ sqlite' = Added(sqlite, "evidence", r) /\ memory' = Added(memory, "evidence", r)
      /\ postgres' = Added(postgres, "evidence", r) /\ Aligned
  BY SqliteKernel, MemoryKernel, PostgresKernel
     DEF InsertKnowledgeEvidence, Call, S!InsertKnowledgeEvidence, M!InsertKnowledgeEvidence,
         P!InsertKnowledgeEvidence,
         S!NewEvidence, M!NewEvidence, P!NewEvidence
<1>3. "evidence" \in Tables
  BY DEF Tables
<1> HIDE DEF r
<1> QED
  BY <1>1, <1>2, <1>3, AddsAgree

LEMMA InsertKnowledgeMemoryAuditAgrees ==
    ASSUME Agree, NEW in, InsertKnowledgeMemoryAudit(in)
    PROVE  Agree'
<1> DEFINE q == [own |-> in.own, created |-> in.created, related |-> in.related,
                  at |-> Given(in.at, now)]
           u == [own |-> in.own, created |-> in.created, related |-> in.related, at |-> now]
<1>1. Alike("audits", q, q) /\ Alike("audits", q, u)
  BY DEF Alike, Row, Fcn, Read, KeptUnevenly
<1>2. /\ sqlite' = Added(sqlite, "audits", q) /\ memory' = Added(memory, "audits", q)
      /\ postgres' = Added(postgres, "audits", u) /\ Aligned
  BY SqliteKernel, MemoryKernel, PostgresKernel
     DEF InsertKnowledgeMemoryAudit, Call, S!InsertKnowledgeMemoryAudit,
         M!InsertKnowledgeMemoryAudit, P!InsertKnowledgeMemoryAudit
<1>3. "audits" \in Tables
  BY DEF Tables
<1> HIDE DEF q, u
<1> QED
  BY <1>1, <1>2, <1>3, AddsAgree

LEMMA InsertWorkItemAgrees ==
    ASSUME NullIsNoRow, Agree, NEW in, InsertWorkItem(in)
    PROVE  Agree'
<1> DEFINE r == [own |-> in.own, class |-> Given(in.class, "private"), session |-> in.session,
                 status |-> Given(in.status, "open"), version |-> 1,
                 at |-> Given(in.at, now), updated |-> Given(in.at, now)]
<1>1. Alike("items", r, r)
  BY DEF Alike, Row, Fcn, Read, KeptUnevenly
<1>2. /\ sqlite' = Created(sqlite, "items", r) /\ memory' = Created(memory, "items", r)
      /\ postgres' = Created(postgres, "items", r) /\ Aligned
  BY SqliteKernel, MemoryKernel, PostgresKernel
     DEF InsertWorkItem, Call, S!InsertWorkItem, M!InsertWorkItem, P!InsertWorkItem
<1>3. "items" \in Tables
  BY DEF Tables
<1> HIDE DEF r
<1> QED
  BY <1>1, <1>2, <1>3, CreatesAgree

LEMMA InsertCompactionLogAgrees ==
    ASSUME Agree, NEW in, InsertCompactionLog(in)
    PROVE  Agree'
<1> DEFINE r == [own |-> in.own, session |-> in.session, at |-> Given(in.at, now)]
<1>1. Alike("compactions", r, r)
  BY DEF Alike, Row, Fcn, Read, KeptUnevenly
<1>2. /\ sqlite' = Added(sqlite, "compactions", r) /\ memory' = Added(memory, "compactions", r)
      /\ postgres' = Added(postgres, "compactions", r) /\ Aligned
  BY SqliteKernel, MemoryKernel, PostgresKernel
     DEF InsertCompactionLog, Call, S!InsertCompactionLog, M!InsertCompactionLog,
         P!InsertCompactionLog
<1>3. "compactions" \in Tables
  BY DEF Tables
<1> HIDE DEF r
<1> QED
  BY <1>1, <1>2, <1>3, AddsAgree

LEMMA InsertPlaybookAgrees ==
    ASSUME NullIsNoRow, Agree, NEW in, InsertPlaybook(in)
    PROVE  Agree'
<1> DEFINE q == [own |-> in.own, class |-> Given(in.class, "private"), words |-> in.words,
                 status |-> Given(in.status, "draft"), session |-> in.session, revisions |-> 0,
                 usedAt |-> None, uses |-> 0, at |-> Given(in.at, now), updated |-> now]
           u == [own |-> in.own, class |-> Given(in.class, "private"), words |-> in.words,
                 status |-> Given(in.status, "draft"), session |-> in.session, revisions |-> 0,
                 usedAt |-> None, uses |-> 0, at |-> Given(in.at, now), updated |-> Given(in.at,
                   now)]
<1>1. Alike("playbooks", q, q) /\ Alike("playbooks", q, u) /\ q.at = u.at
  BY DEF Alike, Row, Fcn, Read, KeptUnevenly
<1>2. /\ sqlite' = Created(sqlite, "playbooks", q) /\ memory' = Created(memory, "playbooks", q)
      /\ postgres' = Created(postgres, "playbooks", u) /\ Aligned
  BY SqliteKernel, MemoryKernel, PostgresKernel
     DEF InsertPlaybook, Call, S!InsertPlaybook, M!InsertPlaybook, P!InsertPlaybook
<1>3. "playbooks" \in Tables
  BY DEF Tables
<1> HIDE DEF q, u
<1> QED
  BY <1>1, <1>2, <1>3, CreatesAgree

LEMMA InsertSourceDocumentAgrees ==
    ASSUME NullIsNoRow, Agree, NEW in, InsertSourceDocument(in)
    PROVE  Agree'
<1> DEFINE r == [own |-> in.own, hash |-> in.hash, status |-> Given(in.status, "pending"),
                 at |-> now]
<1>1. Alike("documents", r, r)
  BY DEF Alike, Row, Fcn, Read, KeptUnevenly
<1>2. /\ sqlite' = Created(sqlite, "documents", r) /\ memory' = Created(memory, "documents", r)
      /\ postgres' = Created(postgres, "documents", r) /\ Aligned
  BY SqliteKernel, MemoryKernel, PostgresKernel
     DEF InsertSourceDocument, Call, S!InsertSourceDocument, M!InsertSourceDocument,
         P!InsertSourceDocument
<1>3. "documents" \in Tables
  BY DEF Tables
<1> HIDE DEF r
<1> QED
  BY <1>1, <1>2, <1>3, CreatesAgree

LEMMA PutsAgree ==
    ASSUME Agree, Aligned, NEW tab \in Tables, NEW ids, NEW r, NEW q, NEW u,
           Alike(tab, r, q), Alike(tab, q, u)
    PROVE  /\ AlikeStores(Put(sqlite, tab, ids, r), Put(memory, tab, ids, q))
           /\ AlikeStores(Put(memory, tab, ids, q), Put(postgres, tab, ids, u))
BY PutAlike DEF Agree, Aligned

LEMMA UpsertContextMonitorAgrees ==
    ASSUME Agree, NEW in, UpsertContextMonitor(in)
    PROVE  Agree'
<1> DEFINE Mine(st) == {i \in DOMAIN st.monitors : st.monitors[i].own = in.own}
           Row1(x) == [own |-> in.own, state |-> in.state, compacted |-> x, at |-> now]
           Kept == IF in.compacted = None /\ Mine(postgres) # {}
                   THEN postgres.monitors[TheOne(Mine(postgres))].compacted ELSE in.compacted
<1>1. Mine(sqlite) = Mine(memory) /\ Mine(memory) = Mine(postgres)
  <2>1. ASSUME NEW s, NEW m, AlikeStores(s, m) PROVE Mine(s) = Mine(m)
    <3>1. AlikeRows("monitors", s.monitors, m.monitors)
      BY <2>1 DEF AlikeStores, Tables
    <3> QED
      BY <3>1 DEF AlikeRows, Alike, Row, KeptUnevenly
  <2> QED
    BY <2>1 DEF Agree
<1>2. ASSUME NEW x, NEW y PROVE Alike("monitors", Row1(x), Row1(y))
  BY DEF Alike, Row, Fcn, Read, KeptUnevenly
<1>3. /\ sqlite' = Put(sqlite, "monitors", Mine(sqlite), Row1(in.compacted))
      /\ memory' = Put(memory, "monitors", Mine(memory), Row1(in.compacted))
      /\ postgres' = Put(postgres, "monitors", Mine(postgres), Row1(Kept))
      /\ Aligned
  BY SqliteKernel, MemoryKernel, PostgresKernel
     DEF UpsertContextMonitor, Call, S!UpsertContextMonitor, M!UpsertContextMonitor,
         P!UpsertContextMonitor, S!Where, M!Where, P!Where, S!MatchesScope, M!MatchesScope,
         P!MatchesScope
<1>4. "monitors" \in Tables
  BY DEF Tables
<1> HIDE DEF Mine, Row1, Kept
<1>5. AlikeStores(sqlite', memory') /\ AlikeStores(memory', postgres')
  BY <1>1, <1>2, <1>3, <1>4, PutsAgree
<1> QED
  BY <1>5 DEF Agree

LEMMA UpsertSessionStateAgrees ==
    ASSUME NullIsNoRow, Agree, NEW in, UpsertSessionState(in)
    PROVE  Agree'
<1> DEFINE Mine(st) == {i \in DOMAIN st.sessions :
                          st.sessions[i].own = in.own /\ st.sessions[i].session = in.session}
           r == [own |-> in.own, session |-> in.session, state |-> in.state, at |-> in.at]
           Upserted(st) == Logged(Put(st, "sessions", Mine(st), r), "sessions", in.session,
                                  "updated", None, r, in.at)
<1>1. Mine(sqlite) = Mine(memory) /\ Mine(memory) = Mine(postgres)
  <2>1. ASSUME NEW s, NEW m, AlikeStores(s, m) PROVE Mine(s) = Mine(m)
    <3>1. AlikeRows("sessions", s.sessions, m.sessions)
      BY <2>1 DEF AlikeStores, Tables
    <3> QED
      BY <3>1 DEF AlikeRows, Alike, Row, Read, KeptUnevenly
  <2> QED
    BY <2>1 DEF Agree
<1>2. Alike("sessions", r, r)
  BY DEF Alike, Row, Fcn, Read, KeptUnevenly
<1>3. /\ sqlite' = Upserted(sqlite) /\ memory' = Upserted(memory) /\ postgres' = Upserted(postgres)
      /\ Aligned
  BY SqliteKernel, MemoryKernel, PostgresKernel
     DEF UpsertSessionState, Call, S!UpsertSessionState, M!UpsertSessionState,
         P!UpsertSessionState, S!Where, M!Where, P!Where, S!MatchesScope, M!MatchesScope,
         P!MatchesScope
<1>4. "sessions" \in Tables
  BY DEF Tables
<1> HIDE DEF Mine, r
<1>5. /\ AlikeStores(Put(sqlite, "sessions", Mine(sqlite), r), Put(memory, "sessions",
           Mine(memory), r))
      /\ AlikeStores(Put(memory, "sessions", Mine(memory), r),
                     Put(postgres, "sessions", Mine(postgres), r))
  BY <1>1, <1>2, <1>3, <1>4, PutsAgree
<1>6. r # None
  BY <1>2, AlikeIsRow
<1>7. AlikeStores(Upserted(sqlite), Upserted(memory))
  BY <1>2, <1>5, <1>6, LoggedAlike
<1>8. AlikeStores(Upserted(memory), Upserted(postgres))
  BY <1>2, <1>5, <1>6, LoggedAlike
<1> QED
  BY <1>3, <1>7, <1>8 DEF Agree

LEMMA SetScopeConfigAgrees ==
    ASSUME Agree, NEW scope, NEW value, SetScopeConfig(scope, value)
    PROVE  Agree'
<1> DEFINE Mine(st) == {i \in DOMAIN st.configs :
                          st.configs[i].own = scope /\ st.configs[i].key = "key"}
           Since(st) == IF Mine(st) = {} THEN now ELSE st.configs[TheOne(Mine(st))].at
           Row1(x) == [own |-> scope, key |-> "key", value |-> value, at |-> x, updated |-> now]
<1>0. ASSUME NEW s, NEW m, AlikeStores(s, m) PROVE Mine(s) = Mine(m) /\ Since(s) = Since(m)
  <2>1. AlikeRows("configs", s.configs, m.configs)
    BY <1>0 DEF AlikeStores, Tables
  <2>2. Mine(s) = Mine(m)
    BY <2>1 DEF AlikeRows, Alike, Row, Read, KeptUnevenly
  <2>3. ASSUME Mine(s) # {} PROVE TheOne(Mine(s)) \in DOMAIN s.configs
    BY <2>3 DEF TheOne
  <2> HIDE DEF Mine
  <2>4. ASSUME Mine(s) # {}
        PROVE  s.configs[TheOne(Mine(s))].at = m.configs[TheOne(Mine(s))].at
    BY <2>1, <2>3, <2>4 DEF AlikeRows, Alike, Row, Read, KeptUnevenly
  <2> QED
    BY <2>2, <2>4
<1> HIDE DEF Mine, Since
<1>1. /\ Mine(sqlite) = Mine(memory) /\ Mine(memory) = Mine(postgres)
      /\ Since(sqlite) = Since(memory) /\ Since(memory) = Since(postgres)
  BY <1>0 DEF Agree
<1>2. ASSUME NEW x PROVE Alike("configs", Row1(x), Row1(x))
  <2>1. Row("configs", Row1(x))
    BY DEF Row, Fcn, Read
  <2> QED
    BY <2>1, SameAlike
<1>3. /\ sqlite' = Put(sqlite, "configs", Mine(sqlite), Row1(Since(sqlite)))
      /\ memory' = Put(memory, "configs", Mine(memory), Row1(Since(memory)))
      /\ postgres' = Put(postgres, "configs", Mine(postgres), Row1(Since(postgres)))
      /\ Aligned
  <2>1. sqlite' = Put(sqlite, "configs", Mine(sqlite), Row1(Since(sqlite)))
    BY SqliteKernel DEF SetScopeConfig, Call, S!SetScopeConfig, S!Where, S!MatchesScope, Mine, Since
  <2>2. memory' = Put(memory, "configs", Mine(memory), Row1(Since(memory)))
    BY MemoryKernel DEF SetScopeConfig, Call, M!SetScopeConfig, M!Where, M!MatchesScope, Mine, Since
  <2>3. postgres' = Put(postgres, "configs", Mine(postgres), Row1(Since(postgres)))
    BY PostgresKernel DEF SetScopeConfig, Call, P!SetScopeConfig, P!Where, P!MatchesScope, Mine,
       Since
  <2>4. Aligned
    BY DEF SetScopeConfig, Call
  <2> QED
    BY <2>1, <2>2, <2>3, <2>4
<1>4. "configs" \in Tables
  BY DEF Tables
<1> HIDE DEF Row1
<1>5. AlikeStores(sqlite', memory') /\ AlikeStores(memory', postgres')
  BY <1>1, <1>2, <1>3, <1>4, PutsAgree
<1> QED
  BY <1>5 DEF Agree

LEMMA GovernAgrees ==
    ASSUME Agree, Aligned, NEW scope, NEW part, NEW name, NEW value, NEW after,
           sqlite' = S!Govern(sqlite, scope, part, name, value, after, now),
           memory' = M!Govern(memory, scope, part, name, value, after, now),
           postgres' = P!Govern(postgres, scope, part, name, value, after, now)
    PROVE  Agree'
<1> DEFINE Mine(st) == {i \in DOMAIN st.governance : /\ st.governance[i].own = scope
                          /\ st.governance[i].part = part /\ st.governance[i].name = name}
           r == [own |-> scope, part |-> part, name |-> name, value |-> value]
           e == [kind |-> part, id |-> name, type |-> IF value = None THEN "deleted" ELSE "set",
                 own |-> scope, session |-> None, before |-> None, after |-> after, at |-> now]
           Governs(st) == LoggedAll(Put(st, "governance", Mine(st), r), <<e>>)
<1>1. Mine(sqlite) = Mine(memory) /\ Mine(memory) = Mine(postgres)
  <2>1. ASSUME NEW s, NEW m, AlikeStores(s, m) PROVE Mine(s) = Mine(m)
    <3>1. AlikeRows("governance", s.governance, m.governance)
      BY <2>1 DEF AlikeStores, Tables
    <3> QED
      BY <3>1 DEF AlikeRows, Alike, Row, Read, KeptUnevenly
  <2> QED
    BY <2>1 DEF Agree
<1>2. Alike("governance", r, r)
  BY DEF Alike, Row, Fcn, Read, KeptUnevenly
<1>3. /\ sqlite' = Governs(sqlite) /\ memory' = Governs(memory) /\ postgres' = Governs(postgres)
  BY SqliteKernel, MemoryKernel, PostgresKernel
     DEF S!Govern, M!Govern, P!Govern, S!Governed, M!Governed, P!Governed,
         S!Where, M!Where, P!Where, S!MatchesScope, M!MatchesScope, P!MatchesScope
<1>4. "governance" \in Tables
  BY DEF Tables
<1>6. AlikeEvents(e, e)
  BY DEF AlikeEvents, IsEvent, AlikeSnapshots
<1> HIDE DEF Mine, r, e
<1>5. /\ AlikeStores(Put(sqlite, "governance", Mine(sqlite), r),
                     Put(memory, "governance", Mine(memory), r))
      /\ AlikeStores(Put(memory, "governance", Mine(memory), r),
                     Put(postgres, "governance", Mine(postgres), r))
  BY <1>1, <1>2, <1>4, PutsAgree
<1>7. AlikeStores(Governs(sqlite), Governs(memory))
  BY <1>5, <1>6, OneEvent, LoggedAllAlike
<1>8. AlikeStores(Governs(memory), Governs(postgres))
  BY <1>5, <1>6, OneEvent, LoggedAllAlike
<1> QED
  BY <1>3, <1>7, <1>8 DEF Agree

LEMMA UpsertDefaultContextContractAgrees ==
    ASSUME Agree, NEW scope, NEW contract, UpsertDefaultContextContract(scope, contract)
    PROVE  Agree'
<1>1. /\ sqlite' = S!Govern(sqlite, scope, "context_contract", "__default__", contract,
           [value |-> contract], now)
      /\ memory' = M!Govern(memory, scope, "context_contract", "__default__", contract,
           [value |-> contract], now)
      /\ postgres' = P!Govern(postgres, scope, "context_contract", "__default__", contract,
           [value |-> contract], now)
      /\ Aligned
  BY DEF UpsertDefaultContextContract, Call, S!UpsertDefaultContextContract,
         M!UpsertDefaultContextContract, P!UpsertDefaultContextContract
<1> QED
  BY <1>1, GovernAgrees

LEMMA UpsertNamedContextContractAgrees ==
    ASSUME Agree, NEW scope, NEW name, NEW contract, UpsertNamedContextContract(scope, name,
             contract)
    PROVE  Agree'
<1>1. /\ sqlite' = S!Govern(sqlite, scope, "context_contract", name, contract,
           [value |-> contract], now)
      /\ memory' = M!Govern(memory, scope, "context_contract", name, contract,
           [value |-> contract], now)
      /\ postgres' = P!Govern(postgres, scope, "context_contract", name, contract,
           [value |-> contract], now)
      /\ Aligned
  BY DEF UpsertNamedContextContract, Call, S!UpsertNamedContextContract,
         M!UpsertNamedContextContract, P!UpsertNamedContextContract
<1> QED
  BY <1>1, GovernAgrees

LEMMA DeleteNamedContextContractAgrees ==
    ASSUME Agree, NEW scope, NEW name, DeleteNamedContextContract(scope, name)
    PROVE  Agree'
<1>1. /\ sqlite' = S!Govern(sqlite, scope, "context_contract", name, None, None, now)
      /\ memory' = M!Govern(memory, scope, "context_contract", name, None, None, now)
      /\ postgres' = P!Govern(postgres, scope, "context_contract", name, None, None, now)
      /\ Aligned
  BY DEF DeleteNamedContextContract, Call, S!DeleteNamedContextContract,
         M!DeleteNamedContextContract, P!DeleteNamedContextContract
<1> QED
  BY <1>1, GovernAgrees

LEMMA UpsertContextInvariantAgrees ==
    ASSUME Agree, NEW scope, NEW id, NEW invariant, UpsertContextInvariant(scope, id, invariant)
    PROVE  Agree'
<1>1. /\ sqlite' = S!Govern(sqlite, scope, "context_invariant", id, invariant,
           [value |-> invariant], now)
      /\ memory' = M!Govern(memory, scope, "context_invariant", id, invariant,
           [value |-> invariant], now)
      /\ postgres' = P!Govern(postgres, scope, "context_invariant", id, invariant,
           [value |-> invariant], now)
      /\ Aligned
  BY DEF UpsertContextInvariant, Call, S!UpsertContextInvariant,
         M!UpsertContextInvariant, P!UpsertContextInvariant
<1> QED
  BY <1>1, GovernAgrees

LEMMA DeleteContextInvariantAgrees ==
    ASSUME Agree, NEW scope, NEW id, DeleteContextInvariant(scope, id)
    PROVE  Agree'
<1>1. /\ sqlite' = S!Govern(sqlite, scope, "context_invariant", id, None, None, now)
      /\ memory' = M!Govern(memory, scope, "context_invariant", id, None, None, now)
      /\ postgres' = P!Govern(postgres, scope, "context_invariant", id, None, None, now)
      /\ Aligned
  BY DEF DeleteContextInvariant, Call, S!DeleteContextInvariant,
         M!DeleteContextInvariant, P!DeleteContextInvariant
<1> QED
  BY <1>1, GovernAgrees

LEMMA UpsertContextEscalationPolicyAgrees ==
    ASSUME Agree, NEW scope, NEW policy, UpsertContextEscalationPolicy(scope, policy)
    PROVE  Agree'
<1>1. /\ sqlite' = S!Govern(sqlite, scope, "context_escalation_policy", "__policy__", policy,
           [value |-> policy], now)
      /\ memory' = M!Govern(memory, scope, "context_escalation_policy", "__policy__", policy,
           [value |-> policy], now)
      /\ postgres' = P!Govern(postgres, scope, "context_escalation_policy", "__policy__", policy,
           [value |-> policy], now)
      /\ Aligned
  BY DEF UpsertContextEscalationPolicy, Call, S!UpsertContextEscalationPolicy,
         M!UpsertContextEscalationPolicy, P!UpsertContextEscalationPolicy
<1> QED
  BY <1>1, GovernAgrees

LEMMA InsertAssociationAgrees ==
    ASSUME NullIsNoRow, Agree, NEW in, in.class \in {None, "private"}, InsertAssociation(in)
    PROVE  Agree'
<1> DEFINE Found(st) == {i \in DOMAIN st.associations :
              st.associations[i].source = in.source /\ st.associations[i].target = in.target
              /\ st.associations[i].type = in.type}
           r == [own |-> in.own, class |-> "private", source |-> in.source,
                 target |-> in.target, type |-> in.type, at |-> Given(in.at, now)]
<1>1. Found(sqlite) = Found(memory) /\ Found(memory) = Found(postgres)
  <2>1. ASSUME NEW s, NEW m, AlikeStores(s, m) PROVE Found(s) = Found(m)
    <3>1. AlikeRows("associations", s.associations, m.associations)
      BY <2>1 DEF AlikeStores, Tables
    <3> QED
      BY <3>1 DEF AlikeRows, Alike, Row, Read, KeptUnevenly
  <2> QED
    BY <2>1 DEF Agree
<1>2. Alike("associations", r, r)
  BY DEF Alike, Row, Fcn, Read, KeptUnevenly
<1>3. Given(in.class, "private") = "private"
  BY DEF Given
<1>4. /\ sqlite' = IF Found(sqlite) # {} THEN sqlite ELSE Created(sqlite, "associations", r)
      /\ memory' = IF Found(memory) # {} THEN memory ELSE Created(memory, "associations", r)
      /\ postgres' = IF Found(postgres) # {} THEN [postgres EXCEPT !.ids["associations"] = @ + 1]
                     ELSE Created(postgres, "associations", r)
      /\ Aligned
  BY <1>3, SqliteKernel, MemoryKernel, PostgresKernel
     DEF InsertAssociation, Call, S!InsertAssociation, M!InsertAssociation, P!InsertAssociation,
         S!Where, M!Where, P!Where, P!RolledBack
<1>5. "associations" \in Tables
  BY DEF Tables
<1> HIDE DEF Found, r
<1>6. CASE Found(memory) # {}
  <2>1. AlikeStores(memory, [postgres EXCEPT !.ids["associations"] = @ + 1])
    BY <1>5, RolledBackAlike DEF Agree
  <2> QED
    BY <1>1, <1>4, <1>6, <2>1 DEF Agree
<1>7. CASE Found(memory) = {}
  <2>1. /\ sqlite' = Created(sqlite, "associations", r) /\ memory' = Created(memory,
             "associations", r)
        /\ postgres' = Created(postgres, "associations", r)
    BY <1>1, <1>4, <1>7
  <2> QED
    BY <1>2, <1>4, <1>5, <2>1, CreatesAgree
<1> QED
  BY <1>6, <1>7

\* A revision: of the playbook b that it names, as r is written for it.
RevisedPlaybook(st, id, r, b, at) ==
  Logged(Logged(Changed(Added(st, "revisions", r), "playbooks", id, b),
                "revisions", NewId(st, "revisions"), "revised", None, r, at),
         "playbooks", id, "updated", None, b, at)

LEMMA InsertPlaybookRevisionAgrees ==
    ASSUME NullIsNoRow, Agree, NEW in, InsertPlaybookRevision(in)
    PROVE  Agree'
<1> DEFINE at == Given(in.at, now)
           id == in.playbook
           Book(st) == [st.playbooks[id] EXCEPT !.revisions = @ + 1, !.updated = at]
           Revision(st) == [own |-> Book(st).own, playbook |-> id, session |-> in.session,
             at |-> at]
           After(st) == IF ~Exists(st, "playbooks", id) THEN st
                        ELSE RevisedPlaybook(st, id, Revision(st), Book(st), at)
<1>1. /\ sqlite' = After(sqlite) /\ memory' = After(memory) /\ postgres' = After(postgres)
      /\ Aligned
  <2>0. /\ sqlite' = S!InsertPlaybookRevision(sqlite, in, now)
        /\ memory' = M!InsertPlaybookRevision(memory, in, now)
        /\ postgres' = P!InsertPlaybookRevision(postgres, in, now)
    BY DEF InsertPlaybookRevision, Call
  <2>1. S!InsertPlaybookRevision(sqlite, in, now) = After(sqlite)
    BY DEF S!InsertPlaybookRevision, RevisedPlaybook, Given, Exists, Added, AddedAll, With, NewId,
           Changed, Logged, LoggedAll, Event,
           S!Given, S!Exists, S!Added, S!AddedAll, S!With, S!NewId, S!Changed, S!Logged,
             S!LoggedAll, S!Event
  <2>2. M!InsertPlaybookRevision(memory, in, now) = After(memory)
    BY DEF M!InsertPlaybookRevision, RevisedPlaybook, Given, Exists, Added, AddedAll, With, NewId,
           Changed, Logged, LoggedAll, Event,
           M!Given, M!Exists, M!Added, M!AddedAll, M!With, M!NewId, M!Changed, M!Logged,
             M!LoggedAll, M!Event
  <2>3. P!InsertPlaybookRevision(postgres, in, now) = After(postgres)
    BY DEF P!InsertPlaybookRevision, RevisedPlaybook, Given, Exists, Added, AddedAll, With, NewId,
           Changed, Logged, LoggedAll, Event,
           P!Given, P!Exists, P!Added, P!AddedAll, P!With, P!NewId, P!Changed, P!Logged,
             P!LoggedAll, P!Event
  <2>4. Aligned
    BY DEF InsertPlaybookRevision, Call
  <2> HIDE DEF After
  <2> QED
    BY <2>0, <2>1, <2>2, <2>3, <2>4
<1>2. ASSUME NEW s, NEW m, AlikeStores(s, m), s.ids = m.ids PROVE AlikeStores(After(s), After(m))
  <2>1. CASE Exists(s, "playbooks", id)
    <3>1. Alike("playbooks", s.playbooks[id], m.playbooks[id])
      BY <1>2, <2>1, RowAlike, TableNames DEF Exists
    <3>2. Alike("playbooks", Book(s), Book(m))
      BY <3>1, RevisedAlike
    <3> HIDE DEF Book
    <3>3. Book(s).own = Book(m).own
      BY <3>2 DEF Alike, Row, KeptUnevenly
    <3>4. Alike("revisions", Revision(s), Revision(m))
      BY <3>3 DEF Alike, Row, Fcn, Read
    <3> HIDE DEF Revision
    <3> DEFINE s1 == Added(s, "revisions", Revision(s))
               m1 == Added(m, "revisions", Revision(m))
               s2 == Changed(s1, "playbooks", id, Book(s))
               m2 == Changed(m1, "playbooks", id, Book(m))
               s3 == Logged(s2, "revisions", NewId(s, "revisions"), "revised", None, Revision(s),
                 at)
               m3 == Logged(m2, "revisions", NewId(m, "revisions"), "revised", None, Revision(m),
                 at)
    <3>0. "revisions" \in Tables /\ "playbooks" \in Tables
      BY DEF Tables
    <3>5. AlikeStores(s1, m1)
      BY <1>2, <3>0, <3>4, AddedAlike
    <3> HIDE DEF s1, m1
    <3>6. AlikeStores(s2, m2)
      BY <3>0, <3>2, <3>5, ChangedAlike
    <3> HIDE DEF s2, m2
    <3>7. NewId(s, "revisions") = NewId(m, "revisions")
      BY <1>2 DEF NewId
    <3>8. Revision(s) # None /\ Book(s) # None
      BY <3>2, <3>4, AlikeIsRow
    <3> HIDE DEF at, id
    <3>9. AlikeStores(s3, m3)
      BY <3>4, <3>6, <3>7, <3>8, LoggedAlike
    <3> HIDE DEF s3, m3
    <3>10. AlikeStores(Logged(s3, "playbooks", id, "updated", None, Book(s), at),
                       Logged(m3, "playbooks", id, "updated", None, Book(m), at))
      BY <3>2, <3>8, <3>9, LoggedAlike
    <3>11. Exists(m, "playbooks", id)
      BY <1>2, <2>1, <3>0, ExistAlike DEF id
    <3> QED
      BY <2>1, <3>10, <3>11 DEF RevisedPlaybook, s1, s2, s3, m1, m2, m3, id
  <2>2. CASE ~Exists(s, "playbooks", id)
    <3>1. ~Exists(m, "playbooks", id)
      BY <1>2, <2>2, ExistAlike DEF Tables
    <3> QED
      BY <1>2, <2>2, <3>1
  <2> QED
    BY <2>1, <2>2
<1> HIDE DEF After
<1> QED
  BY <1>1, <1>2 DEF Agree, Aligned

LEMMA CreatedElsewhere ==
    ASSUME NEW st, IsStore(st), NEW tab \in Tables, NEW r, NEW x \in Tables \ {tab}
    PROVE  Created(st, tab, r)[x] = st[x]
BY NoTables DEF Created, CreatedAll, AddedAll, LoggedAll, IsStore, NewId

LEMMA PromoteKnowledgeCandidateAgrees ==
    ASSUME NullIsNoRow, Agree, NEW id, NEW in, PromoteKnowledgeCandidate(id, in)
    PROVE  Agree'
<1> DEFINE r == M!NewKnowledge(in, now)
           New(c, n) == [c EXCEPT !.promoted = n, !.state = "provisional"]
           Ins(st) == Created(st, "knowledge", r)
           After(st) == IF ~in.valid THEN st
                        ELSE IF ~Exists(st, "candidates", id) THEN Ins(st)
                             ELSE Edited(Ins(st), "candidates", id, "promoted",
                                    New(st.candidates[id], NewId(st, "knowledge")), now)
<1>1. /\ sqlite' = After(sqlite) /\ memory' = After(memory) /\ postgres' = After(postgres)
      /\ Aligned
  <2>1. ASSUME NEW st
        PROVE  /\ S!PromoteKnowledgeCandidate(st, id, in, now) = After(st)
               /\ M!PromoteKnowledgeCandidate(st, id, in, now) = After(st)
               /\ P!PromoteKnowledgeCandidate(st, id, in, now) = After(st)
    <3>1. /\ S!InsertKnowledgeMemory(st, in, now) = Ins(st)
          /\ M!InsertKnowledgeMemory(st, in, now) = Ins(st)
          /\ P!InsertKnowledgeMemory(st, in, now) = Ins(st)
      BY SqliteKernel, MemoryKernel, PostgresKernel
         DEF S!InsertKnowledgeMemory, M!InsertKnowledgeMemory, P!InsertKnowledgeMemory,
             S!NewKnowledge, M!NewKnowledge, P!NewKnowledge
    <3> HIDE DEF Ins
    <3>2. S!PromoteKnowledgeCandidate(st, id, in, now) = After(st)
      BY <3>1, SqliteKernel DEF S!PromoteKnowledgeCandidate
    <3>3. M!PromoteKnowledgeCandidate(st, id, in, now) = After(st)
      BY <3>1, MemoryKernel DEF M!PromoteKnowledgeCandidate
    <3>4. P!PromoteKnowledgeCandidate(st, id, in, now) = After(st)
      BY <3>1, PostgresKernel DEF P!PromoteKnowledgeCandidate
    <3> QED
      BY <3>2, <3>3, <3>4
  <2> HIDE DEF After
  <2> QED
    BY <2>1 DEF PromoteKnowledgeCandidate, Call
<1>0. "knowledge" \in Tables /\ "candidates" \in Tables /\ "candidates" # "knowledge"
  BY DEF Tables
<1>3. Alike("knowledge", r, r)
  BY DEF Alike, Row, Fcn, Read, KeptUnevenly, M!NewKnowledge
<1> HIDE DEF r
<1>2. ASSUME NEW s, NEW m, AlikeStores(s, m), s.ids = m.ids PROVE AlikeStores(After(s), After(m))
  <2>1. AlikeStores(Ins(s), Ins(m))
    BY <1>0, <1>2, <1>3, CreatedAlike
  <2>2. CASE Exists(s, "candidates", id)
    <3>1. Alike("candidates", s.candidates[id], m.candidates[id])
      BY <1>0, <1>2, <2>2, RowAlike DEF Exists
    <3>2. NewId(s, "knowledge") = NewId(m, "knowledge")
      BY <1>2 DEF NewId
    <3>3. Alike("candidates", New(s.candidates[id], NewId(s, "knowledge")),
                              New(m.candidates[id], NewId(m, "knowledge")))
      BY <3>1, <3>2, CandidatePromotedAlike
    <3>4. id \in DOMAIN Ins(s)["candidates"]
      BY <1>0, <1>2, <2>2, CreatedElsewhere DEF Exists, AlikeStores
    <3> HIDE DEF New, Ins
    <3>5. AlikeStores(Edited(Ins(s), "candidates", id, "promoted",
                             New(s.candidates[id], NewId(s, "knowledge")), now),
                      Edited(Ins(m), "candidates", id, "promoted",
                             New(m.candidates[id], NewId(m, "knowledge")), now))
      BY <1>0, <2>1, <3>3, <3>4, EditedAlike
    <3>6. Exists(m, "candidates", id)
      BY <1>0, <1>2, <2>2, ExistAlike
    <3> QED
      BY <1>2, <2>2, <3>5, <3>6
  <2>3. CASE ~Exists(s, "candidates", id)
    <3>1. ~Exists(m, "candidates", id)
      BY <1>0, <1>2, <2>3, ExistAlike
    <3> HIDE DEF Ins
    <3> QED
      BY <1>2, <2>1, <2>3, <3>1
  <2> QED
    BY <2>2, <2>3
<1> HIDE DEF After
<1> QED
  BY <1>1, <1>2 DEF Agree, Aligned

-----------------------------------------------------------------------------
\* The rows of a set in the order of their ids.
Below(T, i) == {j \in T : j < i}

LEMMA BelowPlaces ==
    ASSUME NEW T \in SUBSET Int, IsFiniteSet(T)
    PROVE  /\ Cardinality(T) \in Nat
           /\ \A x, y \in T : Cardinality(Below(T, x)) = Cardinality(Below(T, y)) => x = y
           /\ \A k \in 1..Cardinality(T) : \E x \in T : Cardinality(Below(T, x)) = k - 1
<1>1. PICK size \in Nat : size = Cardinality(T)
  BY FS_CardinalityType
<1>2. \A x \in T : /\ Below(T, x) \in SUBSET T /\ x \notin Below(T, x)
                   /\ IsFiniteSet(Below(T, x))
                   /\ Cardinality(Below(T, x)) \in 0..(size - 1)
  <2> TAKE x \in T
  <2>1. Below(T, x) \in SUBSET T /\ x \notin Below(T, x)
    BY DEF Below
  <2>2. IsFiniteSet(Below(T, x)) /\ Cardinality(Below(T, x)) <= size
    BY <1>1, <2>1, FS_Subset
  <2>3. Cardinality(Below(T, x)) \in Nat /\ Cardinality(Below(T, x)) # size
    BY <1>1, <2>1, <2>2, FS_CardinalityType, FS_Subset
  <2> QED
    BY <2>1, <2>2, <2>3
<1>3. ASSUME NEW x \in T, NEW y \in T, x < y
      PROVE  Cardinality(Below(T, x)) < Cardinality(Below(T, y))
  <2>6. \A z \in T : z < x => z < y
    BY <1>3
  <2>1. Below(T, x) \in SUBSET Below(T, y)
    BY <2>6 DEF Below
  <2>2. x \in Below(T, y) /\ x \notin Below(T, x)
    BY <1>3 DEF Below
  <2>3. Cardinality(Below(T, x)) <= Cardinality(Below(T, y))
    BY <1>2, <2>1, FS_Subset
  <2>4. Cardinality(Below(T, x)) # Cardinality(Below(T, y))
    BY <1>2, <2>1, <2>2, FS_Subset
  <2>5. Cardinality(Below(T, x)) \in Int /\ Cardinality(Below(T, y)) \in Int
    BY <1>1, <1>2
  <2> QED
    BY <2>3, <2>4, <2>5
<1>4. \A x, y \in T : Cardinality(Below(T, x)) = Cardinality(Below(T, y)) => x = y
  <2> SUFFICES ASSUME NEW x \in T, NEW y \in T, x # y
               PROVE  Cardinality(Below(T, x)) # Cardinality(Below(T, y))
    OBVIOUS
  <2>1. x < y \/ y < x
    OBVIOUS
  <2>2. Cardinality(Below(T, x)) \in Int /\ Cardinality(Below(T, y)) \in Int
    BY <1>1, <1>2
  <2> QED
    BY <1>3, <2>1, <2>2
<1>5. \A k \in 1..size : \E x \in T : Cardinality(Below(T, x)) = k - 1
  <2>1. PICK place : place = [x \in T |-> Cardinality(Below(T, x))]
    OBVIOUS
  <2>2. place \in Injection(T, 0..(size - 1))
    BY <1>2, <1>4, <2>1 DEF Injection, IsInjective
  <2>3. IsFiniteSet(0..(size - 1)) /\ Cardinality(0..(size - 1)) = size
    <3>1. 0 \in Int /\ size - 1 \in Int
      OBVIOUS
    <3> QED
      BY <3>1, FS_Interval
  <2>4. place \in Surjection(T, 0..(size - 1))
    BY <1>1, <2>2, <2>3, FS_Injection
  <2>5. ASSUME NEW k \in 1..size PROVE \E x \in T : place[x] = k - 1
    <3>1. k - 1 \in 0..(size - 1)
      OBVIOUS
    <3> QED
      BY <2>4, <3>1 DEF Surjection
  <2> QED
    BY <2>1, <2>5
<1> QED
  BY <1>1, <1>4, <1>5

LEMMA ByIdPlaces ==
    ASSUME NEW T \in SUBSET Int, IsFiniteSet(T)
    PROVE  /\ Listed(ById(T), Cardinality(T))
           /\ \A k \in 1..Cardinality(T) :
                ById(T)[k] \in T /\ Cardinality(Below(T, ById(T)[k])) = k - 1
<1>1. ById(T) = [k \in 1..Cardinality(T) |-> CHOOSE i \in T : Cardinality(Below(T, i)) = k - 1]
  BY DEF ById, Ordered, Below
<1>2. Listed(ById(T), Cardinality(T))
  BY <1>1 DEF Listed
<1>3. ASSUME NEW k \in 1..Cardinality(T)
      PROVE  ById(T)[k] \in T /\ Cardinality(Below(T, ById(T)[k])) = k - 1
  <2>1. \E i \in T : Cardinality(Below(T, i)) = k - 1
    BY BelowPlaces
  <2>2. ById(T)[k] = CHOOSE i \in T : Cardinality(Below(T, i)) = k - 1
    BY <1>1
  <2> QED
    BY <2>1, <2>2
<1> QED
  BY <1>2, <1>3

LEMMA ByIdCopies ==
    ASSUME NEW T
    PROVE  S!ById(T) = ById(T) /\ M!ById(T) = ById(T) /\ P!ById(T) = ById(T)
<1>1. S!ById(T) = ById(T)
  BY DEF S!ById, ById, S!Ordered, Ordered, S!Cardinality, Cardinality
<1>2. M!ById(T) = ById(T)
  BY DEF M!ById, ById, M!Ordered, Ordered, M!Cardinality, Cardinality
<1>3. P!ById(T) = ById(T)
  BY DEF P!ById, ById, P!Ordered, Ordered, P!Cardinality, Cardinality
<1> QED
  BY <1>1, <1>2, <1>3

LEMMA DeleteExpiredKnowledgeCandidatesAgrees ==
    ASSUME NullIsNoRow, Agree, NEW scope, NEW olderThan,
           DeleteExpiredKnowledgeCandidates(scope, olderThan)
    PROVE  Agree'
<1> DEFINE Gone(st) == {i \in DOMAIN st.candidates : /\ st.candidates[i].own = scope
                          /\ st.candidates[i].promoted = None /\ st.candidates[i].at < olderThan}
           Told(st) == [k \in DOMAIN ById(Gone(st)) |->
                          Event("candidates", ById(Gone(st))[k], "expired",
                                st.candidates[ById(Gone(st))[k]], None, now)]
           After(st) == LoggedAll(Removed(st, "candidates", Gone(st)), Told(st))
<1>1. /\ sqlite' = After(sqlite) /\ memory' = After(memory) /\ postgres' = After(postgres)
  <2>1. ASSUME NEW st
        PROVE  /\ S!DeleteExpiredKnowledgeCandidates(st, scope, olderThan, now) = After(st)
               /\ M!DeleteExpiredKnowledgeCandidates(st, scope, olderThan, now) = After(st)
               /\ P!DeleteExpiredKnowledgeCandidates(st, scope, olderThan, now) = After(st)
    <3>1. S!DeleteExpiredKnowledgeCandidates(st, scope, olderThan, now) = After(st)
      BY SqliteKernel, ByIdCopies DEF S!DeleteExpiredKnowledgeCandidates, S!Where
    <3>2. M!DeleteExpiredKnowledgeCandidates(st, scope, olderThan, now) = After(st)
      BY MemoryKernel, ByIdCopies DEF M!DeleteExpiredKnowledgeCandidates, M!Where, M!MatchesScope
    <3>3. P!DeleteExpiredKnowledgeCandidates(st, scope, olderThan, now) = After(st)
      BY PostgresKernel, ByIdCopies DEF P!DeleteExpiredKnowledgeCandidates, P!Where
    <3> HIDE DEF After
    <3> QED
      BY <3>1, <3>2, <3>3
  <2> HIDE DEF After
  <2>2. /\ sqlite' = S!DeleteExpiredKnowledgeCandidates(sqlite, scope, olderThan, now)
        /\ memory' = M!DeleteExpiredKnowledgeCandidates(memory, scope, olderThan, now)
        /\ postgres' = P!DeleteExpiredKnowledgeCandidates(postgres, scope, olderThan, now)
    BY DEF DeleteExpiredKnowledgeCandidates, Call
  <2> QED
    BY <2>1, <2>2
<1>0. "candidates" \in Tables
  BY DEF Tables
<1>2. ASSUME NEW s, NEW m, AlikeStores(s, m) PROVE AlikeStores(After(s), After(m))
  <2>1. AlikeRows("candidates", s.candidates, m.candidates)
    BY <1>0, <1>2 DEF AlikeStores
  <2>2. Gone(s) = Gone(m)
    BY <2>1 DEF AlikeRows, Alike, Row, Read, KeptUnevenly
  <2>3. Gone(s) \subseteq DOMAIN s.candidates
    OBVIOUS
  <2>4. Numbered(s.candidates)
    BY <1>0, <1>2 DEF AlikeStores, IsStore
  <2> HIDE DEF Gone
  <2>5. Gone(s) \in SUBSET Int /\ IsFiniteSet(Gone(s))
    BY <2>3, <2>4, FS_Subset DEF Numbered
  <2>6. PICK n \in Nat : n = Cardinality(Gone(s))
    BY <2>5, BelowPlaces
  <2> DEFINE l == ById(Gone(s))
  <2>7. Listed(l, n) /\ \A k \in 1..n : l[k] \in Gone(s)
    BY <2>5, <2>6, ByIdPlaces
  <2> HIDE DEF l
  <2>8. DOMAIN l = 1..n
    BY <2>7 DEF Listed
  <2> DEFINE Tell(st) == [k \in DOMAIN l |->
                            Event("candidates", l[k], "expired", st.candidates[l[k]], None, now)]
  <2>9. Listed(Tell(s), n) /\ Listed(Tell(m), n)
    BY <2>8 DEF Listed
  <2>10. ASSUME NEW k \in 1..n PROVE AlikeEvents(Tell(s)[k], Tell(m)[k])
    <3>1. Alike("candidates", s.candidates[l[k]], m.candidates[l[k]])
      BY <2>1, <2>3, <2>7 DEF AlikeRows
    <3>2. s.candidates[l[k]] # None
      BY <3>1, AlikeIsRow
    <3>3. AlikeEvents(Event("candidates", l[k], "expired", s.candidates[l[k]], None, now),
                      Event("candidates", l[k], "expired", m.candidates[l[k]], None, now))
      BY <3>1, <3>2, EventAlike
    <3> QED
      BY <2>8, <3>3
  <2>11. AlikeLogs(Tell(s), Tell(m))
    <3> HIDE DEF Tell
    <3> QED
      BY <2>9, <2>10 DEF AlikeLogs
  <2>12. Told(s) = Tell(s) /\ Told(m) = Tell(m)
    BY <2>2 DEF l
  <2>13. AlikeStores(Removed(s, "candidates", Gone(s)), Removed(m, "candidates", Gone(m)))
    BY <1>0, <1>2, <2>2, RemovedAlike
  <2> HIDE DEF Told, Tell
  <2> QED
    BY <2>11, <2>12, <2>13, LoggedAllAlike
<1> HIDE DEF After
<1> QED
  BY <1>1, <1>2 DEF Agree

-----------------------------------------------------------------------------
\* The adapters write the rows touched in the same order: by id on SQLite and Postgres,
\* as asked for in memory.
LEMMA TouchOrder ==
    ASSUME NEW id \in Int, NEW T \in SUBSET {id, id + 1}
    PROVE  M!Ordered(T, LAMBDA i, j : \E k \in DOMAIN <<id, id + 1>> :
             <<id, id + 1>>[k] = i /\ \A l \in 1 .. k : <<id, id + 1>>[l] # j) = ById(T)
<1> DEFINE B(i, j) == \E k \in DOMAIN <<id, id + 1>> :
             <<id, id + 1>>[k] = i /\ \A l \in 1 .. k : <<id, id + 1>>[l] # j
<1>1. T \in SUBSET Int /\ IsFiniteSet(T)
  <2>1. {id, id + 1} = id .. id + 1 /\ id + 1 \in Int
    OBVIOUS
  <2>2. IsFiniteSet(id .. id + 1)
    BY <2>1, FS_Interval
  <2> QED
    BY <2>1, <2>2, FS_Subset
<1>2. \A i, j \in T : B(i, j) <=> i < j
  OBVIOUS
<1> DEFINE Kth(k) == CHOOSE i \in T : Cardinality({j \in T : B(j, i)}) = k - 1
           g == [k \in 1..Cardinality(T) |-> Kth(k)]
<1>3. M!Ordered(T, LAMBDA i, j : B(i, j)) = g
  BY DEF M!Ordered, M!Cardinality, Cardinality
<1> HIDE DEF B
<1>4. \A i \in T : {j \in T : B(j, i)} = Below(T, i)
  BY <1>2 DEF Below
<1>5. ASSUME NEW k \in 1..Cardinality(T) PROVE g[k] \in T /\ Cardinality(Below(T, g[k])) = k - 1
  <2>1. \E i \in T : Cardinality({j \in T : B(j, i)}) = k - 1
    BY <1>1, <1>4, BelowPlaces
  <2>2. Kth(k) \in T /\ Cardinality({j \in T : B(j, Kth(k))}) = k - 1
    BY <2>1
  <2> HIDE DEF Kth
  <2>3. g[k] = Kth(k)
    OBVIOUS
  <2> HIDE DEF g
  <2> QED
    BY <1>4, <2>2, <2>3
<1> HIDE DEF Kth
<1>6. Listed(g, Cardinality(T))
  BY DEF Listed
<1> HIDE DEF g
<1>7. ASSUME NEW k \in 1..Cardinality(T) PROVE ById(T)[k] = g[k]
  <2>1. ById(T)[k] \in T /\ Cardinality(Below(T, ById(T)[k])) = k - 1
    BY <1>1, ByIdPlaces
  <2>2. g[k] \in T /\ Cardinality(Below(T, g[k])) = k - 1
    BY <1>5
  <2>3. \A x, y \in T : Cardinality(Below(T, x)) = Cardinality(Below(T, y)) => x = y
    BY <1>1, BelowPlaces
  <2> QED
    BY <2>1, <2>2, <2>3
<1>8. ById(T) = g
  BY <1>1, <1>6, <1>7, ByIdPlaces DEF Listed
<1> QED
  BY <1>3, <1>8 DEF B

LEMMA TouchedAllAlike ==
    ASSUME NullIsNoRow, NEW s, NEW m, AlikeStores(s, m), NEW t, NEW l, NEW n \in Nat,
           Listed(l, n), \A k \in 1..n : l[k] \in DOMAIN s["knowledge"]
    PROVE  AlikeStores(M!TouchedAll(s, l, t), M!TouchedAll(m, l, t))
<1> DEFINE Touch(r) == [r EXCEPT !.touched = t, !.uses = @ + 1]
           Rows(st) == [i \in Range(l) |-> Touch(st.knowledge[i])]
           Table(st) == [st EXCEPT !["knowledge"] = With(Rows(st), @)]
           Told(st) == [k \in DOMAIN l |-> Event("knowledge", l[k], "touched",
                                                 st.knowledge[l[k]], Rows(st)[l[k]], t)]
<1>0. "knowledge" \in Tables
  BY DEF Tables
<1>1. ASSUME NEW st PROVE M!TouchedAll(st, l, t) = LoggedAll(Table(st), Told(st))
  BY MemoryKernel DEF M!TouchedAll, M!Touched, M!Range, Range
<1>2. DOMAIN l = 1..n
  BY DEF Listed
<1>3. Range(l) \subseteq DOMAIN s.knowledge /\ \A k \in 1..n : l[k] \in Range(l)
  BY <1>2 DEF Range
<1>4. AlikeRows("knowledge", s.knowledge, m.knowledge)
  BY <1>0 DEF AlikeStores
<1>5. ASSUME NEW i \in Range(l)
      PROVE  /\ Alike("knowledge", s.knowledge[i], m.knowledge[i])
             /\ Alike("knowledge", Rows(s)[i], Rows(m)[i])
  <2>1. Alike("knowledge", s.knowledge[i], m.knowledge[i])
    BY <1>3, <1>4 DEF AlikeRows
  <2>2. Alike("knowledge", Touch(s.knowledge[i]), Touch(m.knowledge[i]))
    BY <2>1, TouchedAlike
  <2> HIDE DEF Touch
  <2> QED
    BY <2>1, <2>2
<1>6. DOMAIN Rows(s) = Range(l) /\ DOMAIN Rows(m) = Range(l)
  OBVIOUS
<1> HIDE DEF Touch, Rows
<1>7. AlikeStores(Table(s), Table(m))
  <2>1. IsStore(s) /\ IsStore(m)
    BY DEF AlikeStores
  <2>2. /\ DOMAIN Table(s) = DOMAIN s /\ DOMAIN Table(m) = DOMAIN m
        /\ \A x \in Tables \ {"knowledge"} : Table(s)[x] = s[x] /\ Table(m)[x] = m[x]
        /\ Table(s).events = s.events /\ Table(m).events = m.events
        /\ Table(s).ids = s.ids /\ Table(m).ids = m.ids
        /\ Table(s)["knowledge"] = With(Rows(s), s.knowledge)
        /\ Table(m)["knowledge"] = With(Rows(m), m.knowledge)
    BY <1>0, <2>1, NoTables DEF IsStore
  <2> HIDE DEF Table
  <2>3. /\ DOMAIN Table(s)["knowledge"] = DOMAIN s.knowledge
        /\ DOMAIN Table(m)["knowledge"] = DOMAIN m.knowledge
    BY <1>3, <1>4, <1>6, <2>2 DEF AlikeRows, With
  <2>4. AlikeRows("knowledge", Table(s)["knowledge"], Table(m)["knowledge"])
    BY <1>3, <1>4, <1>5, <1>6, <2>2 DEF AlikeRows, With
  <2>5. Numbered(Table(s)["knowledge"]) /\ Numbered(Table(m)["knowledge"])
    BY <1>0, <2>1, <2>3 DEF IsStore, Numbered
  <2>6. IsStore(Table(s)) /\ IsStore(Table(m))
    BY <2>1, <2>2, <2>5 DEF IsStore
  <2> QED
    BY <1>0, <2>2, <2>4, <2>6, TableAlike
<1>8. Listed(Told(s), n) /\ Listed(Told(m), n)
  BY <1>2 DEF Listed
<1>9. ASSUME NEW k \in 1..n PROVE AlikeEvents(Told(s)[k], Told(m)[k])
  <2>1. /\ Alike("knowledge", s.knowledge[l[k]], m.knowledge[l[k]])
        /\ Alike("knowledge", Rows(s)[l[k]], Rows(m)[l[k]])
    BY <1>3, <1>5
  <2>2. s.knowledge[l[k]] # None
    BY <2>1, AlikeIsRow
  <2>3. AlikeEvents(Event("knowledge", l[k], "touched", s.knowledge[l[k]], Rows(s)[l[k]], t),
                    Event("knowledge", l[k], "touched", m.knowledge[l[k]], Rows(m)[l[k]], t))
    BY <2>1, <2>2, EventAlike
  <2> QED
    BY <1>2, <2>3
<1>10. AlikeLogs(Told(s), Told(m))
  <2> HIDE DEF Told
  <2> QED
    BY <1>8, <1>9 DEF AlikeLogs
<1> HIDE DEF Table, Told
<1> QED
  BY <1>1, <1>7, <1>10, LoggedAllAlike

LEMMA TouchKnowledgeMemoriesAgrees ==
    ASSUME NullIsNoRow, Agree, NEW id \in Int, TouchKnowledgeMemories(<<id, id + 1>>)
    PROVE  Agree'
<1> DEFINE ids == <<id, id + 1>>
           Found(st) == {i \in {id, id + 1} : i \in DOMAIN st.knowledge}
           After(st) == M!TouchedAll(st, ById(Found(st)), now)
<1>1. Range(ids) = {id, id + 1} /\ S!Range(ids) = {id, id + 1} /\ M!Range(ids) = {id, id + 1}
      /\ P!Range(ids) = {id, id + 1}
  BY DEF Range, S!Range, M!Range, P!Range
<1>2. ASSUME NEW st
      PROVE  /\ S!TouchKnowledgeMemories(st, ids, now) = After(st)
             /\ M!TouchKnowledgeMemories(st, ids, now) = After(st)
             /\ P!TouchKnowledgeMemories(st, ids, now) = After(st)
  <2>1. /\ S!GetExistingIds(st, "knowledge", {id, id + 1}) = Found(st)
        /\ M!FilterExistingIds(st, "knowledge", {id, id + 1}) = Found(st)
        /\ P!GetExistingIds(st, "knowledge", {id, id + 1}) = Found(st)
    BY SqliteKernel, MemoryKernel, PostgresKernel
       DEF S!GetExistingIds, M!FilterExistingIds, P!GetExistingIds, Exists
  <2>2. Found(st) \in SUBSET {id, id + 1}
    OBVIOUS
  <2>3. ASSUME NEW l
        PROVE  /\ S!TouchedAll(st, l, now) = M!TouchedAll(st, l, now)
               /\ P!TouchedAll(st, l, now) = M!TouchedAll(st, l, now)
    BY SqliteKernel, MemoryKernel, PostgresKernel
       DEF S!TouchedAll, M!TouchedAll, P!TouchedAll, S!Touched, M!Touched, P!Touched,
           S!Range, M!Range, P!Range
  <2> HIDE DEF Found
  <2>4. S!TouchKnowledgeMemories(st, ids, now) = After(st)
    BY <1>1, <2>1, <2>3, ByIdCopies DEF S!TouchKnowledgeMemories
  <2>5. P!TouchKnowledgeMemories(st, ids, now) = After(st)
    BY <1>1, <2>1, <2>3, ByIdCopies DEF P!TouchKnowledgeMemories
  <2>6. M!TouchKnowledgeMemories(st, ids, now) = After(st)
    BY <1>1, <2>1, <2>2, TouchOrder DEF M!TouchKnowledgeMemories
  <2> QED
    BY <2>4, <2>5, <2>6
<1>3. ASSUME NEW s, NEW m, AlikeStores(s, m) PROVE AlikeStores(After(s), After(m))
  <2>1. Found(s) = Found(m)
    BY <1>3 DEF AlikeStores, AlikeRows, Tables
  <2>2. Found(s) \in SUBSET {id, id + 1} /\ Found(s) \subseteq DOMAIN s["knowledge"]
    OBVIOUS
  <2> HIDE DEF Found
  <2>3. Found(s) \in SUBSET Int /\ IsFiniteSet(Found(s))
    <3>1. {id, id + 1} = id .. id + 1 /\ id + 1 \in Int
      OBVIOUS
    <3>2. IsFiniteSet(id .. id + 1)
      BY <3>1, FS_Interval
    <3> QED
      BY <2>2, <3>1, <3>2, FS_Subset
  <2>4. PICK n \in Nat : n = Cardinality(Found(s))
    BY <2>3, BelowPlaces
  <2>5. Listed(ById(Found(s)), n) /\ \A k \in 1..n : ById(Found(s))[k] \in DOMAIN s["knowledge"]
    BY <2>2, <2>3, <2>4, ByIdPlaces
  <2> QED
    BY <1>3, <2>1, <2>5, TouchedAllAlike
<1>4. sqlite' = After(sqlite) /\ memory' = After(memory) /\ postgres' = After(postgres)
  <2> HIDE DEF After
  <2> QED
    BY <1>2 DEF TouchKnowledgeMemories, Call
<1> HIDE DEF After
<1> QED
  BY <1>3, <1>4 DEF Agree

-----------------------------------------------------------------------------
(* Batches of two. *)
LEMMA BeforeFailureLen ==
    ASSUME NEW x, NEW y
    PROVE  Len(BeforeFailure(<<x, y>>)) \in Nat
<1> DEFINE l == <<x, y>>
           bad == {i \in DOMAIN l : ~l[i].valid}
           c == CHOOSE i \in bad : \A j \in bad : i <= j
<1>1. DOMAIN l = 1..2 /\ Len(l) = 2 /\ l \in Seq({x, y})
  OBVIOUS
<1>2. CASE bad = {}
  BY <1>1, <1>2 DEF BeforeFailure
<1>3. CASE bad # {}
  <2>1. bad \subseteq 1..2
    BY <1>1
  <2> HIDE DEF bad, l
  <2>2. \E i \in bad : \A j \in bad : i <= j
    <3>1. CASE 1 \in bad
      BY <2>1, <3>1
    <3>2. CASE 1 \notin bad
      <4>1. \A i \in bad : i = 2
        BY <2>1, <3>2
      <4> QED
        BY <1>3, <4>1
    <3> QED
      BY <3>1, <3>2
  <2>3. c \in bad
    BY <2>2
  <2> HIDE DEF c
  <2>4. c - 1 \in 0..1
    BY <2>1, <2>3
  <2>5. \A i \in 1 .. c - 1 : l[i] \in {x, y}
    BY <2>4 DEF l
  <2>6. Len(SubSeq(l, 1, c - 1)) \in Nat
    BY <2>4, <2>5, SubSeqProperties
  <2> QED
    BY <1>3, <2>6 DEF BeforeFailure, bad, c, l
<1> QED
  BY <1>2, <1>3

LEMMA BatchesAgree ==
    ASSUME NullIsNoRow, Agree, Aligned, NEW tab \in Tables, NEW rows, Listed(rows, 2),
           \A k \in 1..2 : Row(tab, rows[k]), NEW valid \in BOOLEAN, NEW n \in Int,
           sqlite' = IF valid THEN CreatedAll(sqlite, tab, rows) ELSE sqlite,
           memory' = IF valid THEN CreatedAll(memory, tab, rows) ELSE memory,
           postgres' = IF valid THEN CreatedAll(postgres, tab, rows)
                       ELSE [postgres EXCEPT !.ids[tab] = @ + n]
    PROVE  Agree'
<1>1. AlikeLists(tab, rows, rows)
  BY SameAlike, 2 \in Nat DEF AlikeLists
<1>2. AlikeStores(CreatedAll(sqlite, tab, rows), CreatedAll(memory, tab, rows))
  BY <1>1, CreatedAllAlike DEF Agree, Aligned
<1>3. AlikeStores(CreatedAll(memory, tab, rows), CreatedAll(postgres, tab, rows))
  BY <1>1, CreatedAllAlike DEF Agree, Aligned
<1>4. AlikeStores(memory, [postgres EXCEPT !.ids[tab] = @ + n])
  BY RolledBackAlike DEF Agree
<1>5. CASE valid
  BY <1>2, <1>3, <1>5 DEF Agree
<1>6. CASE ~valid
  BY <1>4, <1>6 DEF Agree
<1> QED
  BY <1>5, <1>6


LEMMA InsertTurnsAgrees ==
    ASSUME NullIsNoRow, Agree, NEW x, NEW y, InsertTurns(<<x, y>>)
    PROVE  Agree'
<1> DEFINE batch == <<x, y>>
           rows == [k \in 1..2 |-> M!NewTurn(batch[k], now)]
           valid == AllValid(batch)
           n == Len(BeforeFailure(batch))
<1>1. DOMAIN batch = 1..2
  OBVIOUS
<1>2. Listed(rows, 2) /\ \A k \in 1..2 : Row("turns", rows[k])
  BY DEF Listed, M!NewTurn, Row, Fcn, Read
<1>3. \A in : S!NewTurn(in, now) = M!NewTurn(in, now) /\ P!NewTurn(in, now) = M!NewTurn(in, now)
  BY SqliteKernel, MemoryKernel, PostgresKernel DEF S!NewTurn, M!NewTurn, P!NewTurn
<1>4. /\ S!NewTurns(batch, now) = rows /\ M!NewTurns(batch, now) = rows
      /\ P!NewTurns(batch, now) = rows
  BY <1>1, <1>3 DEF S!NewTurns, M!NewTurns, P!NewTurns
<1>5. n \in Int /\ valid \in BOOLEAN
  BY BeforeFailureLen DEF AllValid
<1>6. /\ sqlite' = S!InsertTurns(sqlite, batch, now)
      /\ memory' = M!InsertTurns(memory, batch, now)
      /\ postgres' = P!InsertTurns(postgres, batch, now)
      /\ Aligned
  BY DEF InsertTurns, Call
<1> HIDE DEF batch, rows
<1>7. sqlite' = IF valid THEN CreatedAll(sqlite, "turns", rows) ELSE sqlite
  BY <1>4, <1>6, SqliteKernel DEF S!InsertTurns
<1>8. memory' = IF valid THEN CreatedAll(memory, "turns", rows) ELSE memory
  BY <1>4, <1>6, MemoryKernel DEF M!InsertTurns
<1>9. postgres' = IF valid THEN CreatedAll(postgres, "turns", rows)
                  ELSE [postgres EXCEPT !.ids["turns"] = @ + n]
  BY <1>4, <1>6, PostgresKernel DEF P!InsertTurns, P!RolledBack
<1>10. "turns" \in Tables
  BY DEF Tables
<1> HIDE DEF valid, n
<1> QED
  BY <1>2, <1>5, <1>6, <1>7, <1>8, <1>9, <1>10, BatchesAgree

LEMMA InsertKnowledgeMemoriesAgrees ==
    ASSUME NullIsNoRow, Agree, NEW x, NEW y, InsertKnowledgeMemories(<<x, y>>)
    PROVE  Agree'
<1> DEFINE batch == <<x, y>>
           rows == [k \in 1..2 |-> M!NewKnowledge(batch[k], now)]
           valid == AllValid(batch)
           n == Len(BeforeFailure(batch))
<1>1. DOMAIN batch = 1..2
  OBVIOUS
<1>2. Listed(rows, 2) /\ \A k \in 1..2 : Row("knowledge", rows[k])
  BY DEF Listed, M!NewKnowledge, Row, Fcn, Read
<1>3. \A in : S!NewKnowledge(in, now) = M!NewKnowledge(in, now) /\ P!NewKnowledge(in, now)
        = M!NewKnowledge(in, now)
  BY SqliteKernel, MemoryKernel, PostgresKernel DEF S!NewKnowledge, M!NewKnowledge, P!NewKnowledge
<1>4. /\ S!NewKnowledges(batch, now) = rows /\ M!NewKnowledges(batch, now) = rows
      /\ P!NewKnowledges(batch, now) = rows
  BY <1>1, <1>3 DEF S!NewKnowledges, M!NewKnowledges, P!NewKnowledges
<1>5. n \in Int /\ valid \in BOOLEAN
  BY BeforeFailureLen DEF AllValid
<1>6. /\ sqlite' = S!InsertKnowledgeMemories(sqlite, batch, now)
      /\ memory' = M!InsertKnowledgeMemories(memory, batch, now)
      /\ postgres' = P!InsertKnowledgeMemories(postgres, batch, now)
      /\ Aligned
  BY DEF InsertKnowledgeMemories, Call
<1> HIDE DEF batch, rows
<1>7. sqlite' = IF valid THEN CreatedAll(sqlite, "knowledge", rows) ELSE sqlite
  BY <1>4, <1>6, SqliteKernel DEF S!InsertKnowledgeMemories
<1>8. memory' = IF valid THEN CreatedAll(memory, "knowledge", rows) ELSE memory
  BY <1>4, <1>6, MemoryKernel DEF M!InsertKnowledgeMemories
<1>9. postgres' = IF valid THEN CreatedAll(postgres, "knowledge", rows)
                  ELSE [postgres EXCEPT !.ids["knowledge"] = @ + n]
  BY <1>4, <1>6, PostgresKernel DEF P!InsertKnowledgeMemories, P!RolledBack
<1>10. "knowledge" \in Tables
  BY DEF Tables
<1> HIDE DEF valid, n
<1> QED
  BY <1>2, <1>5, <1>6, <1>7, <1>8, <1>9, <1>10, BatchesAgree

LEMMA InsertKnowledgeCandidatesAgrees ==
    ASSUME NullIsNoRow, Agree, NEW in, in.valid, InsertKnowledgeCandidates(<<in, in>>)
    PROVE  Agree'
<1> DEFINE batch == <<in, in>>
           rows == [k \in 1..2 |-> M!NewCandidate(batch[k], now)]
<1>1. DOMAIN batch = 1..2 /\ \A k \in 1..2 : batch[k].valid
  OBVIOUS
<1>2. Listed(rows, 2) /\ \A k \in 1..2 : Row("candidates", rows[k])
  BY DEF Listed, M!NewCandidate, Row, Fcn, Read
<1>3. \A x : S!NewCandidate(x, now) = M!NewCandidate(x, now) /\ P!NewCandidate(x, now)
        = M!NewCandidate(x, now)
  BY SqliteKernel, MemoryKernel, PostgresKernel DEF S!NewCandidate, M!NewCandidate, P!NewCandidate
<1>4. /\ S!NewCandidates(batch, now) = rows /\ M!NewCandidates(batch, now) = rows
      /\ P!NewCandidates(batch, now) = rows
  BY <1>1, <1>3 DEF S!NewCandidates, M!NewCandidates, P!NewCandidates
<1>6. /\ sqlite' = S!InsertKnowledgeCandidates(sqlite, batch, now)
      /\ memory' = M!InsertKnowledgeCandidates(memory, batch, now)
      /\ postgres' = P!InsertKnowledgeCandidates(postgres, batch, now)
      /\ Aligned
  BY DEF InsertKnowledgeCandidates, Call
<1> HIDE DEF batch, rows
<1>5. AllValid(batch) /\ BeforeFailure(batch) = batch
  BY <1>1 DEF AllValid, BeforeFailure
<1>7. sqlite' = CreatedAll(sqlite, "candidates", rows)
  BY <1>4, <1>5, <1>6, SqliteKernel DEF S!InsertKnowledgeCandidates
<1>8. memory' = CreatedAll(memory, "candidates", rows)
  BY <1>4, <1>5, <1>6, MemoryKernel DEF M!InsertKnowledgeCandidates
<1>9. postgres' = CreatedAll(postgres, "candidates", rows)
  BY <1>4, <1>5, <1>6, PostgresKernel DEF P!InsertKnowledgeCandidates
<1>10. "candidates" \in Tables
  BY DEF Tables
<1>11. AlikeLists("candidates", rows, rows)
  BY <1>2, SameAlike, 2 \in Nat DEF AlikeLists
<1>12. AlikeStores(CreatedAll(sqlite, "candidates", rows), CreatedAll(memory, "candidates", rows))
  BY <1>6, <1>10, <1>11, CreatedAllAlike DEF Agree, Aligned
<1>13. AlikeStores(CreatedAll(memory, "candidates", rows), CreatedAll(postgres, "candidates", rows))
  BY <1>6, <1>10, <1>11, CreatedAllAlike DEF Agree, Aligned
<1> QED
  BY <1>7, <1>8, <1>9, <1>12, <1>13 DEF Agree

LEMMA InsertKnowledgeEvidenceBatchAgrees ==
    ASSUME Agree, NEW in, in.valid, InsertKnowledgeEvidenceBatch(<<in, in>>)
    PROVE  Agree'
<1> DEFINE batch == <<in, in>>
           rows == [k \in 1..2 |-> M!NewEvidence(batch[k], now)]
<1>1. DOMAIN batch = 1..2 /\ \A k \in 1..2 : batch[k].valid
  OBVIOUS
<1>2. Listed(rows, 2) /\ \A k \in 1..2 : Row("evidence", rows[k])
  BY DEF Listed, M!NewEvidence, Row, Fcn, Read
<1>3. \A x : S!NewEvidence(x, now) = M!NewEvidence(x, now) /\ P!NewEvidence(x, now)
        = M!NewEvidence(x, now)
  BY SqliteKernel, MemoryKernel, PostgresKernel DEF S!NewEvidence, M!NewEvidence, P!NewEvidence
<1>4. /\ S!NewEvidences(batch, now) = rows /\ M!NewEvidences(batch, now) = rows
      /\ P!NewEvidences(batch, now) = rows
  BY <1>1, <1>3 DEF S!NewEvidences, M!NewEvidences, P!NewEvidences
<1>6. /\ sqlite' = S!InsertKnowledgeEvidenceBatch(sqlite, batch, now)
      /\ memory' = M!InsertKnowledgeEvidenceBatch(memory, batch, now)
      /\ postgres' = P!InsertKnowledgeEvidenceBatch(postgres, batch, now)
      /\ Aligned
  BY DEF InsertKnowledgeEvidenceBatch, Call
<1> HIDE DEF batch, rows
<1>5. AllValid(batch) /\ BeforeFailure(batch) = batch
  BY <1>1 DEF AllValid, BeforeFailure
<1>7. sqlite' = AddedAll(sqlite, "evidence", rows)
  BY <1>4, <1>5, <1>6, SqliteKernel DEF S!InsertKnowledgeEvidenceBatch
<1>8. memory' = AddedAll(memory, "evidence", rows)
  BY <1>4, <1>5, <1>6, MemoryKernel DEF M!InsertKnowledgeEvidenceBatch
<1>9. postgres' = AddedAll(postgres, "evidence", rows)
  BY <1>4, <1>5, <1>6, PostgresKernel DEF P!InsertKnowledgeEvidenceBatch
<1>10. "evidence" \in Tables
  BY DEF Tables
<1>11. AlikeLists("evidence", rows, rows)
  BY <1>2, SameAlike, 2 \in Nat DEF AlikeLists
<1>12. AlikeStores(AddedAll(sqlite, "evidence", rows), AddedAll(memory, "evidence", rows))
  BY <1>6, <1>10, <1>11, AddedAllAlike DEF Agree, Aligned
<1>13. AlikeStores(AddedAll(memory, "evidence", rows), AddedAll(postgres, "evidence", rows))
  BY <1>6, <1>10, <1>11, AddedAllAlike DEF Agree, Aligned
<1> QED
  BY <1>7, <1>8, <1>9, <1>12, <1>13 DEF Agree

-----------------------------------------------------------------------------
(* Every behaviour. *)
LEMMA InitAgrees ==
    ASSUME Init
    PROVE  Agree
<1> DEFINE e == EmptyStore
<1>1. /\ DOMAIN e = Tables \cup {"events", "ids"}
      /\ \A tab \in Tables : e[tab] = <<>>
      /\ e.events = <<>> /\ e.ids = [t \in Tables |-> 1]
  BY NoTables DEF EmptyStore
<1> HIDE DEF e
<1>2. DOMAIN <<>> = {}
  OBVIOUS
<1>3. Numbered(<<>>)
  BY <1>2, FS_EmptySet DEF Numbered
<1>4. IsStore(e)
  BY <1>1, <1>3 DEF IsStore
<1>5. \A tab \in Tables : AlikeRows(tab, e[tab], e[tab])
  BY <1>1, <1>2 DEF AlikeRows
<1>6. AlikeLogs(<<>>, <<>>)
  <2>1. Listed(<<>>, 0)
    BY DEF Listed
  <2> QED
    BY <2>1, 0 \in Nat DEF AlikeLogs
<1>7. AlikeStores(e, e)
  BY <1>1, <1>4, <1>5, <1>6 DEF AlikeStores
<1> QED
  BY <1>7 DEF Init, Agree, e

LEMMA TurnsAgree ==
    ASSUME NullIsNoRow, Agree, OnTurns
    PROVE  Agree'
<1>1. ASSUME NEW in, InsertTurn(in) PROVE Agree'
  BY <1>1, InsertTurnAgrees
<1>2. ASSUME NEW in, NEW batch \in Batches(in), InsertTurns(batch) PROVE Agree'
  <2>1. PICK x, y : batch = <<x, y>>
    BY DEF Batches
  <2> QED
    BY <1>2, <2>1, InsertTurnsAgrees
<1>3. ASSUME NEW id, ArchiveTurn(id) PROVE Agree'
  BY <1>3, ArchiveTurnAgrees
<1> QED
  BY <1>1, <1>2, <1>3 DEF OnTurns

LEMMA WorkingMemoryAgrees ==
    ASSUME NullIsNoRow, Agree, OnWorkingMemory
    PROVE  Agree'
<1>1. ASSUME NEW in, InsertWorkingMemory(in) PROVE Agree'
  BY <1>1, InsertWorkingMemoryAgrees
<1>2. ASSUME NEW id, ExpireWorkingMemory(id) PROVE Agree'
  BY <1>2, ExpireWorkingMemoryAgrees
<1>3. ASSUME NEW id, MarkWorkingMemoryPromoted(id, 1) PROVE Agree'
  BY <1>3, MarkWorkingMemoryPromotedAgrees
<1> QED
  BY <1>1, <1>2, <1>3 DEF OnWorkingMemory

LEMMA KnowledgeAgrees ==
    ASSUME NullIsNoRow, Agree, OnKnowledge
    PROVE  Agree'
<1>1. ASSUME NEW in, InsertKnowledgeMemory(in) PROVE Agree'
  BY <1>1, InsertKnowledgeMemoryAgrees
<1>2. ASSUME NEW in, NEW batch \in Batches(in), InsertKnowledgeMemories(batch) PROVE Agree'
  <2>1. PICK x, y : batch = <<x, y>>
    BY DEF Batches
  <2> QED
    BY <1>2, <2>1, InsertKnowledgeMemoriesAgrees
<1>3. ASSUME NEW id, NEW patch \in KnowledgePatches, UpdateKnowledgeMemory(id, patch) PROVE Agree'
  BY <1>3, InputAssumption, UpdateKnowledgeMemoryAgrees
<1>4. ASSUME NEW id, TouchKnowledgeMemory(id) PROVE Agree'
  BY <1>4, TouchKnowledgeMemoryAgrees
<1>5. ASSUME NEW id \in Ids("knowledge"), TouchKnowledgeMemories(<<id, id + 1>>) PROVE Agree'
  <2>1. memory.ids["knowledge"] \in Int
    BY DEF Agree, AlikeStores, IsStore, Tables
  <2>2. id \in Int
    BY <2>1 DEF Ids
  <2> QED
    BY <1>5, <2>2, TouchKnowledgeMemoriesAgrees
<1>6. ASSUME NEW id, RetireKnowledgeMemory(id) PROVE Agree'
  BY <1>6, RetireKnowledgeMemoryAgrees
<1>7. ASSUME NEW old, NEW new, SupersedeKnowledgeMemory(old, new) PROVE Agree'
  BY <1>7, SupersedeKnowledgeMemoryAgrees
<1> QED
  BY <1>1, <1>2, <1>3, <1>4, <1>5, <1>6, <1>7 DEF OnKnowledge

LEMMA LearningAgrees ==
    ASSUME NullIsNoRow, Agree, OnLearning
    PROVE  Agree'
<1>1. ASSUME NEW in, InsertKnowledgeCandidate(in) PROVE Agree'
  BY <1>1, InsertKnowledgeCandidateAgrees
<1>2. ASSUME NEW in \in CandidateInputs, InsertKnowledgeCandidates(<<in, in>>) PROVE Agree'
  BY <1>2, InputAssumption, InsertKnowledgeCandidatesAgrees
<1>3. ASSUME NEW in, InsertKnowledgeEvidence(in) PROVE Agree'
  BY <1>3, InsertKnowledgeEvidenceAgrees
<1>4. ASSUME NEW in \in EvidenceInputs, InsertKnowledgeEvidenceBatch(<<in, in>>) PROVE Agree'
  BY <1>4, InputAssumption, InsertKnowledgeEvidenceBatchAgrees
<1>5. ASSUME NEW id, NEW in, PromoteKnowledgeCandidate(id, in) PROVE Agree'
  BY <1>5, PromoteKnowledgeCandidateAgrees
<1>6. ASSUME NEW scope, DeleteExpiredKnowledgeCandidates(scope, now) PROVE Agree'
  BY <1>6, DeleteExpiredKnowledgeCandidatesAgrees
<1>7. ASSUME NEW in, InsertKnowledgeMemoryAudit(in) PROVE Agree'
  BY <1>7, InsertKnowledgeMemoryAuditAgrees
<1> QED
  BY <1>1, <1>2, <1>3, <1>4, <1>5, <1>6, <1>7 DEF OnLearning

LEMMA WorkItemsAgree ==
    ASSUME NullIsNoRow, Agree, OnWorkItems
    PROVE  Agree'
<1>1. ASSUME NEW in, InsertWorkItem(in) PROVE Agree'
  BY <1>1, InsertWorkItemAgrees
<1>2. ASSUME NEW id, UpdateWorkItemStatus(id, "done") PROVE Agree'
  BY <1>2, UpdateWorkItemStatusAgrees
<1>3. ASSUME NEW id, NEW patch \in ItemPatches, NEW stale \in BOOLEAN,
             UpdateWorkItem(id, patch, stale)
      PROVE  Agree'
  BY <1>3, InputAssumption, UpdateWorkItemAgrees
<1>4. ASSUME NEW id, DeleteWorkItem(id) PROVE Agree'
  BY <1>4, DeleteWorkItemAgrees
<1> QED
  BY <1>1, <1>2, <1>3, <1>4 DEF OnWorkItems

LEMMA LogsAgree ==
    ASSUME Agree, OnLogs
    PROVE  Agree'
BY UpsertContextMonitorAgrees, InsertCompactionLogAgrees DEF OnLogs

LEMMA PlaybooksAgree ==
    ASSUME NullIsNoRow, Agree, OnPlaybooks
    PROVE  Agree'
<1>1. ASSUME NEW in, InsertPlaybook(in) PROVE Agree'
  BY <1>1, InsertPlaybookAgrees
<1>2. ASSUME NEW id, NEW patch \in PlaybookPatches, UpdatePlaybook(id, patch) PROVE Agree'
  BY <1>2, InputAssumption, UpdatePlaybookAgrees
<1>3. ASSUME NEW id, RecordPlaybookUse(id) PROVE Agree'
  BY <1>3, RecordPlaybookUseAgrees
<1>4. ASSUME NEW in, InsertPlaybookRevision(in) PROVE Agree'
  BY <1>4, InsertPlaybookRevisionAgrees
<1> QED
  BY <1>1, <1>2, <1>3, <1>4 DEF OnPlaybooks

LEMMA AssociationsAgree ==
    ASSUME NullIsNoRow, Agree, OnAssociations
    PROVE  Agree'
<1>1. ASSUME NEW in \in AssociationInputs, InsertAssociation(in) PROVE Agree'
  BY <1>1, InputAssumption, InsertAssociationAgrees
<1>2. ASSUME NEW id, DeleteAssociation(id) PROVE Agree'
  BY <1>2, DeleteAssociationAgrees
<1> QED
  BY <1>1, <1>2 DEF OnAssociations

LEMMA DocumentsAgree ==
    ASSUME NullIsNoRow, Agree, OnDocuments
    PROVE  Agree'
<1>1. ASSUME NEW in, InsertSourceDocument(in) PROVE Agree'
  BY <1>1, InsertSourceDocumentAgrees
<1>2. ASSUME NEW id, UpdateSourceDocument(id, [status |-> "completed"]) PROVE Agree'
  <2>1. DOMAIN [status |-> "completed"] # {}
    OBVIOUS
  <2> QED
    BY <1>2, <2>1, UpdateSourceDocumentAgrees
<1> QED
  BY <1>1, <1>2 DEF OnDocuments

LEMMA SettingsAgree ==
    ASSUME Agree, OnSettings
    PROVE  Agree'
<1> PICK scope \in SettingScopes :
      \/ \E value \in {1, 2} : SetScopeConfig(scope, value)
      \/ UpsertContextEscalationPolicy(scope, 1)
      \/ \E contract \in {None, 1} : UpsertDefaultContextContract(scope, contract)
      \/ UpsertNamedContextContract(scope, "name", 1)
      \/ DeleteNamedContextContract(scope, "name")
      \/ UpsertContextInvariant(scope, "name", 1)
      \/ DeleteContextInvariant(scope, "name")
  BY DEF OnSettings
<1>1. ASSUME NEW value, SetScopeConfig(scope, value) PROVE Agree'
  BY <1>1, SetScopeConfigAgrees
<1>2. ASSUME UpsertContextEscalationPolicy(scope, 1) PROVE Agree'
  BY <1>2, UpsertContextEscalationPolicyAgrees
<1>3. ASSUME NEW contract, UpsertDefaultContextContract(scope, contract) PROVE Agree'
  BY <1>3, UpsertDefaultContextContractAgrees
<1>4. ASSUME UpsertNamedContextContract(scope, "name", 1) PROVE Agree'
  BY <1>4, UpsertNamedContextContractAgrees
<1>5. ASSUME DeleteNamedContextContract(scope, "name") PROVE Agree'
  BY <1>5, DeleteNamedContextContractAgrees
<1>6. ASSUME UpsertContextInvariant(scope, "name", 1) PROVE Agree'
  BY <1>6, UpsertContextInvariantAgrees
<1>7. ASSUME DeleteContextInvariant(scope, "name") PROVE Agree'
  BY <1>7, DeleteContextInvariantAgrees
<1> QED
  BY <1>1, <1>2, <1>3, <1>4, <1>5, <1>6, <1>7

LEMMA StepAgrees ==
    ASSUME NullIsNoRow, Agree, [Next]_vars
    PROVE  Agree'
<1>1. ASSUME NEW in, UpsertSessionState(in) PROVE Agree'
  BY <1>1, UpsertSessionStateAgrees
<1>2. CASE Tick
  BY <1>2 DEF Tick, Agree
<1>3. CASE UNCHANGED vars
  BY <1>3 DEF vars, Agree
<1> QED
  BY <1>1, <1>2, <1>3, TurnsAgree, WorkingMemoryAgrees, KnowledgeAgrees, LearningAgrees,
     WorkItemsAgree, LogsAgree, PlaybooksAgree, AssociationsAgree, DocumentsAgree, SettingsAgree
     DEF Next

-----------------------------------------------------------------------------
\* Alike stores are the same in what is compared.
LEMMA AlikeIsComparable ==
    ASSUME NullIsNoRow, NEW tab, NEW r, NEW q, AlikeSnapshots(tab, r, q)
    PROVE  Comparable(tab, r) = Comparable(tab, q)
<1>1. CASE r = q
  BY <1>1
<1>2. CASE Alike(tab, r, q)
  <2>1. r # None /\ q # None
    BY <1>2 DEF Alike, Row, NullIsNoRow
  <2> DEFINE D == {c \in DOMAIN r : <<tab, c>> \notin KeptUnevenly}
  <2>2. Comparable(tab, r) = [c \in D |-> r[c]]
    BY <2>1 DEF Comparable
  <2>3. Comparable(tab, q) = [c \in D |-> q[c]]
    BY <1>2, <2>1 DEF Comparable, Alike
  <2>4. \A c \in D : r[c] = q[c]
    BY <1>2 DEF Alike
  <2> HIDE DEF D
  <2> QED
    BY <2>2, <2>3, <2>4
<1> QED
  BY <1>1, <1>2 DEF AlikeSnapshots

LEMMA AlikeIsTheSame ==
    ASSUME NullIsNoRow, NEW s, NEW m, AlikeStores(s, m)
    PROVE  ComparableStore(s) = ComparableStore(m)
<1> DEFINE Shown(e) == [e EXCEPT !.before = Comparable(e.kind, @), !.after = Comparable(e.kind, @)]
           RowsShown(st, tab) == [i \in DOMAIN st[tab] |-> Comparable(tab, st[tab][i])]
           LogShown(st) == [i \in DOMAIN st.events |-> Shown(st.events[i])]
<1>1. \A st : ComparableStore(st) =
        [tab \in Tables \cup {"events"} |-> IF tab # "events" THEN RowsShown(st,
          tab) ELSE LogShown(st)]
  BY DEF ComparableStore
<1>2. ASSUME NEW e, NEW f, AlikeEvents(e, f) PROVE Shown(e) = Shown(f)
  <2>1. /\ Comparable(e.kind, e.before) = Comparable(f.kind, f.before)
        /\ Comparable(e.kind, e.after) = Comparable(f.kind, f.after)
    BY <1>2, AlikeIsComparable DEF AlikeEvents
  <2> DEFINE Made(x, b, a) == [kind |-> x.kind, id |-> x.id, type |-> x.type, own |-> x.own,
                               session |-> x.session, before |-> b, after |-> a, at |-> x.at]
  <2>2. ASSUME NEW x, IsEvent(x), NEW b, NEW a
        PROVE  [x EXCEPT !.before = b, !.after = a] = Made(x, b, a)
    <3> DEFINE C == {"kind", "id", "type", "own", "session", "before", "after", "at"}
    <3>1. [x EXCEPT !.before = b, !.after = a]
            = [c \in DOMAIN x |-> IF c = "after" THEN a ELSE IF c = "before" THEN b ELSE x[c]]
      OBVIOUS
    <3>2. DOMAIN x = C
      BY <2>2 DEF IsEvent
    <3>3. [c \in C |-> IF c = "after" THEN a ELSE IF c = "before" THEN b ELSE x[c]] = Made(x, b, a)
      OBVIOUS
    <3> HIDE DEF C, Made
    <3> QED
      BY <3>1, <3>2, <3>3
  <2>3. ASSUME NEW x, IsEvent(x)
        PROVE  Shown(x) = Made(x, Comparable(x.kind, x.before), Comparable(x.kind, x.after))
    <3>1. Shown(x) = [x EXCEPT !.before = Comparable(x.kind, x.before),
                               !.after = Comparable(x.kind, x.after)]
      BY <2>3 DEF IsEvent
    <3> QED
      BY <2>2, <2>3, <3>1
  <2> HIDE DEF Shown
  <2> QED
    BY <1>2, <2>1, <2>3 DEF AlikeEvents
<1>3. ASSUME NEW tab \in Tables PROVE RowsShown(s, tab) = RowsShown(m, tab)
  <2>1. AlikeRows(tab, s[tab], m[tab])
    BY DEF AlikeStores
  <2>2. \A i \in DOMAIN s[tab] : Comparable(tab, s[tab][i]) = Comparable(tab, m[tab][i])
    BY <2>1, AlikeIsComparable DEF AlikeRows, AlikeSnapshots
  <2> QED
    BY <2>1, <2>2 DEF AlikeRows
<1>4. LogShown(s) = LogShown(m)
  <2>1. PICK n \in Nat : /\ Listed(s.events, n) /\ Listed(m.events, n)
                         /\ \A k \in 1..n : AlikeEvents(s.events[k], m.events[k])
    BY DEF AlikeStores, AlikeLogs
  <2>2. DOMAIN s.events = 1..n /\ DOMAIN m.events = 1..n
    BY <2>1, ListedLen
  <2>3. \A k \in 1..n : Shown(s.events[k]) = Shown(m.events[k])
    BY <1>2, <2>1
  <2> HIDE DEF Shown
  <2> QED
    BY <2>2, <2>3
<1> HIDE DEF RowsShown, LogShown
<1>5. \A tab \in Tables \cup {"events"} :
        (IF tab # "events" THEN RowsShown(s, tab) ELSE LogShown(s))
          = (IF tab # "events" THEN RowsShown(m, tab) ELSE LogShown(m))
  BY <1>3, <1>4
<1> QED
  BY <1>1, <1>5

\* WritesAgree: the same calls leave the same rows and the same events in every
\* adapter, up to the columns that they are known to keep unevenly, for all inputs,
\* scopes and settings and for any number of calls, whatever fails half-way and
\* whatever ids are asked for.  Null is told apart from rows.
THEOREM StorageWritesAgree ==
    ASSUME NullIsNoRow
    PROVE  Spec => []WritesAgree
<1>1. Init => Agree
  BY InitAgrees
<1>2. Agree /\ [Next]_vars => Agree'
  BY StepAgrees
<1>3. Agree => WritesAgree
  BY AlikeIsTheSame DEF Agree, WritesAgree, Same
<1> QED
  BY <1>1, <1>2, <1>3, PTL DEF Spec

-----------------------------------------------------------------------------
(***************************************************************************)
(* What the logs tell, for all inputs and any number of calls: the history *)
(* of each row, and the row.                                               *)
(***************************************************************************)

\* The tables whose rows a replay rebuilds by their ids.
WithLog == {"turns", "working", "knowledge", "items", "associations", "playbooks"}

IsAbout(ev, tab, id) == ev.kind = tab /\ ev.id = id

LastAbout(st, k, tab, id) ==
  /\ k \in DOMAIN st.events /\ IsAbout(st.events[k], tab, id)
  /\ \A l \in DOMAIN st.events : l > k => ~IsAbout(st.events[l], tab, id)

\* The last event about a row that is there shows it as it is.
Shown(st) ==
  \A tab \in WithLog : \A id \in DOMAIN st[tab] : \E k \in DOMAIN st.events :
    LastAbout(st, k, tab, id) /\ st.events[k].type # "deleted" /\ st.events[k].after = st[tab][id]

\* The last event about a row that is gone is its deletion.
Gone(st) ==
  \A tab \in WithLog : \A k \in DOMAIN st.events : \A id :
    LastAbout(st, k, tab, id) /\ id \notin DOMAIN st[tab] => st.events[k].type = "deleted"

\* What an event says was there before is what the event before it left.
Linked(st) ==
  \A k \in DOMAIN st.events :
    st.events[k].kind \in WithLog /\ st.events[k].before # None =>
      \E l \in 1..(k - 1) :
        /\ IsAbout(st.events[l], st.events[k].kind, st.events[k].id)
        /\ st.events[l].after = st.events[k].before
        /\ \A m \in (l + 1)..(k - 1) : ~IsAbout(st.events[m], st.events[k].kind, st.events[k].id)

\* A row is created once, before all else that happens to it.
CreatedOnce(st) ==
  \A k \in DOMAIN st.events :
    st.events[k].kind \in WithLog /\ st.events[k].type = "created" =>
      \A l \in 1..(k - 1) : ~IsAbout(st.events[l], st.events[k].kind, st.events[k].id)

\* An event belongs to the scope of the row it shows, or of the one it says is gone: a
\* scope's events tell of its rows.
RowOf(ev) == IF ev.after # None THEN ev.after ELSE ev.before

Owned(st) ==
  \A k \in DOMAIN st.events :
    st.events[k].kind \in WithLog => st.events[k].own = RowOf(st.events[k]).own

LogTells(st) == Shown(st) /\ Gone(st) /\ Linked(st) /\ CreatedOnce(st) /\ Owned(st)

\* What it takes besides: ids are handed out in ascending order.
Ascending(st) ==
  \A tab \in WithLog :
    /\ \A id \in DOMAIN st[tab] : id < st.ids[tab]
    /\ \A k \in DOMAIN st.events :
         st.events[k].kind = tab => st.events[k].id \in Int /\ st.events[k].id < st.ids[tab]

Told(st) ==
  IsStore(st) /\ (\E n \in Nat : Listed(st.events, n)) /\ Ascending(st) /\ LogTells(st)

\* Events that tell what a write makes of table tab, where st becomes t.
TellsOne(st, t, tab, ev) ==
  /\ ev.id \in Int /\ ev.id < t.ids[tab]
  /\ ev.id \in DOMAIN t[tab] => ev.type # "deleted" /\ ev.after = t[tab][ev.id]
  /\ ev.id \notin DOMAIN t[tab] => ev.type = "deleted"
  /\ ev.before # None => ev.id \in DOMAIN st[tab] /\ ev.before = st[tab][ev.id]
  /\ ev.type = "created" => ev.id >= st.ids[tab]
  /\ ev.own = RowOf(ev).own

Tells(st, t, tab, es, n) ==
  /\ \A k \in 1..n : TellsOne(st, t, tab, es[k])
  /\ \A k, l \in 1..n : es[k].id = es[l].id => k = l
  /\ \A id \in DOMAIN t[tab] :
       (\E k \in 1..n : es[k].id = id) \/ (id \in DOMAIN st[tab] /\ t[tab][id] = st[tab][id])
  /\ \A id \in DOMAIN st[tab] : (\E k \in 1..n : es[k].id = id) \/ id \in DOMAIN t[tab]

\* The events es are logged after the n that were there.
Logs(st, n, t, es, m) ==
  Listed(st.events, n) /\ Listed(es, m) /\ Joins(t.events, st.events, n, es, m)

\* None of the events is about the row.
Silent(es, m, tab, id) == \A k \in 1..m : ~IsAbout(es[k], tab, id)

\* All are about rows of one table, different ones.
Apart(es, m, tab) ==
  /\ \A k \in 1..m : es[k].kind = tab
  /\ \A k, l \in 1..m : es[k].id = es[l].id => k = l

\* An event that was the last about its row still is, if nothing new is about it.
LEMMA StillLast ==
    ASSUME NEW st, NEW t, NEW n \in Nat, NEW m \in Nat, NEW es, Logs(st, n, t, es, m),
           NEW tab, NEW id, Silent(es, m, tab, id), NEW k
    PROVE  LastAbout(t, k, tab, id) <=> LastAbout(st, k, tab, id)
<1>1. DOMAIN st.events = 1..n /\ DOMAIN t.events = 1..(n + m)
  BY DEF Logs, Listed, Joins
<1>2. \A l \in 1..n : t.events[l] = st.events[l]
  BY DEF Logs, Joins
<1>3. ASSUME NEW l \in (n + 1)..(n + m) PROVE ~IsAbout(t.events[l], tab, id)
  <2>1. l - n \in 1..m /\ n + (l - n) = l
    OBVIOUS
  <2>2. t.events[l] = es[l - n]
    BY <2>1 DEF Logs, Joins
  <2> QED
    BY <2>1, <2>2 DEF Silent
<1>4. \A l \in 1..(n + m) : l \in 1..n \/ l \in (n + 1)..(n + m)
  OBVIOUS
<1>5. ASSUME LastAbout(t, k, tab, id) PROVE LastAbout(st, k, tab, id)
  <2>1. k \in 1..n
    BY <1>1, <1>3, <1>4, <1>5 DEF LastAbout
  <2>2. \A l \in 1..n : l \in 1..(n + m)
    OBVIOUS
  <2> QED
    BY <1>1, <1>2, <1>5, <2>1, <2>2 DEF LastAbout
<1>6. ASSUME LastAbout(st, k, tab, id) PROVE LastAbout(t, k, tab, id)
  <2>1. k \in 1..n /\ k \in 1..(n + m)
    BY <1>1, <1>6 DEF LastAbout
  <2>2. IsAbout(t.events[k], tab, id)
    BY <1>2, <1>6, <2>1 DEF LastAbout
  <2>3. ASSUME NEW l \in 1..(n + m), l > k PROVE ~IsAbout(t.events[l], tab, id)
    BY <1>1, <1>2, <1>3, <1>4, <1>6, <2>3 DEF LastAbout
  <2> QED
    BY <1>1, <2>1, <2>2, <2>3 DEF LastAbout
<1> QED
  BY <1>5, <1>6

\* Event ev is the last about its row, and the j-th of all.
LastAt(t, j, tab, ev) ==
  /\ LastAbout(t, j, tab, ev.id) /\ t.events[j] = ev
  /\ \A l : LastAbout(t, l, tab, ev.id) => l = j

\* A new event that is the only new one about its row is the last about it.
LEMMA NewLast ==
    ASSUME NEW st, NEW t, NEW n \in Nat, NEW m \in Nat, NEW es, Logs(st, n, t, es, m),
           NEW tab, Apart(es, m, tab), NEW k \in 1..m
    PROVE  LastAt(t, n + k, tab, es[k])
<1>1. n + k \in 1..(n + m)
  OBVIOUS
<1>2. DOMAIN t.events = 1..(n + m) /\ n + k \in 1..(n + m) /\ t.events[n + k] = es[k]
  BY <1>1 DEF Logs, Listed, Joins
<1>3. ASSUME NEW l \in 1..(n + m), l > n + k PROVE ~IsAbout(t.events[l], tab, es[k].id)
  <2>1. l - n \in 1..m /\ n + (l - n) = l /\ l - n # k
    BY <1>3
  <2>2. t.events[l] = es[l - n]
    BY <2>1 DEF Logs, Joins
  <2> QED
    BY <2>1, <2>2 DEF Apart, IsAbout
<1>4. IsAbout(t.events[n + k], tab, es[k].id)
  BY <1>2 DEF Apart, IsAbout
<1>5. LastAbout(t, n + k, tab, es[k].id)
  BY <1>2, <1>3, <1>4 DEF LastAbout
<1>6. ASSUME NEW l, LastAbout(t, l, tab, es[k].id) PROVE l = n + k
  <2>1. l \in 1..(n + m) /\ ~(l > n + k) /\ ~(n + k > l)
    BY <1>2, <1>3, <1>5, <1>6 DEF LastAbout
  <2> QED
    BY <2>1
<1> QED
  BY <1>2, <1>5, <1>6 DEF LastAt

\* A write that logs what it does, to one table at a time.
LEMMA ToldOn ==
    ASSUME NEW st, NEW t, Told(st), IsStore(t), NEW tab, NEW m \in Nat, NEW es, Listed(es, m),
           t.events = st.events \o es,
           \A x \in WithLog \ {tab} : t[x] = st[x],
           \A x \in WithLog : t.ids[x] >= st.ids[x],
           \A k \in 1..m : es[k].kind = tab,
           tab \in WithLog => Tells(st, t, tab, es, m)
    PROVE  Told(t)
<1>1. PICK n \in Nat : Listed(st.events, n)
  BY DEF Told
<1>2. Joins(t.events, st.events, n, es, m)
  BY <1>1, ConcatListed
<1>3. /\ DOMAIN st.events = 1..n /\ DOMAIN t.events = 1..(n + m)
      /\ Listed(t.events, n + m) /\ n + m \in Nat
  BY <1>1, <1>2 DEF Joins, Listed
<1>4. ASSUME NEW k \in 1..n PROVE t.events[k] = st.events[k] /\ k \in 1..(n + m)
  <2>1. k \in 1..(n + m)
    OBVIOUS
  <2> QED
    BY <1>2, <2>1 DEF Joins
<1>5. ASSUME NEW k \in 1..(n + m), k \notin 1..n
      PROVE  k - n \in 1..m /\ n + (k - n) = k /\ t.events[k] = es[k - n]
  <2>1. k - n \in 1..m /\ n + (k - n) = k
    BY <1>5
  <2> QED
    BY <1>2, <2>1 DEF Joins
<1>6. Logs(st, n, t, es, m)
  BY <1>1, <1>2 DEF Logs
<1>7. ASSUME NEW x, NEW id, Silent(es, m, x, id), NEW k
      PROVE  LastAbout(t, k, x, id) <=> LastAbout(st, k, x, id)
  BY <1>6, <1>7, StillLast
<1>8. ASSUME NEW x \in WithLog, x # tab
      PROVE  t[x] = st[x] /\ \A id : Silent(es, m, x, id)
  BY <1>8 DEF IsAbout, Silent
<1>9. ASSUME tab \in WithLog, NEW k \in 1..m
      PROVE  /\ LastAbout(t, n + k, tab, es[k].id) /\ t.events[n + k] = es[k]
             /\ \A l : LastAbout(t, l, tab, es[k].id) => l = n + k
  <2>1. Apart(es, m, tab)
    BY <1>9 DEF Tells, Apart
  <2>2. LastAt(t, n + k, tab, es[k])
    BY <1>6, <2>1, NewLast
  <2> QED
    BY <2>2 DEF LastAt
<1>10. ASSUME NEW x, NEW id, NEW k \in 1..n, LastAbout(st, k, x, id)
      PROVE  k \in DOMAIN t.events /\ t.events[k] = st.events[k]
  BY <1>3, <1>4
<1>11. ASSUME NEW x \in WithLog, NEW id \in DOMAIN t[x], id \in DOMAIN st[x], t[x][id] = st[x][id],
              Silent(es, m, x, id)
       PROVE  \E k \in DOMAIN t.events : /\ LastAbout(t, k, x, id) /\ t.events[k].type # "deleted"
                                          /\ t.events[k].after = t[x][id]
  <2>1. PICK k \in 1..n : /\ LastAbout(st, k, x, id) /\ st.events[k].type # "deleted"
                          /\ st.events[k].after = st[x][id]
    BY <1>3, <1>11 DEF Told, LogTells, Shown
  <2> QED
    BY <1>3, <1>4, <1>7, <1>11, <2>1
<1>12. Shown(t)
  <2> SUFFICES ASSUME NEW x \in WithLog, NEW id \in DOMAIN t[x]
               PROVE  \E k \in DOMAIN t.events :
                        /\ LastAbout(t, k, x, id) /\ t.events[k].type # "deleted"
                        /\ t.events[k].after = t[x][id]
    BY DEF Shown
  <2>1. CASE x # tab
    BY <1>8, <1>11, <2>1
  <2>2. CASE x = tab /\ \E k \in 1..m : es[k].id = id
    <3>1. PICK k \in 1..m : es[k].id = id
      BY <2>2
    <3>2. LastAbout(t, n + k, tab, id) /\ t.events[n + k] = es[k]
      BY <1>9, <2>2, <3>1
    <3>3. es[k].type # "deleted" /\ es[k].after = t[tab][id]
      BY <2>2, <3>1 DEF Tells, TellsOne
    <3> QED
      BY <2>2, <3>2, <3>3 DEF LastAbout
  <2>3. CASE x = tab /\ ~\E k \in 1..m : es[k].id = id
    <3>1. id \in DOMAIN st[tab] /\ t[tab][id] = st[tab][id]
      BY <2>3 DEF Tells
    <3> QED
      BY <1>11, <2>3, <3>1 DEF IsAbout, Silent
  <2> QED
    BY <2>1, <2>2, <2>3
<1>13. Gone(t)
  <2> SUFFICES ASSUME NEW x \in WithLog, NEW k \in DOMAIN t.events, NEW id,
                      LastAbout(t, k, x, id), id \notin DOMAIN t[x]
               PROVE  t.events[k].type = "deleted"
    BY DEF Gone
  <2>1. ASSUME id \notin DOMAIN st[x], Silent(es, m, x, id)
        PROVE  t.events[k].type = "deleted"
    <3>1. LastAbout(st, k, x, id)
      BY <1>7, <2>1
    <3>2. k \in 1..n /\ st.events[k].type = "deleted"
      BY <1>3, <2>1, <3>1 DEF Told, LogTells, Gone, LastAbout
    <3> QED
      BY <1>4, <3>2
  <2>2. CASE x # tab
    BY <1>8, <2>1, <2>2
  <2>3. CASE x = tab /\ \E l \in 1..m : es[l].id = id
    <3>1. PICK l \in 1..m : es[l].id = id
      BY <2>3
    <3>2. k = n + l /\ t.events[n + l] = es[l]
      BY <1>9, <2>3, <3>1
    <3> QED
      BY <2>3, <3>1, <3>2 DEF Tells, TellsOne
  <2>4. CASE x = tab /\ ~\E l \in 1..m : es[l].id = id
    <3>1. id \notin DOMAIN st[tab]
      BY <2>4 DEF Tells
    <3> QED
      BY <2>1, <2>4, <3>1 DEF IsAbout, Silent
  <2> QED
    BY <2>2, <2>3, <2>4
<1> DEFINE SameRow(k, l) == IsAbout(t.events[l], t.events[k].kind, t.events[k].id)
<1>14. ASSUME NEW k \in 1..m, NEW j \in (n + 1)..(n + k - 1), tab \in WithLog
       PROVE  ~IsAbout(t.events[j], tab, es[k].id)
  <2>1. j \in 1..(n + m) /\ j \notin 1..n /\ j - n # k
    OBVIOUS
  <2>2. j - n \in 1..m /\ t.events[j] = es[j - n]
    BY <1>5, <2>1
  <2> QED
    BY <1>14, <2>1, <2>2 DEF Tells, IsAbout
<1>15. Linked(t)
  <2> SUFFICES ASSUME NEW k \in 1..(n + m), t.events[k].kind \in WithLog,
                      t.events[k].before # None
               PROVE  \E l \in 1..(k - 1) :
                        /\ SameRow(k, l) /\ t.events[l].after = t.events[k].before
                        /\ \A j \in (l + 1)..(k - 1) : ~SameRow(k, j)
    BY <1>3 DEF Linked
  <2>1. CASE k \in 1..n
    <3>1. PICK l \in 1..(k - 1) :
            /\ IsAbout(st.events[l], st.events[k].kind, st.events[k].id)
            /\ st.events[l].after = st.events[k].before
            /\ \A j \in (l + 1)..(k - 1) :
                 ~IsAbout(st.events[j], st.events[k].kind, st.events[k].id)
      BY <1>3, <1>4, <2>1 DEF Told, LogTells, Linked
    <3>2. \A j \in 1..(k - 1) : j \in 1..n
      BY <2>1
    <3>3. \A j \in (l + 1)..(k - 1) : j \in 1..(k - 1)
      OBVIOUS
    <3> QED
      BY <1>4, <2>1, <3>1, <3>2, <3>3
  <2>2. CASE k \notin 1..n
    <3> DEFINE i == k - n
    <3>1. i \in 1..m /\ n + i = k /\ t.events[k] = es[i]
      BY <1>5, <2>2
    <3> HIDE DEF i
    <3>2. es[i].kind = tab /\ tab \in WithLog
      BY <3>1
    <3>3. es[i].id \in DOMAIN st[tab] /\ es[i].before = st[tab][es[i].id]
      BY <3>1, <3>2 DEF Tells, TellsOne
    <3>8. Shown(st)
      BY DEF Told, LogTells
    <3>9. \E l \in DOMAIN st.events : /\ LastAbout(st, l, tab, es[i].id)
                                      /\ st.events[l].after = st[tab][es[i].id]
      BY <3>2, <3>3, <3>8 DEF Shown
    <3>4. PICK l \in 1..n : LastAbout(st, l, tab, es[i].id) /\ st.events[l].after = es[i].before
      BY <1>3, <3>3, <3>9
    <3>10. l \in 1..(k - 1)
      BY <3>1
    <3>5. l \in 1..(k - 1) /\ t.events[l] = st.events[l]
      BY <1>4, <3>10
    <3>6. SameRow(k, l) /\ t.events[l].after = t.events[k].before
      BY <3>1, <3>2, <3>4, <3>5 DEF LastAbout
    <3>7. ASSUME NEW j \in (l + 1)..(k - 1) PROVE ~SameRow(k, j)
      <4>1. CASE j \in 1..n
        <5>1. j > l
          OBVIOUS
        <5> QED
          BY <1>3, <1>4, <3>1, <3>2, <3>4, <4>1, <5>1 DEF LastAbout
      <4>2. CASE j \notin 1..n
        <5>1. j \in (n + 1)..(n + i - 1)
          BY <3>1, <4>2
        <5> QED
          BY <1>14, <3>1, <3>2, <5>1
      <4> QED
        BY <4>1, <4>2
    <3> QED
      BY <3>5, <3>6, <3>7
  <2> QED
    BY <2>1, <2>2
<1>16. Ascending(t)
  <2> SUFFICES ASSUME NEW x \in WithLog
               PROVE  /\ \A id \in DOMAIN t[x] : id < t.ids[x]
                      /\ \A k \in 1..(n + m) : t.events[k].kind = x =>
                           t.events[k].id \in Int /\ t.events[k].id < t.ids[x]
    BY <1>3 DEF Ascending
  <2>1. x \in Tables
    BY DEF WithLog, Tables
  <2>2. /\ DOMAIN st[x] \subseteq Int /\ DOMAIN t[x] \subseteq Int
        /\ st.ids[x] \in Int /\ t.ids[x] \in Int /\ t.ids[x] >= st.ids[x]
    BY <2>1 DEF Told, IsStore, Numbered
  <2>3. /\ \A id \in DOMAIN st[x] : id < st.ids[x]
        /\ \A k \in 1..n : st.events[k].kind = x =>
             st.events[k].id \in Int /\ st.events[k].id < st.ids[x]
    BY <1>3 DEF Told, Ascending
  <2>4. ASSUME NEW id \in DOMAIN t[x] PROVE id < t.ids[x]
    <3>1. CASE id \in DOMAIN st[x]
      BY <2>2, <2>3, <3>1
    <3>2. CASE id \notin DOMAIN st[x]
      <4>1. x = tab
        BY <3>2
      <4>2. PICK k \in 1..m : es[k].id = id
        BY <3>2, <4>1 DEF Tells
      <4> QED
        BY <4>1, <4>2 DEF Tells, TellsOne
    <3> QED
      BY <3>1, <3>2
  <2>5. ASSUME NEW k \in 1..(n + m), t.events[k].kind = x
        PROVE  t.events[k].id \in Int /\ t.events[k].id < t.ids[x]
    <3>1. CASE k \in 1..n
      <4>1. st.events[k].id \in Int /\ st.events[k].id < st.ids[x] /\ t.events[k] = st.events[k]
        BY <1>4, <2>3, <2>5, <3>1
      <4> QED
        BY <2>2, <4>1
    <3>2. CASE k \notin 1..n
      <4>1. k - n \in 1..m /\ t.events[k] = es[k - n]
        BY <1>5, <3>2
      <4>2. x = tab
        BY <2>5, <4>1
      <4> QED
        BY <4>1, <4>2 DEF Tells, TellsOne
    <3> QED
      BY <3>1, <3>2
  <2> QED
    BY <2>4, <2>5
<1>17. CreatedOnce(t)
  <2> SUFFICES ASSUME NEW k \in 1..(n + m), t.events[k].kind \in WithLog,
                      t.events[k].type = "created", NEW l \in 1..(k - 1)
               PROVE  ~SameRow(k, l)
    BY <1>3 DEF CreatedOnce
  <2>1. CASE k \in 1..n
    <3>1. l \in 1..n
      BY <2>1
    <3> QED
      BY <1>3, <1>4, <2>1, <3>1 DEF Told, LogTells, CreatedOnce
  <2>2. CASE k \notin 1..n
    <3> DEFINE i == k - n
    <3>1. i \in 1..m /\ n + i = k /\ t.events[k] = es[i]
      BY <1>5, <2>2
    <3> HIDE DEF i
    <3>2. es[i].kind = tab /\ tab \in WithLog
      BY <3>1
    <3>3. CASE l \in 1..n
      <4>1. tab \in Tables
        BY <3>2 DEF WithLog, Tables
      <4>2. st.ids[tab] \in Int /\ es[i].id \in Int /\ es[i].id >= st.ids[tab]
        BY <3>1, <3>2, <4>1 DEF Told, IsStore, Tells, TellsOne
      <4>3. st.events[l].kind = tab => st.events[l].id \in Int /\ st.events[l].id < st.ids[tab]
        BY <1>3, <3>2, <3>3 DEF Told, Ascending
      <4>4. t.events[l] = st.events[l]
        BY <1>4, <3>3
      <4>5. st.events[l].kind = tab => st.events[l].id # es[i].id
        BY <4>2, <4>3
      <4> QED
        BY <3>1, <3>2, <4>4, <4>5 DEF IsAbout
    <3>4. CASE l \notin 1..n
      <4>1. l \in (n + 1)..(n + i - 1)
        BY <3>1, <3>4
      <4> QED
        BY <1>14, <3>1, <3>2, <4>1
    <3> QED
      BY <3>3, <3>4
  <2> QED
    BY <2>1, <2>2
<1>18. Owned(t)
  <2> SUFFICES ASSUME NEW k \in 1..(n + m), t.events[k].kind \in WithLog
               PROVE  t.events[k].own = RowOf(t.events[k]).own
    BY <1>3 DEF Owned
  <2>1. CASE k \in 1..n
    BY <1>3, <1>4, <2>1 DEF Told, LogTells, Owned
  <2>2. CASE k \notin 1..n
    <3>1. k - n \in 1..m /\ t.events[k] = es[k - n]
      BY <1>5, <2>2
    <3> QED
      BY <3>1 DEF Tells, TellsOne
  <2> QED
    BY <2>1, <2>2
<1> QED
  BY <1>3, <1>12, <1>13, <1>15, <1>16, <1>17, <1>18 DEF Told, LogTells

\* A write that touches no table with a log, and logs nothing of one.
LEMMA ToldElse ==
    ASSUME NEW st, NEW t, Told(st), IsStore(t), t.events = st.events,
           \A x \in WithLog : t[x] = st[x] /\ t.ids[x] >= st.ids[x]
    PROVE  Told(t)
<1>1. \A k, x, id : LastAbout(t, k, x, id) <=> LastAbout(st, k, x, id)
  BY DEF LastAbout
<1>2. LogTells(t)
  BY <1>1 DEF Told, LogTells, Shown, Gone, Linked, CreatedOnce, Owned
<1>3. Ascending(t)
  <2> SUFFICES ASSUME NEW x \in WithLog
               PROVE  /\ \A id \in DOMAIN t[x] : id < t.ids[x]
                      /\ \A k \in DOMAIN t.events : t.events[k].kind = x =>
                           t.events[k].id \in Int /\ t.events[k].id < t.ids[x]
    BY DEF Ascending
  <2>1. x \in Tables
    BY DEF WithLog, Tables
  <2>2. st.ids[x] \in Int /\ t.ids[x] \in Int /\ t.ids[x] >= st.ids[x] /\ DOMAIN st[x] \subseteq Int
    BY <2>1 DEF Told, IsStore, Numbered
  <2>3. /\ \A id \in DOMAIN st[x] : id < st.ids[x]
        /\ \A k \in DOMAIN st.events : st.events[k].kind = x =>
             st.events[k].id \in Int /\ st.events[k].id < st.ids[x]
    BY DEF Told, Ascending
  <2> QED
    BY <2>2, <2>3
<1> QED
  BY <1>2, <1>3 DEF Told

LEMMA AddedAllIs ==
    ASSUME NEW st, IsStore(st), NEW tab \in Tables, NEW rows, NEW n \in Nat, Len(rows) = n
    PROVE  LET t == AddedAll(st, tab, rows)
               d == st.ids[tab]
           IN  /\ IsStore(t) /\ t.events = st.events
               /\ \A x \in Tables \ {tab} : t[x] = st[x] /\ t.ids[x] = st.ids[x]
               /\ t[tab] = With([i \in d .. d + n - 1 |-> rows[i - d + 1]], st[tab])
               /\ t.ids[tab] = d + n
<1> DEFINE t == AddedAll(st, tab, rows)
           d == st.ids[tab]
<1>1. /\ DOMAIN t = DOMAIN st /\ t.events = st.events
      /\ \A x \in Tables \ {tab} : t[x] = st[x]
      /\ t[tab] = With([i \in d .. d + n - 1 |-> rows[i - d + 1]], st[tab])
  BY NoTables DEF AddedAll, IsStore, NewId
<1>2. t.ids = [st.ids EXCEPT ![tab] = @ + n]
  BY NoTables DEF AddedAll, IsStore, NewId
<1>3. DOMAIN t.ids = DOMAIN st.ids /\ \A x \in Tables : t.ids[x] \in Int
  BY <1>2 DEF IsStore
<1>4. Numbered(st[tab]) /\ d \in Int
  BY DEF IsStore
<1>5. t.ids[tab] = d + n /\ \A x \in Tables \ {tab} : t.ids[x] = st.ids[x]
  BY <1>2 DEF IsStore
<1> HIDE DEF t, d
<1>6. DOMAIN t[tab] = (d .. d + n - 1) \cup DOMAIN st[tab]
  BY <1>1 DEF With
<1>7. d + n - 1 \in Int
  BY <1>4
<1>8. IsFiniteSet(d .. d + n - 1) /\ (d .. d + n - 1) \subseteq Int
  BY <1>4, <1>7, FS_Interval
<1>9. IsFiniteSet((d .. d + n - 1) \cup DOMAIN st[tab])
  BY <1>4, <1>8, FS_Union DEF Numbered
<1>10. Numbered(t[tab])
  BY <1>4, <1>6, <1>8, <1>9 DEF Numbered
<1>11. IsStore(t)
  BY <1>1, <1>3, <1>10 DEF IsStore
<1> QED
  BY <1>1, <1>5, <1>11 DEF t, d

LEMMA WithLogTables == WithLog \subseteq Tables
BY DEF WithLog, Tables

\* Rows added to a table without a log.
LEMMA AddedAllTold ==
    ASSUME NEW st, Told(st), NEW tab \in Tables, tab \notin WithLog, NEW rows, NEW n \in Nat,
           Len(rows) = n
    PROVE  Told(AddedAll(st, tab, rows))
<1> DEFINE t == AddedAll(st, tab, rows)
<1>1. IsStore(st)
  BY DEF Told
<1> DEFINE d == st.ids[tab]
<1>2. /\ IsStore(t) /\ t.events = st.events
      /\ \A x \in Tables \ {tab} : t[x] = st[x] /\ t.ids[x] = st.ids[x]
      /\ t[tab] = With([i \in d .. d + n - 1 |-> rows[i - d + 1]], st[tab])
      /\ t.ids[tab] = d + n
  BY <1>1, AddedAllIs
<1> HIDE DEF t
<1>3. \A x \in WithLog : t[x] = st[x] /\ t.ids[x] >= st.ids[x]
  <2> TAKE x \in WithLog
  <2>1. x \in Tables \ {tab} /\ st.ids[x] \in Int
    BY WithLogTables DEF Told, IsStore
  <2> QED
    BY <1>2, <2>1
<1>4. Told(t)
  BY <1>2, <1>3, ToldElse
<1> QED
  BY <1>4 DEF t

LEMMA AddedTold ==
    ASSUME NEW st, Told(st), NEW tab \in Tables, tab \notin WithLog, NEW r
    PROVE  Told(Added(st, tab, r))
<1>1. Len(<<r>>) = 1 /\ 1 \in Nat
  OBVIOUS
<1> QED
  BY <1>1, AddedAllTold DEF Added

LEMMA ChangedTold ==
    ASSUME NEW st, Told(st), NEW tab \in Tables, tab \notin WithLog, NEW id, NEW r
    PROVE  Told(Changed(st, tab, id, r))
<1> DEFINE t == Changed(st, tab, id, r)
<1>1. IsStore(st)
  BY DEF Told
<1>2. /\ t.events = st.events /\ t.ids = st.ids /\ DOMAIN t = DOMAIN st
      /\ \A x \in Tables \ {tab} : t[x] = st[x]
      /\ DOMAIN t[tab] = DOMAIN st[tab]
  BY <1>1, NoTables DEF Changed, IsStore
<1> HIDE DEF t
<1>3. IsStore(t)
  BY <1>1, <1>2 DEF IsStore, Numbered
<1>4. \A x \in WithLog : t[x] = st[x] /\ t.ids[x] >= st.ids[x]
  BY <1>1, <1>2, WithLogTables DEF IsStore
<1>5. Told(t)
  BY <1>2, <1>3, <1>4, ToldElse
<1> QED
  BY <1>5 DEF t

LEMMA PutTold ==
    ASSUME NEW st, Told(st), NEW tab \in Tables, tab \notin WithLog, NEW ids, NEW r
    PROVE  Told(Put(st, tab, ids, r))
BY AddedTold, ChangedTold DEF Put

LEMMA RemovedTold ==
    ASSUME NEW st, Told(st), NEW tab \in Tables, tab \notin WithLog, NEW ids
    PROVE  Told(Removed(st, tab, ids))
<1> DEFINE t == Removed(st, tab, ids)
<1>1. IsStore(st)
  BY DEF Told
<1>2. /\ t.events = st.events /\ t.ids = st.ids /\ DOMAIN t = DOMAIN st
      /\ \A x \in Tables \ {tab} : t[x] = st[x]
      /\ DOMAIN t[tab] = DOMAIN st[tab] \ ids
  BY <1>1, NoTables DEF Removed, IsStore
<1> HIDE DEF t
<1>3. IsFiniteSet(DOMAIN st[tab] \ ids)
  BY <1>1, FS_Subset DEF IsStore, Numbered
<1>4. IsStore(t)
  BY <1>1, <1>2, <1>3 DEF IsStore, Numbered
<1>5. \A x \in WithLog : t[x] = st[x] /\ t.ids[x] >= st.ids[x]
  BY <1>1, <1>2, WithLogTables DEF IsStore
<1>6. Told(t)
  BY <1>2, <1>4, <1>5, ToldElse
<1> QED
  BY <1>6 DEF t

LEMMA RolledBackTold ==
    ASSUME NEW st, Told(st), NEW tab \in Tables, NEW n \in Nat
    PROVE  Told([st EXCEPT !.ids[tab] = @ + n])
<1> DEFINE t == [st EXCEPT !.ids[tab] = @ + n]
<1>1. IsStore(st)
  BY DEF Told
<1>2. /\ t.events = st.events /\ DOMAIN t = DOMAIN st
      /\ \A x \in Tables : t[x] = st[x]
      /\ t.ids = [st.ids EXCEPT ![tab] = @ + n]
  BY <1>1, NoTables DEF IsStore
<1> HIDE DEF t
<1>3. \A x \in Tables : t.ids[x] \in Int /\ t.ids[x] >= st.ids[x]
  BY <1>1, <1>2 DEF IsStore
<1>4. IsStore(t)
  BY <1>1, <1>2, <1>3 DEF IsStore
<1>5. \A x \in WithLog : t[x] = st[x] /\ t.ids[x] >= st.ids[x]
  BY <1>2, <1>3, WithLogTables
<1>6. Told(t)
  BY <1>2, <1>4, <1>5, ToldElse
<1> QED
  BY <1>6 DEF t

\* Events that are about no table with a log.
LEMMA LoggedAllTold ==
    ASSUME NEW st, Told(st), NEW tab, tab \notin WithLog, NEW es, NEW n \in Nat, Listed(es, n),
           \A k \in 1..n : es[k].kind = tab
    PROVE  Told(LoggedAll(st, es))
<1> DEFINE t == LoggedAll(st, es)
<1>1. /\ IsStore(t) /\ t.events = st.events \o es /\ t.ids = st.ids
      /\ \A x \in Tables : t[x] = st[x]
  BY LoggedAllIs DEF Told
<1> HIDE DEF t
<1>2. \A x \in WithLog : t[x] = st[x] /\ t.ids[x] >= st.ids[x]
  BY <1>1, WithLogTables DEF Told, IsStore
<1>3. Told(t)
  BY <1>1, <1>2, ToldOn
<1> QED
  BY <1>3 DEF t

LEMMA LoggedTold ==
    ASSUME NEW st, Told(st), NEW ev, ev.kind \notin WithLog
    PROVE  Told(LoggedAll(st, <<ev>>))
<1>1. Listed(<<ev>>, 1) /\ 1 \in Nat /\ \A k \in 1..1 : <<ev>>[k].kind = ev.kind
  BY DEF Listed
<1> QED
  BY <1>1, LoggedAllTold

\* One event about a row of a table with a log.
LEMMA ToldOne ==
    ASSUME NEW st, NEW t, Told(st), IsStore(t), NEW tab, NEW ev, t.events = st.events \o <<ev>>,
           \A x \in WithLog \ {tab} : t[x] = st[x],
           \A x \in WithLog : t.ids[x] >= st.ids[x],
           ev.kind = tab,
           tab \in WithLog => TellsOne(st, t, tab, ev),
           tab \in WithLog => DOMAIN t[tab] \ {ev.id} = DOMAIN st[tab] \ {ev.id},
           tab \in WithLog => \A id \in DOMAIN t[tab] \ {ev.id} : t[tab][id] = st[tab][id]
    PROVE  Told(t)
<1>1. Listed(<<ev>>, 1) /\ 1 \in Nat /\ \A k \in 1..1 : <<ev>>[k] = ev
  BY DEF Listed
<1>2. ASSUME tab \in WithLog PROVE Tells(st, t, tab, <<ev>>, 1)
  <2>1. \A id \in DOMAIN t[tab] :
          (\E k \in 1..1 : <<ev>>[k].id = id) \/ (id \in DOMAIN st[tab] /\ t[tab][id] = st[tab][id])
    BY <1>1, <1>2
  <2>2. \A id \in DOMAIN st[tab] : (\E k \in 1..1 : <<ev>>[k].id = id) \/ id \in DOMAIN t[tab]
    BY <1>1, <1>2
  <2> QED
    BY <1>1, <1>2, <2>1, <2>2 DEF Tells
<1>3. \A k \in 1..1 : <<ev>>[k].kind = tab
  BY <1>1
<1> QED
  BY <1>1, <1>2, <1>3, ToldOn

LEMMA EditedTold ==
    ASSUME NEW st, Told(st), NEW tab \in Tables, NEW id \in DOMAIN st[tab], NEW type,
           type \notin {"created", "deleted"}, NEW at, NEW r
    PROVE  Told(Edited(st, tab, id, type, r, at))
<1> DEFINE t == Edited(st, tab, id, type, r, at)
           ev == Event(tab, id, type, st[tab][id], r, at)
<1>1. IsStore(st)
  BY DEF Told
<1>2. /\ t.events = st.events \o <<ev>> /\ t.ids = st.ids /\ DOMAIN t = DOMAIN st
      /\ \A x \in Tables \ {tab} : t[x] = st[x]
      /\ t[tab] = [st[tab] EXCEPT ![id] = r]
  BY <1>1, NoTables DEF Edited, Logged, LoggedAll, Changed, IsStore
<1>3. /\ ev.kind = tab /\ ev.id = id /\ ev.type = type /\ ev.before = st[tab][id] /\ ev.after = r
      /\ ev.own = RowOf(ev).own
  BY DEF Event, RowOf
<1> HIDE DEF t, ev
<1>4. IsStore(t)
  BY <1>1, <1>2 DEF IsStore, Numbered
<1>5. \A x \in WithLog : t.ids[x] >= st.ids[x]
  BY <1>1, <1>2, WithLogTables DEF IsStore
<1>6. tab \in WithLog => TellsOne(st, t, tab, ev)
  <2>1. id \in Int
    BY <1>1 DEF IsStore, Numbered
  <2>2. tab \in WithLog => id < t.ids[tab]
    BY <1>2 DEF Told, Ascending
  <2> QED
    BY <1>2, <1>3, <2>1, <2>2 DEF TellsOne
<1>7. DOMAIN t[tab] = DOMAIN st[tab] /\ \A i \in DOMAIN t[tab] \ {id} : t[tab][i] = st[tab][i]
  BY <1>2
<1>8. \A x \in WithLog \ {tab} : t[x] = st[x]
  BY <1>2, WithLogTables
<1>9. Told(t)
  BY <1>2, <1>3, <1>4, <1>5, <1>6, <1>7, <1>8, ToldOne
<1> QED
  BY <1>9 DEF t

LEMMA DeletedTold ==
    ASSUME NEW st, Told(st), NEW tab \in Tables, NEW id \in DOMAIN st[tab], NEW at
    PROVE  Told(Deleted(st, tab, id, "deleted", at))
<1> DEFINE t == Deleted(st, tab, id, "deleted", at)
           ev == Event(tab, id, "deleted", st[tab][id], None, at)
<1>1. IsStore(st)
  BY DEF Told
<1>2. /\ t.events = st.events \o <<ev>> /\ t.ids = st.ids /\ DOMAIN t = DOMAIN st
      /\ \A x \in Tables \ {tab} : t[x] = st[x]
      /\ t[tab] = [i \in DOMAIN st[tab] \ {id} |-> st[tab][i]]
  BY <1>1, NoTables DEF Deleted, Logged, LoggedAll, Removed, IsStore
<1>3. /\ ev.kind = tab /\ ev.id = id /\ ev.type = "deleted" /\ ev.before = st[tab][id]
      /\ ev.after = None /\ ev.own = RowOf(ev).own
  BY DEF Event, RowOf
<1> HIDE DEF t, ev
<1>4. IsFiniteSet(DOMAIN st[tab] \ {id})
  BY <1>1, FS_Subset DEF IsStore, Numbered
<1>5. IsStore(t)
  BY <1>1, <1>2, <1>4 DEF IsStore, Numbered
<1>6. \A x \in WithLog : t.ids[x] >= st.ids[x]
  BY <1>1, <1>2, WithLogTables DEF IsStore
<1>7. tab \in WithLog => TellsOne(st, t, tab, ev)
  <2>1. id \in Int
    BY <1>1 DEF IsStore, Numbered
  <2>2. tab \in WithLog => id < t.ids[tab]
    BY <1>2 DEF Told, Ascending
  <2> QED
    BY <1>2, <1>3, <2>1, <2>2 DEF TellsOne
<1>8. /\ DOMAIN t[tab] \ {id} = DOMAIN st[tab] \ {id}
      /\ \A i \in DOMAIN t[tab] \ {id} : t[tab][i] = st[tab][i]
  BY <1>2
<1>9. \A x \in WithLog \ {tab} : t[x] = st[x]
  BY <1>2, WithLogTables
<1>10. Told(t)
  BY <1>2, <1>3, <1>5, <1>6, <1>7, <1>8, <1>9, ToldOne
<1> QED
  BY <1>10 DEF t

LEMMA CreatedAllTold ==
    ASSUME NEW st, Told(st), NEW tab \in Tables, NEW rows, NEW n \in Nat, Listed(rows, n)
    PROVE  Told(CreatedAll(st, tab, rows))
<1> DEFINE d == st.ids[tab]
           u == AddedAll(st, tab, rows)
           es == [k \in DOMAIN rows |-> Event(tab, d + k - 1, "created", None, rows[k], rows[k].at)]
           t == LoggedAll(u, es)
<1>1. IsStore(st)
  BY DEF Told
<1>2. Len(rows) = n /\ DOMAIN rows = 1..n
  BY ListedLen
<1>3. /\ IsStore(u) /\ u.events = st.events
      /\ \A x \in Tables \ {tab} : u[x] = st[x] /\ u.ids[x] = st.ids[x]
      /\ u[tab] = With([i \in d .. d + n - 1 |-> rows[i - d + 1]], st[tab])
      /\ u.ids[tab] = d + n
  BY <1>1, <1>2, AddedAllIs
<1> HIDE DEF u
<1>4. Listed(es, n) /\ d \in Int
  BY <1>1, <1>2 DEF Listed, IsStore
<1>5. ASSUME NEW k \in 1..n
      PROVE  /\ es[k].kind = tab /\ es[k].id = d + k - 1 /\ es[k].type = "created"
             /\ es[k].before = None /\ es[k].after = rows[k]
             /\ es[k].own = RowOf(es[k]).own
  BY <1>2 DEF Event, RowOf
<1> HIDE DEF es
<1>6. /\ IsStore(t) /\ t.events = st.events \o es /\ t.ids = u.ids
      /\ \A x \in Tables : t[x] = u[x]
  <2>1. IsStore(u) /\ u.events = st.events
    BY <1>3
  <2> QED
    BY <2>1, LoggedAllIs
<1>7. t = CreatedAll(st, tab, rows)
  BY DEF CreatedAll, NewId, es, u
<1> HIDE DEF t
<1>8. \A x \in WithLog \ {tab} : t[x] = st[x]
  BY <1>3, <1>6, WithLogTables
<1>9. \A x \in WithLog : t.ids[x] >= st.ids[x]
  <2> TAKE x \in WithLog
  <2>1. x \in Tables /\ st.ids[x] \in Int
    BY <1>1, WithLogTables DEF IsStore
  <2>2. CASE x = tab
    BY <1>3, <1>4, <1>6, <2>2
  <2>3. CASE x # tab
    BY <1>3, <1>6, <2>1, <2>3
  <2> QED
    BY <2>2, <2>3
<1>10. ASSUME tab \in WithLog PROVE Tells(st, t, tab, es, n)
  <2>0. t[tab] = u[tab] /\ t.ids[tab] = d + n
    BY <1>3, <1>6
  <2>1. ASSUME NEW k \in 1..n
        PROVE  d + k - 1 \in d .. d + n - 1 /\ (d + k - 1) - d + 1 = k /\ d + k - 1 \in Int
               /\ d + k - 1 < d + n /\ d + k - 1 >= d
    BY <1>4
  <2>2. DOMAIN t[tab] = (d .. d + n - 1) \cup DOMAIN st[tab]
    BY <1>3, <2>0 DEF With
  <2>3. ASSUME NEW i \in d .. d + n - 1 PROVE t[tab][i] = rows[i - d + 1]
    BY <1>3, <2>0, <2>3 DEF With
  <2>4. ASSUME NEW i \in DOMAIN st[tab] PROVE i \notin d .. d + n - 1 /\ t[tab][i] = st[tab][i]
    <3>1. i < d /\ i \in Int
      BY <1>1, <1>10 DEF Told, Ascending, IsStore, Numbered
    <3>2. i \notin d .. d + n - 1
      BY <1>4, <3>1
    <3> QED
      BY <1>3, <2>0, <3>2 DEF With
  <2>5. ASSUME NEW k \in 1..n PROVE TellsOne(st, t, tab, es[k])
    <3>1. es[k].id \in Int /\ es[k].id < t.ids[tab] /\ es[k].id >= st.ids[tab]
      BY <1>5, <2>0, <2>1
    <3>2. es[k].id \in DOMAIN t[tab] /\ t[tab][es[k].id] = rows[k]
      BY <1>5, <2>1, <2>2, <2>3
    <3> QED
      BY <1>5, <3>1, <3>2 DEF TellsOne
  <2>6. ASSUME NEW k \in 1..n, NEW l \in 1..n, es[k].id = es[l].id PROVE k = l
    BY <1>4, <1>5, <2>6
  <2>7. ASSUME NEW i \in DOMAIN t[tab]
        PROVE  (\E k \in 1..n : es[k].id = i) \/ (i \in DOMAIN st[tab] /\ t[tab][i] = st[tab][i])
    <3>1. CASE i \in DOMAIN st[tab]
      BY <2>4, <3>1
    <3>2. CASE i \in d .. d + n - 1
      <4>1. i - d + 1 \in 1..n /\ d + (i - d + 1) - 1 = i
        BY <1>4, <3>2
      <4> QED
        BY <1>5, <4>1
    <3> QED
      BY <2>2, <3>1, <3>2
  <2> QED
    BY <2>2, <2>5, <2>6, <2>7 DEF Tells
<1>11. \A k \in 1..n : es[k].kind = tab
  BY <1>5
<1>12. Told(t)
  BY <1>4, <1>6, <1>8, <1>9, <1>10, <1>11, ToldOn
<1> QED
  BY <1>7, <1>12

LEMMA CreatedTold ==
    ASSUME NEW st, Told(st), NEW tab \in Tables, NEW r
    PROVE  Told(Created(st, tab, r))
<1>1. Listed(<<r>>, 1) /\ 1 \in Nat
  BY DEF Listed
<1> QED
  BY <1>1, CreatedAllTold DEF Created

\* Rows touched in an order that has each of them once.
LEMMA TouchedAllTold ==
    ASSUME NEW st, Told(st), NEW at, NEW l, NEW n \in Nat, Listed(l, n),
           \A k \in 1..n : l[k] \in DOMAIN st["knowledge"],
           \A j, k \in 1..n : l[j] = l[k] => j = k
    PROVE  Told(M!TouchedAll(st, l, at))
<1> DEFINE Touch(r) == [r EXCEPT !.touched = at, !.uses = @ + 1]
           rows == [i \in Range(l) |-> Touch(st.knowledge[i])]
           u == [st EXCEPT !["knowledge"] = With(rows, @)]
           es == [k \in DOMAIN l |-> Event("knowledge", l[k], "touched", st.knowledge[l[k]],
                                           rows[l[k]], at)]
           t == LoggedAll(u, es)
<1>1. IsStore(st) /\ "knowledge" \in Tables
  BY DEF Told, Tables
<1>2. M!TouchedAll(st, l, at) = t
  BY MemoryKernel DEF M!TouchedAll, M!Touched, M!Range, Range
<1>3. DOMAIN l = 1..n
  BY DEF Listed
<1>4. Range(l) \subseteq DOMAIN st.knowledge /\ (\A k \in 1..n : l[k] \in Range(l))
      /\ (\A i \in Range(l) : \E k \in 1..n : l[k] = i) /\ DOMAIN rows = Range(l)
  BY <1>3 DEF Range
<1> HIDE DEF rows
<1>5. /\ DOMAIN u = DOMAIN st /\ u.events = st.events /\ u.ids = st.ids
      /\ \A x \in Tables \ {"knowledge"} : u[x] = st[x]
      /\ u["knowledge"] = With(rows, st.knowledge)
  BY <1>1, NoTables DEF IsStore
<1>6. ASSUME NEW k \in 1..n
      PROVE  /\ es[k].kind = "knowledge" /\ es[k].id = l[k] /\ es[k].type = "touched"
             /\ es[k].before = st.knowledge[l[k]] /\ es[k].after = rows[l[k]]
             /\ es[k].own = RowOf(es[k]).own
  BY <1>3 DEF Event, RowOf
<1>7. Listed(es, n)
  BY <1>3 DEF Listed
<1> HIDE DEF u, es
<1>8. /\ DOMAIN u["knowledge"] = DOMAIN st["knowledge"]
      /\ \A i \in Range(l) : u["knowledge"][i] = rows[i]
      /\ \A i \in DOMAIN st["knowledge"] \ Range(l) : u["knowledge"][i] = st["knowledge"][i]
  BY <1>4, <1>5 DEF With
<1>9. IsStore(u)
  BY <1>1, <1>5, <1>8 DEF IsStore, Numbered
<1>10. /\ IsStore(t) /\ t.events = st.events \o es /\ t.ids = st.ids
      /\ \A x \in Tables : t[x] = u[x]
  <2>1. /\ IsStore(t) /\ t.events = u.events \o es /\ t.ids = u.ids
        /\ \A x \in Tables : t[x] = u[x]
    BY <1>9, LoggedAllIs
  <2> HIDE DEF t
  <2> QED
    BY <1>5, <2>1
<1> HIDE DEF t
<1>11. \A x \in WithLog \ {"knowledge"} : t[x] = st[x]
  BY <1>5, <1>10, WithLogTables
<1>12. \A x \in WithLog : t.ids[x] >= st.ids[x]
  BY <1>1, <1>10, WithLogTables DEF IsStore
<1>13. t["knowledge"] = u["knowledge"] /\ "knowledge" \in WithLog
  BY <1>1, <1>10 DEF WithLog
<1>14. ASSUME NEW k \in 1..n PROVE TellsOne(st, t, "knowledge", es[k])
  <2>1. l[k] \in DOMAIN st["knowledge"] /\ l[k] \in Range(l)
    BY <1>4
  <2>2. l[k] \in Int /\ l[k] < t.ids["knowledge"]
    BY <1>1, <1>10, <1>13, <2>1 DEF Told, Ascending, IsStore, Numbered
  <2>3. l[k] \in DOMAIN t["knowledge"] /\ t["knowledge"][l[k]] = rows[l[k]]
    BY <1>8, <1>13, <2>1
  <2> QED
    BY <1>6, <2>1, <2>2, <2>3 DEF TellsOne
<1>15. ASSUME NEW i \in DOMAIN t["knowledge"]
       PROVE  \/ \E k \in 1..n : es[k].id = i
              \/ i \in DOMAIN st["knowledge"] /\ t["knowledge"][i] = st["knowledge"][i]
  BY <1>4, <1>6, <1>8, <1>13
<1>16. \A j, k \in 1..n : es[j].id = es[k].id => j = k
  BY <1>6
<1>17. DOMAIN t["knowledge"] = DOMAIN st["knowledge"]
  BY <1>8, <1>13
<1>18. Tells(st, t, "knowledge", es, n)
  BY <1>14, <1>15, <1>16, <1>17 DEF Tells
<1>19. \A k \in 1..n : es[k].kind = "knowledge"
  BY <1>6
<1>20. Told(t)
  BY <1>7, <1>10, <1>11, <1>12, <1>18, <1>19, ToldOn
<1> QED
  BY <1>2, <1>20

-----------------------------------------------------------------------------
(* Each call, in each adapter. *)

LEMMA InsertTurnTold ==
    ASSUME NEW st, Told(st), NEW in, NEW t
    PROVE  /\ Told(S!InsertTurn(st, in, t))
           /\ Told(M!InsertTurn(st, in, t))
           /\ Told(P!InsertTurn(st, in, t))
<1>1. Told(S!InsertTurn(st, in, t))
  BY CreatedTold, TableNames, SqliteKernel DEF S!InsertTurn
<1>2. Told(M!InsertTurn(st, in, t))
  BY CreatedTold, TableNames, MemoryKernel DEF M!InsertTurn
<1>3. Told(P!InsertTurn(st, in, t))
  BY CreatedTold, TableNames, PostgresKernel DEF P!InsertTurn
<1> QED
  BY <1>1, <1>2, <1>3

LEMMA ArchiveTurnTold ==
    ASSUME NEW st, Told(st), NEW id, NEW t, NEW log
    PROVE  /\ Told(S!ArchiveTurn(st, id, t, log))
           /\ Told(M!ArchiveTurn(st, id, t, log))
           /\ Told(P!ArchiveTurn(st, id, t, log))
<1>1. Told(S!ArchiveTurn(st, id, t, log))
  BY EditedTold, TableNames, SqliteKernel DEF S!ArchiveTurn, Exists
<1>2. Told(M!ArchiveTurn(st, id, t, log))
  BY EditedTold, TableNames, MemoryKernel DEF M!ArchiveTurn, Exists
<1>3. Told(P!ArchiveTurn(st, id, t, log))
  BY EditedTold, TableNames, PostgresKernel DEF P!ArchiveTurn, Exists
<1> QED
  BY <1>1, <1>2, <1>3

LEMMA InsertWorkingMemoryTold ==
    ASSUME NEW st, Told(st), NEW in, NEW t
    PROVE  /\ Told(S!InsertWorkingMemory(st, in, t))
           /\ Told(M!InsertWorkingMemory(st, in, t))
           /\ Told(P!InsertWorkingMemory(st, in, t))
<1>1. Told(S!InsertWorkingMemory(st, in, t))
  BY CreatedTold, TableNames, SqliteKernel DEF S!InsertWorkingMemory
<1>2. Told(M!InsertWorkingMemory(st, in, t))
  BY CreatedTold, TableNames, MemoryKernel DEF M!InsertWorkingMemory
<1>3. Told(P!InsertWorkingMemory(st, in, t))
  BY CreatedTold, TableNames, PostgresKernel DEF P!InsertWorkingMemory
<1> QED
  BY <1>1, <1>2, <1>3

LEMMA ExpireWorkingMemoryTold ==
    ASSUME NEW st, Told(st), NEW id, NEW t
    PROVE  /\ Told(S!ExpireWorkingMemory(st, id, t))
           /\ Told(M!ExpireWorkingMemory(st, id, t))
           /\ Told(P!ExpireWorkingMemory(st, id, t))
<1>1. Told(S!ExpireWorkingMemory(st, id, t))
  BY EditedTold, TableNames, SqliteKernel DEF S!ExpireWorkingMemory, Exists
<1>2. Told(M!ExpireWorkingMemory(st, id, t))
  BY EditedTold, TableNames, MemoryKernel DEF M!ExpireWorkingMemory, Exists
<1>3. Told(P!ExpireWorkingMemory(st, id, t))
  BY EditedTold, TableNames, PostgresKernel DEF P!ExpireWorkingMemory, Exists
<1> QED
  BY <1>1, <1>2, <1>3

LEMMA MarkWorkingMemoryPromotedTold ==
    ASSUME NEW st, Told(st), NEW id, NEW k, NEW t
    PROVE  /\ Told(S!MarkWorkingMemoryPromoted(st, id, k, t))
           /\ Told(M!MarkWorkingMemoryPromoted(st, id, k, t))
           /\ Told(P!MarkWorkingMemoryPromoted(st, id, k, t))
<1>1. Told(S!MarkWorkingMemoryPromoted(st, id, k, t))
  BY EditedTold, TableNames, SqliteKernel DEF S!MarkWorkingMemoryPromoted, Exists
<1>2. Told(M!MarkWorkingMemoryPromoted(st, id, k, t))
  BY EditedTold, TableNames, MemoryKernel DEF M!MarkWorkingMemoryPromoted, Exists
<1>3. Told(P!MarkWorkingMemoryPromoted(st, id, k, t))
  BY EditedTold, TableNames, PostgresKernel DEF P!MarkWorkingMemoryPromoted, Exists
<1> QED
  BY <1>1, <1>2, <1>3

LEMMA InsertKnowledgeMemoryTold ==
    ASSUME NEW st, Told(st), NEW in, NEW t
    PROVE  /\ Told(S!InsertKnowledgeMemory(st, in, t))
           /\ Told(M!InsertKnowledgeMemory(st, in, t))
           /\ Told(P!InsertKnowledgeMemory(st, in, t))
<1>1. Told(S!InsertKnowledgeMemory(st, in, t))
  BY CreatedTold, TableNames, SqliteKernel DEF S!InsertKnowledgeMemory
<1>2. Told(M!InsertKnowledgeMemory(st, in, t))
  BY CreatedTold, TableNames, MemoryKernel DEF M!InsertKnowledgeMemory
<1>3. Told(P!InsertKnowledgeMemory(st, in, t))
  BY CreatedTold, TableNames, PostgresKernel DEF P!InsertKnowledgeMemory
<1> QED
  BY <1>1, <1>2, <1>3

LEMMA UpdateKnowledgeMemoryTold ==
    ASSUME NEW st, Told(st), NEW id, NEW patch, NEW t
    PROVE  /\ Told(S!UpdateKnowledgeMemory(st, id, patch, t))
           /\ Told(M!UpdateKnowledgeMemory(st, id, patch, t))
           /\ Told(P!UpdateKnowledgeMemory(st, id, patch, t))
<1>1. Told(S!UpdateKnowledgeMemory(st, id, patch, t))
  BY EditedTold, TableNames, SqliteKernel DEF S!UpdateKnowledgeMemory, Exists
<1>2. Told(M!UpdateKnowledgeMemory(st, id, patch, t))
  BY EditedTold, TableNames, MemoryKernel DEF M!UpdateKnowledgeMemory, Exists
<1>3. Told(P!UpdateKnowledgeMemory(st, id, patch, t))
  BY EditedTold, TableNames, PostgresKernel DEF P!UpdateKnowledgeMemory, Exists
<1> QED
  BY <1>1, <1>2, <1>3

LEMMA TouchKnowledgeMemoryTold ==
    ASSUME NEW st, Told(st), NEW id, NEW t
    PROVE  /\ Told(S!TouchKnowledgeMemory(st, id, t))
           /\ Told(M!TouchKnowledgeMemory(st, id, t))
           /\ Told(P!TouchKnowledgeMemory(st, id, t))
<1>1. Told(S!TouchKnowledgeMemory(st, id, t))
  BY EditedTold, TableNames, SqliteKernel DEF S!TouchKnowledgeMemory, Exists
<1>2. Told(M!TouchKnowledgeMemory(st, id, t))
  BY EditedTold, TableNames, MemoryKernel DEF M!TouchKnowledgeMemory, Exists
<1>3. Told(P!TouchKnowledgeMemory(st, id, t))
  BY EditedTold, TableNames, PostgresKernel DEF P!TouchKnowledgeMemory, Exists
<1> QED
  BY <1>1, <1>2, <1>3

LEMMA RetireKnowledgeMemoryTold ==
    ASSUME NEW st, Told(st), NEW id, NEW t
    PROVE  /\ Told(S!RetireKnowledgeMemory(st, id, t))
           /\ Told(M!RetireKnowledgeMemory(st, id, t))
           /\ Told(P!RetireKnowledgeMemory(st, id, t))
<1>1. Told(S!RetireKnowledgeMemory(st, id, t))
  BY EditedTold, TableNames, SqliteKernel DEF S!RetireKnowledgeMemory, Exists
<1>2. Told(M!RetireKnowledgeMemory(st, id, t))
  BY EditedTold, TableNames, MemoryKernel DEF M!RetireKnowledgeMemory, Exists
<1>3. Told(P!RetireKnowledgeMemory(st, id, t))
  BY EditedTold, TableNames, PostgresKernel DEF P!RetireKnowledgeMemory, Exists
<1> QED
  BY <1>1, <1>2, <1>3

LEMMA SupersedeKnowledgeMemoryTold ==
    ASSUME NEW st, Told(st), NEW old, NEW new, NEW t
    PROVE  /\ Told(S!SupersedeKnowledgeMemory(st, old, new, t))
           /\ Told(M!SupersedeKnowledgeMemory(st, old, new, t))
           /\ Told(P!SupersedeKnowledgeMemory(st, old, new, t))
<1>1. Told(S!SupersedeKnowledgeMemory(st, old, new, t))
  BY EditedTold, TableNames, SqliteKernel DEF S!SupersedeKnowledgeMemory, Exists
<1>2. Told(M!SupersedeKnowledgeMemory(st, old, new, t))
  BY EditedTold, TableNames, MemoryKernel DEF M!SupersedeKnowledgeMemory, Exists
<1>3. Told(P!SupersedeKnowledgeMemory(st, old, new, t))
  BY EditedTold, TableNames, PostgresKernel DEF P!SupersedeKnowledgeMemory, Exists
<1> QED
  BY <1>1, <1>2, <1>3

LEMMA InsertKnowledgeCandidateTold ==
    ASSUME NEW st, Told(st), NEW in, NEW t
    PROVE  /\ Told(S!InsertKnowledgeCandidate(st, in, t))
           /\ Told(M!InsertKnowledgeCandidate(st, in, t))
           /\ Told(P!InsertKnowledgeCandidate(st, in, t))
<1>1. Told(S!InsertKnowledgeCandidate(st, in, t))
  BY CreatedTold, TableNames, SqliteKernel DEF S!InsertKnowledgeCandidate
<1>2. Told(M!InsertKnowledgeCandidate(st, in, t))
  BY CreatedTold, TableNames, MemoryKernel DEF M!InsertKnowledgeCandidate
<1>3. Told(P!InsertKnowledgeCandidate(st, in, t))
  BY CreatedTold, TableNames, PostgresKernel DEF P!InsertKnowledgeCandidate
<1> QED
  BY <1>1, <1>2, <1>3

LEMMA InsertKnowledgeEvidenceTold ==
    ASSUME NEW st, Told(st), NEW in, NEW t
    PROVE  /\ Told(S!InsertKnowledgeEvidence(st, in, t))
           /\ Told(M!InsertKnowledgeEvidence(st, in, t))
           /\ Told(P!InsertKnowledgeEvidence(st, in, t))
<1>1. Told(S!InsertKnowledgeEvidence(st, in, t))
  BY AddedTold, TableNames, SqliteKernel DEF S!InsertKnowledgeEvidence, WithLog
<1>2. Told(M!InsertKnowledgeEvidence(st, in, t))
  BY AddedTold, TableNames, MemoryKernel DEF M!InsertKnowledgeEvidence, WithLog
<1>3. Told(P!InsertKnowledgeEvidence(st, in, t))
  BY AddedTold, TableNames, PostgresKernel DEF P!InsertKnowledgeEvidence, WithLog
<1> QED
  BY <1>1, <1>2, <1>3

LEMMA InsertKnowledgeMemoryAuditTold ==
    ASSUME NEW st, Told(st), NEW in, NEW t
    PROVE  /\ Told(S!InsertKnowledgeMemoryAudit(st, in, t))
           /\ Told(M!InsertKnowledgeMemoryAudit(st, in, t))
           /\ Told(P!InsertKnowledgeMemoryAudit(st, in, t))
<1>1. Told(S!InsertKnowledgeMemoryAudit(st, in, t))
  BY AddedTold, TableNames, SqliteKernel DEF S!InsertKnowledgeMemoryAudit, WithLog
<1>2. Told(M!InsertKnowledgeMemoryAudit(st, in, t))
  BY AddedTold, TableNames, MemoryKernel DEF M!InsertKnowledgeMemoryAudit, WithLog
<1>3. Told(P!InsertKnowledgeMemoryAudit(st, in, t))
  BY AddedTold, TableNames, PostgresKernel DEF P!InsertKnowledgeMemoryAudit, WithLog
<1> QED
  BY <1>1, <1>2, <1>3

LEMMA InsertCompactionLogTold ==
    ASSUME NEW st, Told(st), NEW in, NEW t
    PROVE  /\ Told(S!InsertCompactionLog(st, in, t))
           /\ Told(M!InsertCompactionLog(st, in, t))
           /\ Told(P!InsertCompactionLog(st, in, t))
<1>1. Told(S!InsertCompactionLog(st, in, t))
  BY AddedTold, TableNames, SqliteKernel DEF S!InsertCompactionLog, WithLog
<1>2. Told(M!InsertCompactionLog(st, in, t))
  BY AddedTold, TableNames, MemoryKernel DEF M!InsertCompactionLog, WithLog
<1>3. Told(P!InsertCompactionLog(st, in, t))
  BY AddedTold, TableNames, PostgresKernel DEF P!InsertCompactionLog, WithLog
<1> QED
  BY <1>1, <1>2, <1>3

LEMMA InsertWorkItemTold ==
    ASSUME NEW st, Told(st), NEW in, NEW t
    PROVE  /\ Told(S!InsertWorkItem(st, in, t))
           /\ Told(M!InsertWorkItem(st, in, t))
           /\ Told(P!InsertWorkItem(st, in, t))
<1>1. Told(S!InsertWorkItem(st, in, t))
  BY CreatedTold, TableNames, SqliteKernel DEF S!InsertWorkItem
<1>2. Told(M!InsertWorkItem(st, in, t))
  BY CreatedTold, TableNames, MemoryKernel DEF M!InsertWorkItem
<1>3. Told(P!InsertWorkItem(st, in, t))
  BY CreatedTold, TableNames, PostgresKernel DEF P!InsertWorkItem
<1> QED
  BY <1>1, <1>2, <1>3

LEMMA UpdateWorkItemStatusTold ==
    ASSUME NEW st, Told(st), NEW id, NEW status, NEW t
    PROVE  /\ Told(S!UpdateWorkItemStatus(st, id, status, t))
           /\ Told(M!UpdateWorkItemStatus(st, id, status, t))
           /\ Told(P!UpdateWorkItemStatus(st, id, status, t))
<1>1. Told(S!UpdateWorkItemStatus(st, id, status, t))
  BY EditedTold, TableNames, SqliteKernel DEF S!UpdateWorkItemStatus, Exists
<1>2. Told(M!UpdateWorkItemStatus(st, id, status, t))
  BY EditedTold, TableNames, MemoryKernel DEF M!UpdateWorkItemStatus, Exists
<1>3. Told(P!UpdateWorkItemStatus(st, id, status, t))
  BY EditedTold, TableNames, PostgresKernel DEF P!UpdateWorkItemStatus, Exists
<1> QED
  BY <1>1, <1>2, <1>3

LEMMA UpdateWorkItemTold ==
    ASSUME NEW st, Told(st), NEW id, NEW patch, NEW v, NEW t
    PROVE  /\ Told(S!UpdateWorkItem(st, id, patch, v, t))
           /\ Told(M!UpdateWorkItem(st, id, patch, v, t))
           /\ Told(P!UpdateWorkItem(st, id, patch, v, t))
<1>1. Told(S!UpdateWorkItem(st, id, patch, v, t))
  BY EditedTold, TableNames, SqliteKernel DEF S!UpdateWorkItem, Exists
<1>2. Told(M!UpdateWorkItem(st, id, patch, v, t))
  BY EditedTold, TableNames, MemoryKernel DEF M!UpdateWorkItem, Exists
<1>3. Told(P!UpdateWorkItem(st, id, patch, v, t))
  BY EditedTold, TableNames, PostgresKernel DEF P!UpdateWorkItem, Exists
<1> QED
  BY <1>1, <1>2, <1>3

LEMMA DeleteWorkItemTold ==
    ASSUME NEW st, Told(st), NEW id, NEW t
    PROVE  /\ Told(S!DeleteWorkItem(st, id, t))
           /\ Told(M!DeleteWorkItem(st, id, t))
           /\ Told(P!DeleteWorkItem(st, id, t))
<1>1. Told(S!DeleteWorkItem(st, id, t))
  BY DeletedTold, TableNames, SqliteKernel DEF S!DeleteWorkItem, Exists
<1>2. Told(M!DeleteWorkItem(st, id, t))
  BY DeletedTold, TableNames, MemoryKernel DEF M!DeleteWorkItem, Exists
<1>3. Told(P!DeleteWorkItem(st, id, t))
  BY DeletedTold, TableNames, PostgresKernel DEF P!DeleteWorkItem, Exists
<1> QED
  BY <1>1, <1>2, <1>3

LEMMA DeleteAssociationTold ==
    ASSUME NEW st, Told(st), NEW id, NEW t
    PROVE  /\ Told(S!DeleteAssociation(st, id, t))
           /\ Told(M!DeleteAssociation(st, id, t))
           /\ Told(P!DeleteAssociation(st, id, t))
<1>1. Told(S!DeleteAssociation(st, id, t))
  BY DeletedTold, TableNames, SqliteKernel DEF S!DeleteAssociation, Exists
<1>2. Told(M!DeleteAssociation(st, id, t))
  BY DeletedTold, TableNames, MemoryKernel DEF M!DeleteAssociation, Exists
<1>3. Told(P!DeleteAssociation(st, id, t))
  BY DeletedTold, TableNames, PostgresKernel DEF P!DeleteAssociation, Exists
<1> QED
  BY <1>1, <1>2, <1>3

LEMMA UpsertContextMonitorTold ==
    ASSUME NEW st, Told(st), NEW in, NEW t
    PROVE  /\ Told(S!UpsertContextMonitor(st, in, t))
           /\ Told(M!UpsertContextMonitor(st, in, t))
           /\ Told(P!UpsertContextMonitor(st, in, t))
<1>1. Told(S!UpsertContextMonitor(st, in, t))
  BY PutTold, TableNames, SqliteKernel DEF S!UpsertContextMonitor, WithLog
<1>2. Told(M!UpsertContextMonitor(st, in, t))
  BY PutTold, TableNames, MemoryKernel DEF M!UpsertContextMonitor, WithLog
<1>3. Told(P!UpsertContextMonitor(st, in, t))
  BY PutTold, TableNames, PostgresKernel DEF P!UpsertContextMonitor, WithLog
<1> QED
  BY <1>1, <1>2, <1>3

LEMMA InsertPlaybookTold ==
    ASSUME NEW st, Told(st), NEW in, NEW t
    PROVE  /\ Told(S!InsertPlaybook(st, in, t))
           /\ Told(M!InsertPlaybook(st, in, t))
           /\ Told(P!InsertPlaybook(st, in, t))
<1>1. Told(S!InsertPlaybook(st, in, t))
  BY CreatedTold, TableNames, SqliteKernel DEF S!InsertPlaybook
<1>2. Told(M!InsertPlaybook(st, in, t))
  BY CreatedTold, TableNames, MemoryKernel DEF M!InsertPlaybook
<1>3. Told(P!InsertPlaybook(st, in, t))
  BY CreatedTold, TableNames, PostgresKernel DEF P!InsertPlaybook
<1> QED
  BY <1>1, <1>2, <1>3

LEMMA UpdatePlaybookTold ==
    ASSUME NEW st, Told(st), NEW id, NEW patch, NEW t
    PROVE  /\ Told(S!UpdatePlaybook(st, id, patch, t))
           /\ Told(M!UpdatePlaybook(st, id, patch, t))
           /\ Told(P!UpdatePlaybook(st, id, patch, t))
<1>1. Told(S!UpdatePlaybook(st, id, patch, t))
  BY EditedTold, TableNames, SqliteKernel DEF S!UpdatePlaybook, Exists
<1>2. Told(M!UpdatePlaybook(st, id, patch, t))
  BY EditedTold, TableNames, MemoryKernel DEF M!UpdatePlaybook, Exists
<1>3. Told(P!UpdatePlaybook(st, id, patch, t))
  BY EditedTold, TableNames, PostgresKernel DEF P!UpdatePlaybook, Exists
<1> QED
  BY <1>1, <1>2, <1>3

LEMMA RecordPlaybookUseTold ==
    ASSUME NEW st, Told(st), NEW id, NEW t
    PROVE  /\ Told(S!RecordPlaybookUse(st, id, t))
           /\ Told(M!RecordPlaybookUse(st, id, t))
           /\ Told(P!RecordPlaybookUse(st, id, t))
<1>1. Told(S!RecordPlaybookUse(st, id, t))
  BY EditedTold, TableNames, SqliteKernel DEF S!RecordPlaybookUse, Exists
<1>2. Told(M!RecordPlaybookUse(st, id, t))
  BY EditedTold, TableNames, MemoryKernel DEF M!RecordPlaybookUse, Exists
<1>3. Told(P!RecordPlaybookUse(st, id, t))
  BY EditedTold, TableNames, PostgresKernel DEF P!RecordPlaybookUse, Exists
<1> QED
  BY <1>1, <1>2, <1>3

LEMMA InsertSourceDocumentTold ==
    ASSUME NEW st, Told(st), NEW in, NEW t
    PROVE  /\ Told(S!InsertSourceDocument(st, in, t))
           /\ Told(M!InsertSourceDocument(st, in, t))
           /\ Told(P!InsertSourceDocument(st, in, t))
<1>1. Told(S!InsertSourceDocument(st, in, t))
  BY CreatedTold, TableNames, SqliteKernel DEF S!InsertSourceDocument
<1>2. Told(M!InsertSourceDocument(st, in, t))
  BY CreatedTold, TableNames, MemoryKernel DEF M!InsertSourceDocument
<1>3. Told(P!InsertSourceDocument(st, in, t))
  BY CreatedTold, TableNames, PostgresKernel DEF P!InsertSourceDocument
<1> QED
  BY <1>1, <1>2, <1>3

LEMMA UpdateSourceDocumentTold ==
    ASSUME NEW st, Told(st), NEW id, NEW patch, NEW t
    PROVE  /\ Told(S!UpdateSourceDocument(st, id, patch, t))
           /\ Told(M!UpdateSourceDocument(st, id, patch, t))
           /\ Told(P!UpdateSourceDocument(st, id, patch, t))
<1>1. Told(S!UpdateSourceDocument(st, id, patch, t))
  BY EditedTold, TableNames, SqliteKernel DEF S!UpdateSourceDocument, Exists
<1>2. Told(M!UpdateSourceDocument(st, id, patch, t))
  BY EditedTold, TableNames, MemoryKernel DEF M!UpdateSourceDocument, Exists
<1>3. Told(P!UpdateSourceDocument(st, id, patch, t))
  BY EditedTold, TableNames, PostgresKernel DEF P!UpdateSourceDocument, Exists
<1> QED
  BY <1>1, <1>2, <1>3

LEMMA SetScopeConfigTold ==
    ASSUME NEW st, Told(st), NEW scope, NEW key, NEW v, NEW t
    PROVE  /\ Told(S!SetScopeConfig(st, scope, key, v, t))
           /\ Told(M!SetScopeConfig(st, scope, key, v, t))
           /\ Told(P!SetScopeConfig(st, scope, key, v, t))
<1>1. Told(S!SetScopeConfig(st, scope, key, v, t))
  BY PutTold, TableNames, SqliteKernel DEF S!SetScopeConfig, WithLog
<1>2. Told(M!SetScopeConfig(st, scope, key, v, t))
  BY PutTold, TableNames, MemoryKernel DEF M!SetScopeConfig, WithLog
<1>3. Told(P!SetScopeConfig(st, scope, key, v, t))
  BY PutTold, TableNames, PostgresKernel DEF P!SetScopeConfig, WithLog
<1> QED
  BY <1>1, <1>2, <1>3

LEMMA GovernTold ==
    ASSUME NEW st, Told(st), NEW scope, NEW part, part \notin WithLog, NEW name, NEW v, NEW after,
           NEW t
    PROVE  /\ Told(S!Govern(st, scope, part, name, v, after, t))
           /\ Told(M!Govern(st, scope, part, name, v, after, t))
           /\ Told(P!Govern(st, scope, part, name, v, after, t))
<1> DEFINE ev == [kind |-> part, id |-> name, type |-> IF v = None THEN "deleted" ELSE "set",
                  own |-> scope, session |-> None, before |-> None, after |-> after, at |-> t]
<1>1. \A ids, r : Told(Put(st, "governance", ids, r))
  BY PutTold, TableNames DEF WithLog
<1>2. ev.kind \notin WithLog
  OBVIOUS
<1> HIDE DEF ev
<1>3. \A ids, r : Told(LoggedAll(Put(st, "governance", ids, r), <<ev>>))
  BY <1>1, <1>2, LoggedTold
<1>4. Told(S!Govern(st, scope, part, name, v, after, t))
  BY <1>3, SqliteKernel DEF S!Govern, ev
<1>5. Told(M!Govern(st, scope, part, name, v, after, t))
  BY <1>3, MemoryKernel DEF M!Govern, ev
<1>6. Told(P!Govern(st, scope, part, name, v, after, t))
  BY <1>3, PostgresKernel DEF P!Govern, ev
<1> QED
  BY <1>4, <1>5, <1>6

LEMMA UpsertDefaultContextContractTold ==
    ASSUME NEW st, Told(st), NEW scope, NEW v, NEW t
    PROVE  /\ Told(S!UpsertDefaultContextContract(st, scope, v, t))
           /\ Told(M!UpsertDefaultContextContract(st, scope, v, t))
           /\ Told(P!UpsertDefaultContextContract(st, scope, v, t))
<1>1. Told(S!UpsertDefaultContextContract(st, scope, v, t))
  BY GovernTold, SqliteKernel DEF S!UpsertDefaultContextContract, WithLog
<1>2. Told(M!UpsertDefaultContextContract(st, scope, v, t))
  BY GovernTold, MemoryKernel DEF M!UpsertDefaultContextContract, WithLog
<1>3. Told(P!UpsertDefaultContextContract(st, scope, v, t))
  BY GovernTold, PostgresKernel DEF P!UpsertDefaultContextContract, WithLog
<1> QED
  BY <1>1, <1>2, <1>3

LEMMA UpsertNamedContextContractTold ==
    ASSUME NEW st, Told(st), NEW scope, NEW name, NEW v, NEW t
    PROVE  /\ Told(S!UpsertNamedContextContract(st, scope, name, v, t))
           /\ Told(M!UpsertNamedContextContract(st, scope, name, v, t))
           /\ Told(P!UpsertNamedContextContract(st, scope, name, v, t))
<1>1. Told(S!UpsertNamedContextContract(st, scope, name, v, t))
  BY GovernTold, SqliteKernel DEF S!UpsertNamedContextContract, WithLog
<1>2. Told(M!UpsertNamedContextContract(st, scope, name, v, t))
  BY GovernTold, MemoryKernel DEF M!UpsertNamedContextContract, WithLog
<1>3. Told(P!UpsertNamedContextContract(st, scope, name, v, t))
  BY GovernTold, PostgresKernel DEF P!UpsertNamedContextContract, WithLog
<1> QED
  BY <1>1, <1>2, <1>3

LEMMA DeleteNamedContextContractTold ==
    ASSUME NEW st, Told(st), NEW scope, NEW name, NEW t
    PROVE  /\ Told(S!DeleteNamedContextContract(st, scope, name, t))
           /\ Told(M!DeleteNamedContextContract(st, scope, name, t))
           /\ Told(P!DeleteNamedContextContract(st, scope, name, t))
<1>1. Told(S!DeleteNamedContextContract(st, scope, name, t))
  BY GovernTold, SqliteKernel DEF S!DeleteNamedContextContract, WithLog
<1>2. Told(M!DeleteNamedContextContract(st, scope, name, t))
  BY GovernTold, MemoryKernel DEF M!DeleteNamedContextContract, WithLog
<1>3. Told(P!DeleteNamedContextContract(st, scope, name, t))
  BY GovernTold, PostgresKernel DEF P!DeleteNamedContextContract, WithLog
<1> QED
  BY <1>1, <1>2, <1>3

LEMMA UpsertContextInvariantTold ==
    ASSUME NEW st, Told(st), NEW scope, NEW id, NEW v, NEW t
    PROVE  /\ Told(S!UpsertContextInvariant(st, scope, id, v, t))
           /\ Told(M!UpsertContextInvariant(st, scope, id, v, t))
           /\ Told(P!UpsertContextInvariant(st, scope, id, v, t))
<1>1. Told(S!UpsertContextInvariant(st, scope, id, v, t))
  BY GovernTold, SqliteKernel DEF S!UpsertContextInvariant, WithLog
<1>2. Told(M!UpsertContextInvariant(st, scope, id, v, t))
  BY GovernTold, MemoryKernel DEF M!UpsertContextInvariant, WithLog
<1>3. Told(P!UpsertContextInvariant(st, scope, id, v, t))
  BY GovernTold, PostgresKernel DEF P!UpsertContextInvariant, WithLog
<1> QED
  BY <1>1, <1>2, <1>3

LEMMA DeleteContextInvariantTold ==
    ASSUME NEW st, Told(st), NEW scope, NEW id, NEW t
    PROVE  /\ Told(S!DeleteContextInvariant(st, scope, id, t))
           /\ Told(M!DeleteContextInvariant(st, scope, id, t))
           /\ Told(P!DeleteContextInvariant(st, scope, id, t))
<1>1. Told(S!DeleteContextInvariant(st, scope, id, t))
  BY GovernTold, SqliteKernel DEF S!DeleteContextInvariant, WithLog
<1>2. Told(M!DeleteContextInvariant(st, scope, id, t))
  BY GovernTold, MemoryKernel DEF M!DeleteContextInvariant, WithLog
<1>3. Told(P!DeleteContextInvariant(st, scope, id, t))
  BY GovernTold, PostgresKernel DEF P!DeleteContextInvariant, WithLog
<1> QED
  BY <1>1, <1>2, <1>3

LEMMA UpsertContextEscalationPolicyTold ==
    ASSUME NEW st, Told(st), NEW scope, NEW v, NEW t
    PROVE  /\ Told(S!UpsertContextEscalationPolicy(st, scope, v, t))
           /\ Told(M!UpsertContextEscalationPolicy(st, scope, v, t))
           /\ Told(P!UpsertContextEscalationPolicy(st, scope, v, t))
<1>1. Told(S!UpsertContextEscalationPolicy(st, scope, v, t))
  BY GovernTold, SqliteKernel DEF S!UpsertContextEscalationPolicy, WithLog
<1>2. Told(M!UpsertContextEscalationPolicy(st, scope, v, t))
  BY GovernTold, MemoryKernel DEF M!UpsertContextEscalationPolicy, WithLog
<1>3. Told(P!UpsertContextEscalationPolicy(st, scope, v, t))
  BY GovernTold, PostgresKernel DEF P!UpsertContextEscalationPolicy, WithLog
<1> QED
  BY <1>1, <1>2, <1>3

LEMMA UpsertSessionStateTold ==
    ASSUME NEW st, Told(st), NEW in
    PROVE  /\ Told(S!UpsertSessionState(st, in))
           /\ Told(M!UpsertSessionState(st, in))
           /\ Told(P!UpsertSessionState(st, in))
<1>1. \A ids, r : Told(Put(st, "sessions", ids, r))
  BY PutTold, TableNames DEF WithLog
<1>2. ASSUME NEW u, Told(u), NEW id, NEW type, NEW before, NEW after, NEW at
      PROVE  Told(Logged(u, "sessions", id, type, before, after, at))
  <2>1. Event("sessions", id, type, before, after, at).kind \notin WithLog
    BY DEF Event, WithLog
  <2> QED
    BY <1>2, <2>1, LoggedTold DEF Logged
<1>3. Told(S!UpsertSessionState(st, in))
  BY <1>1, <1>2, SqliteKernel DEF S!UpsertSessionState
<1>4. Told(M!UpsertSessionState(st, in))
  BY <1>1, <1>2, MemoryKernel DEF M!UpsertSessionState
<1>5. Told(P!UpsertSessionState(st, in))
  BY <1>1, <1>2, PostgresKernel DEF P!UpsertSessionState
<1> QED
  BY <1>3, <1>4, <1>5

LEMMA InsertAssociationTold ==
    ASSUME NEW st, Told(st), NEW in, NEW t
    PROVE  /\ Told(S!InsertAssociation(st, in, t))
           /\ Told(M!InsertAssociation(st, in, t))
           /\ Told(P!InsertAssociation(st, in, t))
<1>1. Told(S!InsertAssociation(st, in, t))
  BY CreatedTold, TableNames, SqliteKernel DEF S!InsertAssociation
<1>2. Told(M!InsertAssociation(st, in, t))
  BY CreatedTold, TableNames, MemoryKernel DEF M!InsertAssociation
<1>3. Told(P!RolledBack(st, "associations", 1))
  BY RolledBackTold, TableNames, 1 \in Nat DEF P!RolledBack
<1>4. Told(P!InsertAssociation(st, in, t))
  BY <1>3, CreatedTold, TableNames, PostgresKernel DEF P!InsertAssociation
<1> QED
  BY <1>1, <1>2, <1>4

LEMMA PromoteKnowledgeCandidateTold ==
    ASSUME NEW st, Told(st), NEW id, NEW in, NEW t
    PROVE  /\ Told(S!PromoteKnowledgeCandidate(st, id, in, t))
           /\ Told(M!PromoteKnowledgeCandidate(st, id, in, t))
           /\ Told(P!PromoteKnowledgeCandidate(st, id, in, t))
<1>1. ASSUME NEW r, Exists(st, "candidates", id)
      PROVE  id \in DOMAIN Created(st, "knowledge", r)["candidates"]
  <2>1. IsStore(st) /\ "candidates" \in Tables \ {"knowledge"} /\ "knowledge" \in Tables
    BY DEF Told, Tables
  <2> QED
    BY <1>1, <2>1, CreatedElsewhere DEF Exists
<1>2. \A r : Told(Created(st, "knowledge", r))
  BY CreatedTold, TableNames
<1>3. ASSUME NEW r, Exists(st, "candidates", id), NEW q
      PROVE  Told(Edited(Created(st, "knowledge", r), "candidates", id, "promoted", q, t))
  BY <1>1, <1>2, <1>3, EditedTold, TableNames
<1>4. Told(S!PromoteKnowledgeCandidate(st, id, in, t))
  BY <1>2, <1>3, SqliteKernel DEF S!PromoteKnowledgeCandidate, S!InsertKnowledgeMemory
<1>5. Told(M!PromoteKnowledgeCandidate(st, id, in, t))
  BY <1>2, <1>3, MemoryKernel DEF M!PromoteKnowledgeCandidate, M!InsertKnowledgeMemory
<1>6. Told(P!PromoteKnowledgeCandidate(st, id, in, t))
  BY <1>2, <1>3, PostgresKernel DEF P!PromoteKnowledgeCandidate, P!InsertKnowledgeMemory
<1> QED
  BY <1>4, <1>5, <1>6

LEMMA DeleteExpiredKnowledgeCandidatesTold ==
    ASSUME NEW st, Told(st), NEW scope, NEW old, NEW t
    PROVE  /\ Told(S!DeleteExpiredKnowledgeCandidates(st, scope, old, t))
           /\ Told(M!DeleteExpiredKnowledgeCandidates(st, scope, old, t))
           /\ Told(P!DeleteExpiredKnowledgeCandidates(st, scope, old, t))
<1> DEFINE gone == {i \in DOMAIN st.candidates : /\ st.candidates[i].own = scope
                      /\ st.candidates[i].promoted = None /\ st.candidates[i].at < old}
           l == ById(gone)
           es == [k \in DOMAIN l |->
                    Event("candidates", l[k], "expired", st.candidates[l[k]], None, t)]
           after == LoggedAll(Removed(st, "candidates", gone), es)
<1>1. gone \in SUBSET Int /\ IsFiniteSet(gone)
  <2>1. Numbered(st.candidates)
    BY TableNames DEF Told, IsStore
  <2>2. gone \in SUBSET DOMAIN st.candidates
    OBVIOUS
  <2> HIDE DEF gone
  <2> QED
    BY <2>1, <2>2, FS_Subset DEF Numbered
<1>2. S!DeleteExpiredKnowledgeCandidates(st, scope, old, t) = after
  BY SqliteKernel, ByIdCopies DEF S!DeleteExpiredKnowledgeCandidates, S!Where
<1>3. M!DeleteExpiredKnowledgeCandidates(st, scope, old, t) = after
  BY MemoryKernel, ByIdCopies DEF M!DeleteExpiredKnowledgeCandidates, M!Where, M!MatchesScope
<1>4. P!DeleteExpiredKnowledgeCandidates(st, scope, old, t) = after
  BY PostgresKernel, ByIdCopies DEF P!DeleteExpiredKnowledgeCandidates, P!Where
<1> HIDE DEF gone
<1>5. PICK n \in Nat : n = Cardinality(gone)
  BY <1>1, BelowPlaces
<1>6. DOMAIN l = 1..n
  BY <1>1, <1>5, ByIdPlaces DEF Listed
<1> HIDE DEF l
<1>7. Listed(es, n) /\ \A k \in 1..n : es[k].kind = "candidates"
  BY <1>6 DEF Listed, Event
<1> HIDE DEF es
<1>8. Told(after)
  <2>1. Told(Removed(st, "candidates", gone)) /\ "candidates" \notin WithLog
    BY RemovedTold, TableNames DEF WithLog
  <2> QED
    BY <1>7, <2>1, LoggedAllTold
<1> QED
  BY <1>2, <1>3, <1>4, <1>8

LEMMA InsertPlaybookRevisionTold ==
    ASSUME NEW st, Told(st), NEW in, NEW t
    PROVE  /\ Told(S!InsertPlaybookRevision(st, in, t))
           /\ Told(M!InsertPlaybookRevision(st, in, t))
           /\ Told(P!InsertPlaybookRevision(st, in, t))
<1> DEFINE at == Given(in.at, t)
           id == in.playbook
           book == [st.playbooks[id] EXCEPT !.revisions = @ + 1, !.updated = at]
           revision == [own |-> book.own, playbook |-> id, session |-> in.session, at |-> at]
           after == IF ~Exists(st, "playbooks", id) THEN st
                    ELSE RevisedPlaybook(st, id, revision, book, at)
<1>1. S!InsertPlaybookRevision(st, in, t) = after
  BY DEF S!InsertPlaybookRevision, RevisedPlaybook, Given, Exists, Added, AddedAll, With, NewId,
         Changed, Logged, LoggedAll, Event,
         S!Given, S!Exists, S!Added, S!AddedAll, S!With, S!NewId, S!Changed, S!Logged, S!LoggedAll,
         S!Event
<1>2. M!InsertPlaybookRevision(st, in, t) = after
  BY DEF M!InsertPlaybookRevision, RevisedPlaybook, Given, Exists, Added, AddedAll, With, NewId,
         Changed, Logged, LoggedAll, Event,
         M!Given, M!Exists, M!Added, M!AddedAll, M!With, M!NewId, M!Changed, M!Logged, M!LoggedAll,
         M!Event
<1>3. P!InsertPlaybookRevision(st, in, t) = after
  BY DEF P!InsertPlaybookRevision, RevisedPlaybook, Given, Exists, Added, AddedAll, With, NewId,
         Changed, Logged, LoggedAll, Event,
         P!Given, P!Exists, P!Added, P!AddedAll, P!With, P!NewId, P!Changed, P!Logged, P!LoggedAll,
         P!Event
<1> HIDE DEF book, revision, at, id
<1>4. ASSUME Exists(st, "playbooks", id) PROVE Told(RevisedPlaybook(st, id, revision, book, at))
  <2> DEFINE u == Added(st, "revisions", revision)
             new == NewId(st, "revisions")
             r == Logged(u, "revisions", new, "revised", None, revision, at)
             b == Logged(Logged(Changed(u, "playbooks", id, book),
                                "revisions", new, "revised", None, revision, at),
                         "playbooks", id, "updated", None, book, at)
             ev == Event("playbooks", id, "updated", None, book, at)
  <2>1. Told(u) /\ "playbooks" \in DOMAIN u
    <3>1. Told(u)
      BY AddedTold, TableNames DEF WithLog
    <3> QED
      BY <3>1, TableNames DEF Told, IsStore
  <2>2. id \in DOMAIN u["playbooks"]
    <3>1. u["playbooks"] = st["playbooks"]
      BY NoTables, TableNames DEF Added, AddedAll, NewId, Told, IsStore
    <3> QED
      BY <1>4, <3>1 DEF Exists
  <2> HIDE DEF u
  <2>3. Event("revisions", new, "revised", None, revision, at).kind \notin WithLog
    BY DEF Event, WithLog
  <2>4. Told(r)
    BY <2>1, <2>3, LoggedTold DEF Logged
  <2>5. IsStore(u)
    BY <2>1 DEF Told
  <2>6. /\ b.events = r.events \o <<ev>> /\ b.ids = r.ids /\ DOMAIN b = DOMAIN r
        /\ \A x \in Tables \ {"playbooks"} : b[x] = r[x]
        /\ b["playbooks"] = [r["playbooks"] EXCEPT ![id] = book]
        /\ r["playbooks"] = u["playbooks"]
    BY <2>5, NoTables, TableNames DEF Logged, LoggedAll, Changed, IsStore
  <2>7. /\ ev.kind = "playbooks" /\ ev.id = id /\ ev.type = "updated" /\ ev.before = None
        /\ ev.after = book /\ ev.own = RowOf(ev).own
    BY DEF Event, RowOf
  <2>8. b = RevisedPlaybook(st, id, revision, book, at)
    BY DEF RevisedPlaybook, u
  <2> HIDE DEF b, r, ev, new
  <2>9. IsStore(r) /\ Ascending(r)
    BY <2>4 DEF Told
  <2>10. IsStore(b)
    BY <2>6, <2>9 DEF IsStore, Numbered
  <2>11. \A x \in WithLog \ {"playbooks"} : b[x] = r[x]
    BY <2>6, WithLogTables
  <2>12. \A x \in WithLog : b.ids[x] >= r.ids[x]
    BY <2>6, <2>9, WithLogTables DEF IsStore
  <2>13. TellsOne(r, b, "playbooks", ev)
    <3>1. id \in DOMAIN r["playbooks"]
      BY <2>2, <2>6
    <3>2. id \in Int
      BY <2>9, <3>1, TableNames DEF IsStore, Numbered
    <3>3. id < r.ids["playbooks"]
      BY <2>9, <3>1 DEF Ascending, WithLog
    <3> QED
      BY <2>6, <2>7, <3>1, <3>2, <3>3 DEF TellsOne
  <2>14. /\ DOMAIN b["playbooks"] = DOMAIN r["playbooks"]
         /\ \A i \in DOMAIN b["playbooks"] \ {id} : b["playbooks"][i] = r["playbooks"][i]
    BY <2>6
  <2>15. Told(b)
    BY <2>4, <2>6, <2>7, <2>10, <2>11, <2>12, <2>13, <2>14, ToldOne
  <2> QED
    BY <2>8, <2>15
<1> QED
  BY <1>1, <1>2, <1>3, <1>4

LEMMA TouchKnowledgeMemoriesTold ==
    ASSUME NEW st, Told(st), NEW id \in Int, NEW t
    PROVE  /\ Told(S!TouchKnowledgeMemories(st, <<id, id + 1>>, t))
           /\ Told(M!TouchKnowledgeMemories(st, <<id, id + 1>>, t))
           /\ Told(P!TouchKnowledgeMemories(st, <<id, id + 1>>, t))
<1> DEFINE ids == <<id, id + 1>>
           found == {i \in {id, id + 1} : i \in DOMAIN st.knowledge}
           after == M!TouchedAll(st, ById(found), t)
<1>1. Range(ids) = {id, id + 1} /\ S!Range(ids) = {id, id + 1} /\ M!Range(ids) = {id, id + 1}
      /\ P!Range(ids) = {id, id + 1}
  BY DEF Range, S!Range, M!Range, P!Range
<1>2. /\ S!GetExistingIds(st, "knowledge", {id, id + 1}) = found
      /\ M!FilterExistingIds(st, "knowledge", {id, id + 1}) = found
      /\ P!GetExistingIds(st, "knowledge", {id, id + 1}) = found
  BY SqliteKernel, MemoryKernel, PostgresKernel
     DEF S!GetExistingIds, M!FilterExistingIds, P!GetExistingIds, Exists
<1>3. found \in SUBSET {id, id + 1} /\ found \in SUBSET DOMAIN st["knowledge"]
  OBVIOUS
<1>4. ASSUME NEW l
      PROVE  /\ S!TouchedAll(st, l, t) = M!TouchedAll(st, l, t)
             /\ P!TouchedAll(st, l, t) = M!TouchedAll(st, l, t)
  BY SqliteKernel, MemoryKernel, PostgresKernel
     DEF S!TouchedAll, M!TouchedAll, P!TouchedAll, S!Touched, M!Touched, P!Touched,
         S!Range, M!Range, P!Range
<1> HIDE DEF found
<1>5. S!TouchKnowledgeMemories(st, ids, t) = after
  BY <1>1, <1>2, <1>4, ByIdCopies DEF S!TouchKnowledgeMemories
<1>6. P!TouchKnowledgeMemories(st, ids, t) = after
  BY <1>1, <1>2, <1>4, ByIdCopies DEF P!TouchKnowledgeMemories
<1>7. M!TouchKnowledgeMemories(st, ids, t) = after
  BY <1>1, <1>2, <1>3, TouchOrder DEF M!TouchKnowledgeMemories
<1>8. found \in SUBSET Int /\ IsFiniteSet(found)
  <2>1. {id, id + 1} = id .. id + 1 /\ id + 1 \in Int
    OBVIOUS
  <2>2. IsFiniteSet(id .. id + 1)
    BY <2>1, FS_Interval
  <2> QED
    BY <1>3, <2>1, <2>2, FS_Subset
<1>9. PICK n \in Nat : n = Cardinality(found)
  BY <1>8, BelowPlaces
<1> DEFINE l == ById(found)
<1>10. Listed(l, n) /\ \A k \in 1..n : l[k] \in found /\ Cardinality(Below(found, l[k])) = k - 1
  BY <1>8, <1>9, ByIdPlaces
<1>11. after = M!TouchedAll(st, l, t)
  OBVIOUS
<1> HIDE DEF l, after
<1>12. \A j, k \in 1..n : l[j] = l[k] => j = k
  <2> SUFFICES ASSUME NEW j \in 1..n, NEW k \in 1..n, l[j] = l[k] PROVE j = k
    OBVIOUS
  <2>1. j - 1 = k - 1
    BY <1>10
  <2> QED
    BY <2>1
<1>13. Told(M!TouchedAll(st, l, t))
  BY <1>3, <1>10, <1>12, TouchedAllTold
<1> QED
  BY <1>5, <1>6, <1>7, <1>13, <1>11

LEMMA InsertTurnsTold ==
    ASSUME NEW st, Told(st), NEW x, NEW y, NEW t
    PROVE  /\ Told(S!InsertTurns(st, <<x, y>>, t))
           /\ Told(M!InsertTurns(st, <<x, y>>, t))
           /\ Told(P!InsertTurns(st, <<x, y>>, t))
<1> DEFINE batch == <<x, y>>
<1>1. DOMAIN batch = 1..2 /\ 2 \in Nat /\ \A k \in 1..2 : batch[k] \in {x, y}
  OBVIOUS
<1>2. /\ Listed(S!NewTurns(batch, t), 2) /\ Listed(M!NewTurns(batch, t), 2)
      /\ Listed(P!NewTurns(batch, t), 2)
  BY <1>1 DEF Listed, S!NewTurns, M!NewTurns, P!NewTurns
<1>3. Len(BeforeFailure(batch)) \in Nat
  BY BeforeFailureLen
<1> HIDE DEF batch
<1>4. Told(P!RolledBack(st, "turns", Len(BeforeFailure(batch))))
  BY <1>3, RolledBackTold, TableNames DEF P!RolledBack
<1>5. Told(S!InsertTurns(st, batch, t))
  BY <1>1, <1>2, CreatedAllTold, TableNames, SqliteKernel DEF S!InsertTurns
<1>6. Told(M!InsertTurns(st, batch, t))
  BY <1>1, <1>2, CreatedAllTold, TableNames, MemoryKernel DEF M!InsertTurns
<1>7. Told(P!InsertTurns(st, batch, t))
  BY <1>1, <1>2, CreatedAllTold, <1>4, TableNames, PostgresKernel DEF P!InsertTurns
<1> QED
  BY <1>5, <1>6, <1>7 DEF batch

LEMMA InsertKnowledgeMemoriesTold ==
    ASSUME NEW st, Told(st), NEW x, NEW y, NEW t
    PROVE  /\ Told(S!InsertKnowledgeMemories(st, <<x, y>>, t))
           /\ Told(M!InsertKnowledgeMemories(st, <<x, y>>, t))
           /\ Told(P!InsertKnowledgeMemories(st, <<x, y>>, t))
<1> DEFINE batch == <<x, y>>
<1>1. DOMAIN batch = 1..2 /\ 2 \in Nat /\ \A k \in 1..2 : batch[k] \in {x, y}
  OBVIOUS
<1>2. /\ Listed(S!NewKnowledges(batch, t), 2) /\ Listed(M!NewKnowledges(batch, t), 2)
      /\ Listed(P!NewKnowledges(batch, t), 2)
  BY <1>1 DEF Listed, S!NewKnowledges, M!NewKnowledges, P!NewKnowledges
<1>3. Len(BeforeFailure(batch)) \in Nat
  BY BeforeFailureLen
<1> HIDE DEF batch
<1>4. Told(P!RolledBack(st, "knowledge", Len(BeforeFailure(batch))))
  BY <1>3, RolledBackTold, TableNames DEF P!RolledBack
<1>5. Told(S!InsertKnowledgeMemories(st, batch, t))
  BY <1>1, <1>2, CreatedAllTold, TableNames, SqliteKernel DEF S!InsertKnowledgeMemories
<1>6. Told(M!InsertKnowledgeMemories(st, batch, t))
  BY <1>1, <1>2, CreatedAllTold, TableNames, MemoryKernel DEF M!InsertKnowledgeMemories
<1>7. Told(P!InsertKnowledgeMemories(st, batch, t))
  BY <1>1, <1>2, CreatedAllTold, <1>4, TableNames, PostgresKernel DEF P!InsertKnowledgeMemories
<1> QED
  BY <1>5, <1>6, <1>7 DEF batch

LEMMA InsertKnowledgeCandidatesTold ==
    ASSUME NEW st, Told(st), NEW x, NEW y, NEW t, x.valid, y.valid
    PROVE  /\ Told(S!InsertKnowledgeCandidates(st, <<x, y>>, t))
           /\ Told(M!InsertKnowledgeCandidates(st, <<x, y>>, t))
           /\ Told(P!InsertKnowledgeCandidates(st, <<x, y>>, t))
<1> DEFINE batch == <<x, y>>
<1>1. DOMAIN batch = 1..2 /\ 2 \in Nat /\ \A k \in 1..2 : batch[k] \in {x, y}
  OBVIOUS
<1>2. /\ Listed(S!NewCandidates(batch, t), 2) /\ Listed(M!NewCandidates(batch, t), 2)
      /\ Listed(P!NewCandidates(batch, t), 2)
  BY <1>1 DEF Listed, S!NewCandidates, M!NewCandidates, P!NewCandidates
<1>3. Len(BeforeFailure(batch)) \in Nat
  BY BeforeFailureLen
<1>4. AllValid(batch) /\ BeforeFailure(batch) = batch
  BY <1>1 DEF AllValid, BeforeFailure
<1> HIDE DEF batch
<1>5. Told(P!RolledBack(st, "candidates", Len(BeforeFailure(batch))))
  BY <1>3, RolledBackTold, TableNames DEF P!RolledBack
<1>6. Told(S!InsertKnowledgeCandidates(st, batch, t))
  BY <1>1, <1>2, CreatedAllTold, <1>4, TableNames, SqliteKernel DEF S!InsertKnowledgeCandidates
<1>7. Told(M!InsertKnowledgeCandidates(st, batch, t))
  BY <1>1, <1>2, CreatedAllTold, <1>4, TableNames, MemoryKernel DEF M!InsertKnowledgeCandidates
<1>8. Told(P!InsertKnowledgeCandidates(st, batch, t))
  BY <1>1, <1>2, CreatedAllTold, <1>4, <1>5, TableNames, PostgresKernel
     DEF P!InsertKnowledgeCandidates
<1> QED
  BY <1>6, <1>7, <1>8 DEF batch

LEMMA InsertKnowledgeEvidenceBatchTold ==
    ASSUME NEW st, Told(st), NEW x, NEW y, NEW t, x.valid, y.valid
    PROVE  /\ Told(S!InsertKnowledgeEvidenceBatch(st, <<x, y>>, t))
           /\ Told(M!InsertKnowledgeEvidenceBatch(st, <<x, y>>, t))
           /\ Told(P!InsertKnowledgeEvidenceBatch(st, <<x, y>>, t))
<1> DEFINE batch == <<x, y>>
<1>1. DOMAIN batch = 1..2 /\ 2 \in Nat /\ \A k \in 1..2 : batch[k] \in {x, y}
  OBVIOUS
<1>2. /\ Listed(S!NewEvidences(batch, t), 2) /\ Listed(M!NewEvidences(batch, t), 2)
      /\ Listed(P!NewEvidences(batch, t), 2)
  BY <1>1 DEF Listed, S!NewEvidences, M!NewEvidences, P!NewEvidences
<1>3. /\ Len(S!NewEvidences(batch, t)) = 2 /\ Len(M!NewEvidences(batch, t)) = 2
      /\ Len(P!NewEvidences(batch, t)) = 2
  BY <1>1, <1>2, ListedLen
<1>4. Len(BeforeFailure(batch)) \in Nat
  BY BeforeFailureLen
<1>5. AllValid(batch) /\ BeforeFailure(batch) = batch
  BY <1>1 DEF AllValid, BeforeFailure
<1> HIDE DEF batch
<1>6. Told(P!RolledBack(st, "evidence", Len(BeforeFailure(batch))))
  BY <1>4, RolledBackTold, TableNames DEF P!RolledBack
<1>7. Told(S!InsertKnowledgeEvidenceBatch(st, batch, t))
  BY <1>1, <1>3, AddedAllTold, <1>5, TableNames, SqliteKernel
     DEF S!InsertKnowledgeEvidenceBatch, WithLog
<1>8. Told(M!InsertKnowledgeEvidenceBatch(st, batch, t))
  BY <1>1, <1>3, AddedAllTold, <1>5, TableNames, MemoryKernel
     DEF M!InsertKnowledgeEvidenceBatch, WithLog
<1>9. Told(P!InsertKnowledgeEvidenceBatch(st, batch, t))
  BY <1>1, <1>3, AddedAllTold, <1>5, <1>6, TableNames, PostgresKernel
     DEF P!InsertKnowledgeEvidenceBatch, WithLog
<1> QED
  BY <1>7, <1>8, <1>9 DEF batch

-----------------------------------------------------------------------------
(* Every call, and every behaviour. *)

AllTold == Told(sqlite) /\ Told(memory) /\ Told(postgres)

LEMMA InitTold ==
    ASSUME Init
    PROVE  AllTold
<1> DEFINE e == EmptyStore
<1>1. /\ DOMAIN e = Tables \cup {"events", "ids"}
      /\ \A tab \in Tables : e[tab] = <<>>
      /\ e.events = <<>> /\ e.ids = [t \in Tables |-> 1]
  BY NoTables DEF EmptyStore
<1> HIDE DEF e
<1>2. DOMAIN <<>> = {} /\ Listed(<<>>, 0) /\ 0 \in Nat
  BY DEF Listed
<1>3. Numbered(<<>>)
  BY <1>2, FS_EmptySet DEF Numbered
<1>4. IsStore(e)
  BY <1>1, <1>3 DEF IsStore
<1>5. DOMAIN e.events = {} /\ \A x \in WithLog : DOMAIN e[x] = {}
  BY <1>1, <1>2, WithLogTables
<1>6. LogTells(e)
  BY <1>5 DEF LogTells, Shown, Gone, Linked, CreatedOnce, Owned
<1>7. Ascending(e)
  BY <1>5 DEF Ascending
<1>8. Told(e)
  BY <1>1, <1>2, <1>4, <1>6, <1>7 DEF Told
<1> QED
  BY <1>8 DEF Init, AllTold, e

LEMMA TurnsTold ==
    ASSUME AllTold, OnTurns
    PROVE  AllTold'
<1>1. ASSUME NEW in, InsertTurn(in) PROVE AllTold'
  BY <1>1, InsertTurnTold DEF AllTold, InsertTurn, Call
<1>2. ASSUME NEW in, NEW batch \in Batches(in), InsertTurns(batch) PROVE AllTold'
  <2>1. \E x, y : batch = <<x, y>>
    BY <1>2, InputAssumption DEF Batches
  <2> QED
    BY <1>2, <2>1, InsertTurnsTold DEF AllTold, InsertTurns, Call
<1>3. ASSUME NEW id, ArchiveTurn(id) PROVE AllTold'
  BY <1>3, ArchiveTurnTold DEF AllTold, ArchiveTurn, Call
<1> QED
  BY <1>1, <1>2, <1>3 DEF OnTurns

LEMMA WorkingMemoryTold ==
    ASSUME AllTold, OnWorkingMemory
    PROVE  AllTold'
<1>1. ASSUME NEW in, InsertWorkingMemory(in) PROVE AllTold'
  BY <1>1, InsertWorkingMemoryTold DEF AllTold, InsertWorkingMemory, Call
<1>2. ASSUME NEW id, ExpireWorkingMemory(id) PROVE AllTold'
  BY <1>2, ExpireWorkingMemoryTold DEF AllTold, ExpireWorkingMemory, Call
<1>3. ASSUME NEW id, MarkWorkingMemoryPromoted(id, 1) PROVE AllTold'
  BY <1>3, MarkWorkingMemoryPromotedTold DEF AllTold, MarkWorkingMemoryPromoted, Call
<1> QED
  BY <1>1, <1>2, <1>3 DEF OnWorkingMemory

LEMMA KnowledgeTold ==
    ASSUME AllTold, OnKnowledge
    PROVE  AllTold'
<1>1. ASSUME NEW in, InsertKnowledgeMemory(in) PROVE AllTold'
  BY <1>1, InsertKnowledgeMemoryTold DEF AllTold, InsertKnowledgeMemory, Call
<1>2. ASSUME NEW in, NEW batch \in Batches(in), InsertKnowledgeMemories(batch) PROVE AllTold'
  <2>1. \E x, y : batch = <<x, y>>
    BY <1>2, InputAssumption DEF Batches
  <2> QED
    BY <1>2, <2>1, InsertKnowledgeMemoriesTold DEF AllTold, InsertKnowledgeMemories, Call
<1>3. ASSUME NEW id, NEW patch, UpdateKnowledgeMemory(id, patch) PROVE AllTold'
  BY <1>3, UpdateKnowledgeMemoryTold DEF AllTold, UpdateKnowledgeMemory, Call
<1>4. ASSUME NEW id, TouchKnowledgeMemory(id) PROVE AllTold'
  BY <1>4, TouchKnowledgeMemoryTold DEF AllTold, TouchKnowledgeMemory, Call
<1>5. ASSUME NEW id \in Ids("knowledge"), TouchKnowledgeMemories(<<id, id + 1>>) PROVE AllTold'
  <2>1. id \in Int
    BY <1>5, InputAssumption DEF Ids, AllTold, Told, IsStore, Tables
  <2> QED
    BY <1>5, <2>1, TouchKnowledgeMemoriesTold DEF AllTold, TouchKnowledgeMemories, Call
<1>6. ASSUME NEW id, RetireKnowledgeMemory(id) PROVE AllTold'
  BY <1>6, RetireKnowledgeMemoryTold DEF AllTold, RetireKnowledgeMemory, Call
<1>7. ASSUME NEW old, NEW new, SupersedeKnowledgeMemory(old, new) PROVE AllTold'
  BY <1>7, SupersedeKnowledgeMemoryTold DEF AllTold, SupersedeKnowledgeMemory, Call
<1> QED
  BY <1>1, <1>2, <1>3, <1>4, <1>5, <1>6, <1>7 DEF OnKnowledge

LEMMA LearningTold ==
    ASSUME AllTold, OnLearning
    PROVE  AllTold'
<1>1. ASSUME NEW in, InsertKnowledgeCandidate(in) PROVE AllTold'
  BY <1>1, InsertKnowledgeCandidateTold DEF AllTold, InsertKnowledgeCandidate, Call
<1>2. ASSUME NEW in \in CandidateInputs, InsertKnowledgeCandidates(<<in, in>>) PROVE AllTold'
  <2>1. in.valid
    BY <1>2, InputAssumption
  <2> QED
    BY <1>2, <2>1, InsertKnowledgeCandidatesTold DEF AllTold, InsertKnowledgeCandidates, Call
<1>3. ASSUME NEW in, InsertKnowledgeEvidence(in) PROVE AllTold'
  BY <1>3, InsertKnowledgeEvidenceTold DEF AllTold, InsertKnowledgeEvidence, Call
<1>4. ASSUME NEW in \in EvidenceInputs, InsertKnowledgeEvidenceBatch(<<in, in>>) PROVE AllTold'
  <2>1. in.valid
    BY <1>4, InputAssumption
  <2> QED
    BY <1>4, <2>1, InsertKnowledgeEvidenceBatchTold DEF AllTold, InsertKnowledgeEvidenceBatch, Call
<1>5. ASSUME NEW id, NEW in, PromoteKnowledgeCandidate(id, in) PROVE AllTold'
  BY <1>5, PromoteKnowledgeCandidateTold DEF AllTold, PromoteKnowledgeCandidate, Call
<1>6. ASSUME NEW scope, DeleteExpiredKnowledgeCandidates(scope, now) PROVE AllTold'
  BY <1>6, DeleteExpiredKnowledgeCandidatesTold DEF AllTold, DeleteExpiredKnowledgeCandidates, Call
<1>7. ASSUME NEW in, InsertKnowledgeMemoryAudit(in) PROVE AllTold'
  BY <1>7, InsertKnowledgeMemoryAuditTold DEF AllTold, InsertKnowledgeMemoryAudit, Call
<1> QED
  BY <1>1, <1>2, <1>3, <1>4, <1>5, <1>6, <1>7 DEF OnLearning

LEMMA WorkItemsTold ==
    ASSUME AllTold, OnWorkItems
    PROVE  AllTold'
<1>1. ASSUME NEW in, InsertWorkItem(in) PROVE AllTold'
  BY <1>1, InsertWorkItemTold DEF AllTold, InsertWorkItem, Call
<1>2. ASSUME NEW id, UpdateWorkItemStatus(id, "done") PROVE AllTold'
  BY <1>2, UpdateWorkItemStatusTold DEF AllTold, UpdateWorkItemStatus, Call
<1>3. ASSUME NEW id, NEW patch, NEW stale, UpdateWorkItem(id, patch, stale) PROVE AllTold'
  BY <1>3, UpdateWorkItemTold DEF AllTold, UpdateWorkItem, Call
<1>4. ASSUME NEW id, DeleteWorkItem(id) PROVE AllTold'
  BY <1>4, DeleteWorkItemTold DEF AllTold, DeleteWorkItem, Call
<1> QED
  BY <1>1, <1>2, <1>3, <1>4 DEF OnWorkItems

LEMMA LogsTold ==
    ASSUME AllTold, OnLogs
    PROVE  AllTold'
<1>1. ASSUME NEW in, UpsertContextMonitor(in) PROVE AllTold'
  BY <1>1, UpsertContextMonitorTold DEF AllTold, UpsertContextMonitor, Call
<1>2. ASSUME NEW in, InsertCompactionLog(in) PROVE AllTold'
  BY <1>2, InsertCompactionLogTold DEF AllTold, InsertCompactionLog, Call
<1> QED
  BY <1>1, <1>2 DEF OnLogs

LEMMA PlaybooksTold ==
    ASSUME AllTold, OnPlaybooks
    PROVE  AllTold'
<1>1. ASSUME NEW in, InsertPlaybook(in) PROVE AllTold'
  BY <1>1, InsertPlaybookTold DEF AllTold, InsertPlaybook, Call
<1>2. ASSUME NEW id, NEW patch, UpdatePlaybook(id, patch) PROVE AllTold'
  BY <1>2, UpdatePlaybookTold DEF AllTold, UpdatePlaybook, Call
<1>3. ASSUME NEW id, RecordPlaybookUse(id) PROVE AllTold'
  BY <1>3, RecordPlaybookUseTold DEF AllTold, RecordPlaybookUse, Call
<1>4. ASSUME NEW in, InsertPlaybookRevision(in) PROVE AllTold'
  BY <1>4, InsertPlaybookRevisionTold DEF AllTold, InsertPlaybookRevision, Call
<1> QED
  BY <1>1, <1>2, <1>3, <1>4 DEF OnPlaybooks

LEMMA AssociationsTold ==
    ASSUME AllTold, OnAssociations
    PROVE  AllTold'
<1>1. ASSUME NEW in, InsertAssociation(in) PROVE AllTold'
  BY <1>1, InsertAssociationTold DEF AllTold, InsertAssociation, Call
<1>2. ASSUME NEW id, DeleteAssociation(id) PROVE AllTold'
  BY <1>2, DeleteAssociationTold DEF AllTold, DeleteAssociation, Call
<1> QED
  BY <1>1, <1>2 DEF OnAssociations

LEMMA DocumentsTold ==
    ASSUME AllTold, OnDocuments
    PROVE  AllTold'
<1>1. ASSUME NEW in, InsertSourceDocument(in) PROVE AllTold'
  BY <1>1, InsertSourceDocumentTold DEF AllTold, InsertSourceDocument, Call
<1>2. ASSUME NEW id, NEW patch, UpdateSourceDocument(id, patch) PROVE AllTold'
  BY <1>2, UpdateSourceDocumentTold DEF AllTold, UpdateSourceDocument, Call
<1> QED
  BY <1>1, <1>2 DEF OnDocuments

LEMMA SettingsTold ==
    ASSUME AllTold, OnSettings
    PROVE  AllTold'
<1>1. ASSUME NEW scope, NEW v, SetScopeConfig(scope, v) PROVE AllTold'
  BY <1>1, SetScopeConfigTold DEF AllTold, SetScopeConfig, Call
<1>2. ASSUME NEW scope, NEW v, UpsertContextEscalationPolicy(scope, v) PROVE AllTold'
  BY <1>2, UpsertContextEscalationPolicyTold DEF AllTold, UpsertContextEscalationPolicy, Call
<1>3. ASSUME NEW scope, NEW v, UpsertDefaultContextContract(scope, v) PROVE AllTold'
  BY <1>3, UpsertDefaultContextContractTold DEF AllTold, UpsertDefaultContextContract, Call
<1>4. ASSUME NEW scope, NEW name, NEW v, UpsertNamedContextContract(scope, name, v) PROVE AllTold'
  BY <1>4, UpsertNamedContextContractTold DEF AllTold, UpsertNamedContextContract, Call
<1>5. ASSUME NEW scope, NEW name, DeleteNamedContextContract(scope, name) PROVE AllTold'
  BY <1>5, DeleteNamedContextContractTold DEF AllTold, DeleteNamedContextContract, Call
<1>6. ASSUME NEW scope, NEW id, NEW v, UpsertContextInvariant(scope, id, v) PROVE AllTold'
  BY <1>6, UpsertContextInvariantTold DEF AllTold, UpsertContextInvariant, Call
<1>7. ASSUME NEW scope, NEW id, DeleteContextInvariant(scope, id) PROVE AllTold'
  BY <1>7, DeleteContextInvariantTold DEF AllTold, DeleteContextInvariant, Call
<1> QED
  BY <1>1, <1>2, <1>3, <1>4, <1>5, <1>6, <1>7 DEF OnSettings

LEMMA StepTold ==
    ASSUME AllTold, [Next]_vars
    PROVE  AllTold'
<1>1. ASSUME NEW in, UpsertSessionState(in) PROVE AllTold'
  BY <1>1, UpsertSessionStateTold DEF AllTold, UpsertSessionState, Call
<1>2. CASE Tick
  BY <1>2 DEF Tick, AllTold
<1>3. CASE UNCHANGED vars
  BY <1>3 DEF vars, AllTold
<1> QED
  BY <1>1, <1>2, <1>3, TurnsTold, WorkingMemoryTold, KnowledgeTold, LearningTold, WorkItemsTold,
     LogsTold, PlaybooksTold, AssociationsTold, DocumentsTold, SettingsTold
     DEF Next

\* In every adapter, whatever calls were made and whatever failed half-way, the event
\* log tells of the rows of the replayed tables: the last event about a row that is
\* there shows it as it is, the last about one that is gone is its deletion, what an
\* event says was there before is what the event before it left, a row is created once
\* and before all else, and an event belongs to the scope of the row that it shows.
THEOREM StorageLogTells ==
  Spec => [](LogTells(sqlite) /\ LogTells(memory) /\ LogTells(postgres))
<1>1. Init => AllTold
  BY InitTold
<1>2. AllTold /\ [Next]_vars => AllTold'
  BY StepTold
<1>3. AllTold => LogTells(sqlite) /\ LogTells(memory) /\ LogTells(postgres)
  BY DEF AllTold, Told
<1> QED
  BY <1>1, <1>2, <1>3, PTL DEF Spec

=============================================================================
