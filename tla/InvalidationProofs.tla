------------------------- MODULE InvalidationProofs -------------------------
(***************************************************************************)
(* The scopes of the write use cases cover what they change and nothing    *)
(* beyond, for all ids of projects and versions.                           *)
(***************************************************************************)
EXTENDS Invalidation, SequenceTheorems, TLAPS

LEMMA StartsWith ==
  ASSUME NEW S, NEW s \in Seq(S), NEW t \in Seq(S)
  PROVE  IsStart(s, t) <=> Len(s) <= Len(t) /\ \A i \in 1..Len(s) : t[i] = s[i]
<1>1. ASSUME Len(s) <= Len(t)
      PROVE  SubSeq(t, 1, Len(s)) = s <=> \A i \in 1..Len(s) : t[i] = s[i]
  <2>1. /\ SubSeq(t, 1, Len(s)) \in Seq(S) /\ Len(SubSeq(t, 1, Len(s))) = Len(s)
        /\ \A i \in 1..Len(s) : SubSeq(t, 1, Len(s))[i] = t[i]
    BY <1>1
  <2>2. (\A i \in 1..Len(s) : SubSeq(t, 1, Len(s))[i] = s[i]) => SubSeq(t, 1, Len(s)) = s
    BY <2>1, SeqEqual
  <2>3. QED  BY <2>1, <2>2
<1>2. QED  BY <1>1 DEF IsStart

LEMMA SegmentsStart ==
  ASSUME NEW S, NEW t \in Seq(S), NEW x \in S, NEW y \in S, NEW z \in S
  PROVE  /\ IsStart(<<x>>, t) <=> Len(t) >= 1 /\ t[1] = x
         /\ IsStart(<<x, y>>, t) <=> Len(t) >= 2 /\ t[1] = x /\ t[2] = y
         /\ IsStart(<<x, y, z>>, t) <=> Len(t) >= 3 /\ t[1] = x /\ t[2] = y /\ t[3] = z
<1>1. PICK u : u = <<x>>
  OBVIOUS
<1>2. PICK v : v = <<x, y>>
  OBVIOUS
<1>3. PICK w : w = <<x, y, z>>
  OBVIOUS
<1>4. /\ u \in Seq(S) /\ Len(u) = 1 /\ u[1] = x
      /\ v \in Seq(S) /\ Len(v) = 2 /\ v[1] = x /\ v[2] = y
      /\ w \in Seq(S) /\ Len(w) = 3 /\ w[1] = x /\ w[2] = y /\ w[3] = z
  BY <1>1, <1>2, <1>3
<1>5. IsStart(u, t) <=> Len(u) <= Len(t) /\ \A i \in 1..Len(u) : t[i] = u[i]
  BY <1>4, StartsWith
<1>6. IsStart(v, t) <=> Len(v) <= Len(t) /\ \A i \in 1..Len(v) : t[i] = v[i]
  BY <1>4, StartsWith
<1>7. IsStart(w, t) <=> Len(w) <= Len(t) /\ \A i \in 1..Len(w) : t[i] = w[i]
  BY <1>4, StartsWith
<1>8. IsStart(u, t) <=> Len(t) >= 1 /\ t[1] = x
  BY <1>4, <1>5
<1>9. IsStart(v, t) <=> Len(t) >= 2 /\ t[1] = x /\ t[2] = y
  BY <1>4, <1>6
<1>10. IsStart(w, t) <=> Len(t) >= 3 /\ t[1] = x /\ t[2] = y /\ t[3] = z
  BY <1>4, <1>7
<1>11. QED  BY <1>1, <1>2, <1>3, <1>8, <1>9, <1>10

(* One, two or three segments begin a key of two, three or four.           *)
LEMMA StartOfTwo ==
  ASSUME NEW x, NEW y, NEW z, NEW a, NEW b
  PROVE  /\ IsStart(<<x>>, <<a, b>>) <=> x = a
         /\ IsStart(<<x, y>>, <<a, b>>) <=> x = a /\ y = b
         /\ ~IsStart(<<x, y, z>>, <<a, b>>)
<1>1. PICK S : S = {x, y, z, a, b}
  OBVIOUS
<1>2. PICK t : t = <<a, b>>
  OBVIOUS
<1>3. /\ t \in Seq(S) /\ Len(t) = 2 /\ t[1] = a /\ t[2] = b
      /\ x \in S /\ y \in S /\ z \in S
  BY <1>1, <1>2
<1>4. /\ IsStart(<<x>>, t) <=> Len(t) >= 1 /\ t[1] = x
      /\ IsStart(<<x, y>>, t) <=> Len(t) >= 2 /\ t[1] = x /\ t[2] = y
      /\ IsStart(<<x, y, z>>, t) <=> Len(t) >= 3 /\ t[1] = x /\ t[2] = y /\ t[3] = z
  BY ONLY <1>3, SegmentsStart
<1>5. /\ IsStart(<<x>>, t) <=> x = a
      /\ IsStart(<<x, y>>, t) <=> x = a /\ y = b
      /\ ~IsStart(<<x, y, z>>, t)
  BY ONLY <1>3, <1>4
<1>6. QED  BY ONLY <1>2, <1>5, Zenon

LEMMA StartOfThree ==
  ASSUME NEW x, NEW y, NEW z, NEW a, NEW b, NEW c
  PROVE  /\ IsStart(<<x>>, <<a, b, c>>) <=> x = a
         /\ IsStart(<<x, y>>, <<a, b, c>>) <=> x = a /\ y = b
         /\ IsStart(<<x, y, z>>, <<a, b, c>>) <=> x = a /\ y = b /\ z = c
<1>1. PICK S : S = {x, y, z, a, b, c}
  OBVIOUS
<1>2. PICK t : t = <<a, b, c>>
  OBVIOUS
<1>3. /\ t \in Seq(S) /\ Len(t) = 3 /\ t[1] = a /\ t[2] = b /\ t[3] = c
      /\ x \in S /\ y \in S /\ z \in S
  BY <1>1, <1>2
<1>4. /\ IsStart(<<x>>, t) <=> Len(t) >= 1 /\ t[1] = x
      /\ IsStart(<<x, y>>, t) <=> Len(t) >= 2 /\ t[1] = x /\ t[2] = y
      /\ IsStart(<<x, y, z>>, t) <=> Len(t) >= 3 /\ t[1] = x /\ t[2] = y /\ t[3] = z
  BY ONLY <1>3, SegmentsStart
<1>5. /\ IsStart(<<x>>, t) <=> x = a
      /\ IsStart(<<x, y>>, t) <=> x = a /\ y = b
      /\ IsStart(<<x, y, z>>, t) <=> x = a /\ y = b /\ z = c
  BY ONLY <1>3, <1>4
<1>6. QED  BY ONLY <1>2, <1>5, Zenon

LEMMA StartOfFour ==
  ASSUME NEW x, NEW y, NEW z, NEW a, NEW b, NEW c, NEW d
  PROVE  /\ IsStart(<<x>>, <<a, b, c, d>>) <=> x = a
         /\ IsStart(<<x, y>>, <<a, b, c, d>>) <=> x = a /\ y = b
         /\ IsStart(<<x, y, z>>, <<a, b, c, d>>) <=> x = a /\ y = b /\ z = c
<1>1. PICK S : S = {x, y, z, a, b, c, d}
  OBVIOUS
<1>2. PICK t : t = <<a, b, c, d>>
  OBVIOUS
<1>3. /\ t \in Seq(S) /\ Len(t) = 4 /\ t[1] = a /\ t[2] = b /\ t[3] = c
      /\ x \in S /\ y \in S /\ z \in S
  BY <1>1, <1>2
<1>4. /\ IsStart(<<x>>, t) <=> Len(t) >= 1 /\ t[1] = x
      /\ IsStart(<<x, y>>, t) <=> Len(t) >= 2 /\ t[1] = x /\ t[2] = y
      /\ IsStart(<<x, y, z>>, t) <=> Len(t) >= 3 /\ t[1] = x /\ t[2] = y /\ t[3] = z
  BY ONLY <1>3, SegmentsStart
<1>5. /\ IsStart(<<x>>, t) <=> x = a
      /\ IsStart(<<x, y>>, t) <=> x = a /\ y = b
      /\ IsStart(<<x, y, z>>, t) <=> x = a /\ y = b /\ z = c
  BY ONLY <1>3, <1>4
<1>6. QED  BY ONLY <1>2, <1>5, Zenon

LEMMA FamiliesHavePrefixes ==
  /\ Len(VersionPrefixes) = 17 /\ DOMAIN VersionPrefixes = 1..17
  /\ \A f \in VersionFamilies : \E i \in 1..17 : VersionPrefixes[i] = f
  /\ \A i \in 1..17 : VersionPrefixes[i] \in VersionFamilies \cup {"consolidated_rmd"}
BY DEF VersionPrefixes, VersionFamilies

-----------------------------------------------------------------------------
(* The keys each scope drops.                                              *)
LEMMA UnderVersion ==
  ASSUME NEW p, NEW v, NEW k
  PROVE  (\E i \in DOMAIN prefixes_for("VERSION", p, v) : Under(prefixes_for("VERSION", p, v)[i], k))
           <=> \E i \in 1..17 : IsStart(<< <<VersionPrefixes[i]>>, p, v >>, k)
<1>1. prefixes_for("VERSION", p, v) = [i \in 1..17 |-> << <<VersionPrefixes[i]>>, p, v >>]
  BY FamiliesHavePrefixes DEF prefixes_for
<1>2. QED  BY <1>1 DEF Under

LEMMA UnderProject ==
  ASSUME NEW p, NEW v, NEW k
  PROVE  (\E i \in DOMAIN prefixes_for("PROJECT", p, v) : Under(prefixes_for("PROJECT", p, v)[i], k))
           <=> \/ \E i \in 1..17 : IsStart(<< <<VersionPrefixes[i]>>, p >>, k)
               \/ IsStart(<< <<"projects">> >>, k)
               \/ IsStart(<< <<"versions">>, p >>, k)
               \/ IsStart(<< <<"project_access">>, p >>, k)
<1>1. PICK a : a = [i \in 1..17 |-> << <<VersionPrefixes[i]>>, p >>]
  OBVIOUS
<1>2. PICK b : b = << << <<"projects">> >>, << <<"versions">>, p >>, << <<"project_access">>, p >> >>
  OBVIOUS
<1>3. prefixes_for("PROJECT", p, v) = a \o b
  BY <1>1, <1>2, FamiliesHavePrefixes DEF prefixes_for
<1>4. PICK S : S = {a[i] : i \in 1..17} \cup {b[i] : i \in 1..3}
  OBVIOUS
<1>5. a \in Seq(S) /\ b \in Seq(S) /\ Len(a) = 17 /\ Len(b) = 3
  BY <1>1, <1>2, <1>4
<1>c. PICK c : c = a \o b
  OBVIOUS
<1>6. /\ DOMAIN c = 1..20 /\ \A i \in 1..17 : c[i] = a[i]
      /\ c[18] = b[1] /\ c[19] = b[2] /\ c[20] = b[3]
  <2>1. /\ a \o b \in Seq(S) /\ Len(a \o b) = Len(a) + Len(b)
        /\ \A i \in 1..(Len(a) + Len(b)) :
              (a \o b)[i] = IF i <= Len(a) THEN a[i] ELSE b[i - Len(a)]
    BY ONLY <1>5, ConcatProperties
  <2>2. Len(a) + Len(b) = 20 /\ Len(a) = 17
    BY <1>5
  <2>3. c \in Seq(S) /\ Len(c) = 20
    BY ONLY <1>c, <2>1, <2>2
  <2>4. DOMAIN c = 1..20
    BY ONLY <2>3
  <2>5. \A i \in 1..20 : c[i] = IF i <= 17 THEN a[i] ELSE b[i - 17]
    BY ONLY <1>c, <2>1, <2>2
  <2>6. c[18] = b[18 - 17] /\ c[19] = b[19 - 17] /\ c[20] = b[20 - 17]
    BY ONLY <2>5
  <2>7. \A i \in 1..17 : c[i] = a[i]
    BY ONLY <2>5
  <2>8. 18 - 17 = 1 /\ 19 - 17 = 2 /\ 20 - 17 = 3
    OBVIOUS
  <2>9. QED  BY ONLY <2>4, <2>6, <2>7, <2>8
<1>7. \A i \in 1..20 : i \in 1..17 \/ i = 18 \/ i = 19 \/ i = 20
  OBVIOUS
<1>8. /\ b[1] = << <<"projects">> >> /\ b[2] = << <<"versions">>, p >>
      /\ b[3] = << <<"project_access">>, p >>
      /\ \A i \in 1..17 : a[i] = << <<VersionPrefixes[i]>>, p >>
  BY <1>1, <1>2
<1>9. (\E i \in DOMAIN c : IsStart(c[i], k))
        <=> \/ \E i \in 1..17 : IsStart(a[i], k)
            \/ IsStart(b[1], k) \/ IsStart(b[2], k) \/ IsStart(b[3], k)
  <2>1. ASSUME NEW i \in DOMAIN c, IsStart(c[i], k)
        PROVE  \/ \E j \in 1..17 : IsStart(a[j], k)
               \/ IsStart(b[1], k) \/ IsStart(b[2], k) \/ IsStart(b[3], k)
    BY ONLY <1>6, <1>7, <2>1
  <2>2. ASSUME NEW i \in 1..17, IsStart(a[i], k)
        PROVE  \E j \in DOMAIN c : IsStart(c[j], k)
    BY ONLY <1>6, <2>2
  <2>3. 18 \in DOMAIN c /\ 19 \in DOMAIN c /\ 20 \in DOMAIN c
    BY ONLY <1>6
  <2>4. IsStart(b[1], k) \/ IsStart(b[2], k) \/ IsStart(b[3], k)
           => \E j \in DOMAIN c : IsStart(c[j], k)
    BY ONLY <1>6, <2>3
  <2>5. QED  BY <2>1, <2>2, <2>4
<1>10. QED  BY <1>3, <1>c, <1>8, <1>9 DEF Under

LEMMA UnderOthers ==
  ASSUME NEW p, NEW v, NEW k
  PROVE  /\ (\E i \in DOMAIN prefixes_for("GLOBAL", p, v) : Under(prefixes_for("GLOBAL", p, v)[i], k))
               <=> IsStart(<< <<"projects">> >>, k)
         /\ (\E i \in DOMAIN prefixes_for("GIT", p, v) : Under(prefixes_for("GIT", p, v)[i], k))
               <=> IsStart(<< <<"git_connections">> >>, k) \/ IsStart(<< <<"git_connection">> >>, k)
<1>1. prefixes_for("GLOBAL", p, v) = << << <<"projects">> >> >>
  BY DEF prefixes_for
<1>2. prefixes_for("GIT", p, v) = << << <<"git_connections">> >>, << <<"git_connection">> >> >>
  BY DEF prefixes_for
<1>3. QED  BY <1>1, <1>2 DEF Under

LEMMA DroppedKeys ==
  ASSUME NEW scope \in WriteScopes, NEW p \in ProjectIds, NEW v \in VersionIds, NEW k
  PROVE  k \in Dropped[scope][p][v] <=>
           /\ k \in AllKeys
           /\ \E i \in DOMAIN prefixes_for(scope, p, v) : Under(prefixes_for(scope, p, v)[i], k)
BY DEF Dropped

-----------------------------------------------------------------------------
(* What each scope drops of the keys of a version, a project, the company. *)
LEMMA VersionDrops ==
  ASSUME NEW p \in ProjectIds, NEW v \in VersionIds, NEW f \in VersionFamilies
  PROVE  VersionKey(f, p, v) \in Dropped["VERSION"][p][v]
<1>1. PICK i \in 1..17 : VersionPrefixes[i] = f
  BY FamiliesHavePrefixes
<1>2. IsStart(<< <<VersionPrefixes[i]>>, p, v >>, VersionKey(f, p, v))
  BY <1>1, StartOfFour DEF VersionKey
<1>3. VersionKey(f, p, v) \in AllKeys /\ "VERSION" \in WriteScopes
  BY DEF AllKeys, WriteScopes
<1>4. QED  BY <1>2, <1>3, DroppedKeys, UnderVersion

LEMMA ProjectDrops ==
  ASSUME NEW p \in ProjectIds, NEW v \in VersionIds
  PROVE  /\ \A f \in VersionFamilies, u \in VersionIds :
               VersionKey(f, p, u) \in Dropped["PROJECT"][p][v]
         /\ \A f \in ProjectFamilies : ProjectKey(f, p) \in Dropped["PROJECT"][p][v]
         /\ CompanyKey("projects") \in Dropped["PROJECT"][p][v]
<1>1. "PROJECT" \in WriteScopes
  BY DEF WriteScopes
<1>2. ASSUME NEW f \in VersionFamilies, NEW u \in VersionIds
      PROVE  VersionKey(f, p, u) \in Dropped["PROJECT"][p][v]
  <2>1. PICK i \in 1..17 : VersionPrefixes[i] = f
    BY FamiliesHavePrefixes
  <2>2. IsStart(<< <<VersionPrefixes[i]>>, p >>, VersionKey(f, p, u))
    BY <2>1, StartOfFour DEF VersionKey
  <2>3. VersionKey(f, p, u) \in AllKeys
    BY DEF AllKeys
  <2>4. QED  BY <1>1, <2>2, <2>3, DroppedKeys, UnderProject
<1>3. ASSUME NEW f \in ProjectFamilies
      PROVE  ProjectKey(f, p) \in Dropped["PROJECT"][p][v]
  <2>1. IsStart(<< <<f>>, p >>, ProjectKey(f, p))
    BY StartOfThree DEF ProjectKey
  <2>2. ProjectKey(f, p) \in AllKeys /\ f \in {"versions", "project_access"}
    BY DEF AllKeys, ProjectFamilies
  <2>3. QED  BY <1>1, <2>1, <2>2, DroppedKeys, UnderProject
<1>4. CompanyKey("projects") \in Dropped["PROJECT"][p][v]
  <2>1. IsStart(<< <<"projects">> >>, CompanyKey("projects"))
    BY StartOfTwo DEF CompanyKey
  <2>2. CompanyKey("projects") \in AllKeys
    BY DEF AllKeys, CompanyFamilies
  <2>3. QED  BY <1>1, <2>1, <2>2, DroppedKeys, UnderProject
<1>5. QED  BY <1>2, <1>3, <1>4

LEMMA CompanyDrops ==
  ASSUME NEW p \in ProjectIds, NEW v \in VersionIds
  PROVE  /\ CompanyKey("projects") \in Dropped["GLOBAL"][p][v]
         /\ CompanyKey("git_connections") \in Dropped["GIT"][p][v]
         /\ CompanyKey("git_connection") \in Dropped["GIT"][p][v]
<1>1. "GLOBAL" \in WriteScopes /\ "GIT" \in WriteScopes
  BY DEF WriteScopes
<1>2. \A f : IsStart(<< <<f>> >>, CompanyKey(f))
  BY StartOfTwo DEF CompanyKey
<1>3. \A f \in CompanyFamilies : CompanyKey(f) \in AllKeys
  BY DEF AllKeys
<1>4. {"projects", "git_connections", "git_connection"} \subseteq CompanyFamilies
  BY DEF CompanyFamilies
<1>5. QED  BY <1>1, <1>2, <1>3, <1>4, DroppedKeys, UnderOthers

-----------------------------------------------------------------------------
(* What the use cases change lies in what the scope they pass stands for.  *)
LEMMA ScopesOfWrites ==
  ASSUME NEW w \in Writes
  PROVE  /\ w.scope \in WriteScopes
         /\ w.scope = "VERSION" => w.changes \subseteq VersionFamilies /\ w.reach = "version"
         /\ w.scope = "PROJECT" =>
              w.changes \subseteq VersionFamilies \cup ProjectFamilies \cup {"projects"}
         /\ w.scope = "GLOBAL" => w.changes \subseteq {"projects"}
         /\ w.scope = "GIT" => w.changes \subseteq {"git_connections", "git_connection"}
<1> USE DEF Row, WriteScopes
<1>1. CASE w \in ProjectWrites
  BY <1>1 DEF ProjectWrites, VersionFamilies, ProjectFamilies
<1>2. CASE w \in RmdWrites
  BY <1>2 DEF RmdWrites, VersionFamilies
<1>3. CASE w \in ModelWrites
  BY <1>3 DEF ModelWrites, VersionFamilies
<1>4. CASE w \in AccessWrites
  BY <1>4 DEF AccessWrites, ProjectFamilies
<1>5. CASE w \in TransferWrites
  BY <1>5 DEF TransferWrites, VersionFamilies, ProjectFamilies
<1>6. CASE w \in GitWrites
  BY <1>6 DEF GitWrites
<1>7. QED  BY <1>1, <1>2, <1>3, <1>4, <1>5, <1>6 DEF Writes

LEMMA FamiliesAreDistinct ==
  /\ VersionFamilies \cap ProjectFamilies = {}
  /\ (VersionFamilies \cup ProjectFamilies) \cap CompanyFamilies = {}
  /\ (VersionFamilies \cup ProjectFamilies)
        \cap {"projects", "git_connections", "git_connection"} = {}
BY DEF VersionFamilies, ProjectFamilies, CompanyFamilies

LEMMA ScopesCover ==
  ASSUME NEW w \in Writes, NEW p \in ProjectIds, NEW v \in VersionIds
  PROVE  Changed(w, p, v) \subseteq Dropped[w.scope][p][v]
<1>1. /\ \A f \in w.changes \cap VersionFamilies :
            \A u \in IF w.reach = "version" THEN {v} ELSE VersionIds :
               VersionKey(f, p, u) \in Dropped[w.scope][p][v]
  <2> SUFFICES ASSUME NEW f \in w.changes \cap VersionFamilies,
                      NEW u \in IF w.reach = "version" THEN {v} ELSE VersionIds
               PROVE  VersionKey(f, p, u) \in Dropped[w.scope][p][v]
    OBVIOUS
  <2>1. u \in VersionIds
    OBVIOUS
  <2>2. CASE w.scope = "VERSION"
    BY <2>2, ScopesOfWrites, VersionDrops
  <2>3. CASE w.scope = "PROJECT"
    BY <2>1, <2>3, ProjectDrops
  <2>4. CASE w.scope \in {"GLOBAL", "GIT"}
    BY <2>4, ScopesOfWrites, FamiliesAreDistinct
  <2>5. QED  BY <2>2, <2>3, <2>4, ScopesOfWrites DEF WriteScopes
<1>2. ASSUME NEW f \in w.changes \cap ProjectFamilies
      PROVE  ProjectKey(f, p) \in Dropped[w.scope][p][v]
  <2>1. w.scope = "PROJECT"
    BY ScopesOfWrites, FamiliesAreDistinct DEF WriteScopes
  <2>2. QED  BY <2>1, ProjectDrops
<1>3. ASSUME NEW f \in w.changes \cap CompanyFamilies
      PROVE  CompanyKey(f) \in Dropped[w.scope][p][v]
  <2>1. \/ w.scope \in {"PROJECT", "GLOBAL"} /\ f = "projects"
        \/ w.scope = "GIT" /\ f \in {"git_connections", "git_connection"}
    BY ScopesOfWrites, FamiliesAreDistinct DEF WriteScopes
  <2>2. QED  BY <2>1, ProjectDrops, CompanyDrops
<1>4. QED  BY <1>1, <1>2, <1>3 DEF Changed

(* A successful write leaves no entry that it has changed: "a write drops  *)
(* its whole scope" (invalidation.py:1-8) is enough for every use case     *)
(* with the scope it passes to _write_op, whatever the ids.                *)
THEOREM WritesDropWhatTheyChange == Spec => []WriteDropsWhatItChanges
<1>1. Changed(NoWrite.write, NoWrite.p, NoWrite.v) = {}
  BY DEF Changed, NoWrite, Row
<1>2. Init => WriteDropsWhatItChanges
  BY <1>1 DEF Init, WriteDropsWhatItChanges
<1>3. WriteDropsWhatItChanges /\ [Next]_vars => WriteDropsWhatItChanges'
  <2> SUFFICES ASSUME WriteDropsWhatItChanges, [Next]_vars
               PROVE  stored' \cap Changed(last'.write, last'.p, last'.v) = {}
    BY DEF WriteDropsWhatItChanges
  <2>1. ASSUME NEW w \in Writes, NEW p \in ProjectIds, NEW v \in VersionIds, Write(w, p, v)
        PROVE  stored' \cap Changed(last'.write, last'.p, last'.v) = {}
    BY <2>1, ScopesCover DEF Write
  <2>2. CASE Refill
    BY <1>1, <2>2 DEF Refill
  <2>3. CASE UNCHANGED vars
    BY <2>3 DEF vars, WriteDropsWhatItChanges
  <2>4. QED  BY <2>1, <2>2, <2>3 DEF Next
<1>4. QED  BY <1>2, <1>3, PTL DEF Spec

-----------------------------------------------------------------------------
(* The other way round: what a scope drops lies within it.                 *)
LEMMA ThreeShapes ==
  ASSUME NEW k \in AllKeys
  PROVE  \/ \E f \in VersionFamilies, q \in ProjectIds, u \in VersionIds : k = VersionKey(f, q, u)
         \/ \E f \in ProjectFamilies, q \in ProjectIds : k = ProjectKey(f, q)
         \/ \E f \in CompanyFamilies : k = CompanyKey(f)
BY DEF AllKeys

LEMMA Lengths ==
  ASSUME NEW f, NEW q, NEW u
  PROVE  /\ Len(VersionKey(f, q, u)) = 4 /\ VersionKey(f, q, u)[2] = q /\ VersionKey(f, q, u)[3] = u
         /\ Len(ProjectKey(f, q)) = 3 /\ ProjectKey(f, q)[2] = q
         /\ Len(CompanyKey(f)) = 2
BY DEF VersionKey, ProjectKey, CompanyKey

LEMMA StartsOfKeys ==
  ASSUME NEW x, NEW y, NEW z, NEW f, NEW q, NEW u
  PROVE  /\ IsStart(<<x>>, VersionKey(f, q, u)) => x = <<f>>
         /\ IsStart(<<x, y>>, VersionKey(f, q, u)) => x = <<f>> /\ y = q
         /\ IsStart(<<x, y, z>>, VersionKey(f, q, u)) => x = <<f>> /\ y = q /\ z = u
         /\ IsStart(<<x>>, ProjectKey(f, q)) => x = <<f>>
         /\ IsStart(<<x, y>>, ProjectKey(f, q)) => x = <<f>> /\ y = q
         /\ IsStart(<<x, y, z>>, ProjectKey(f, q)) => x = <<f>>
         /\ IsStart(<<x>>, CompanyKey(f)) => x = <<f>>
         /\ IsStart(<<x, y>>, CompanyKey(f)) => x = <<f>>
         /\ ~IsStart(<<x, y, z>>, CompanyKey(f))
<1>1. PICK n : n = <<f>>
  OBVIOUS
<1>2. PICK e : e = Tail1
  OBVIOUS
<1>3. /\ VersionKey(f, q, u) = <<n, q, u, e>> /\ ProjectKey(f, q) = <<n, q, e>>
      /\ CompanyKey(f) = <<n, e>>
  BY <1>1, <1>2 DEF VersionKey, ProjectKey, CompanyKey
<1>4. /\ IsStart(<<x>>, <<n, q, u, e>>) => x = n
      /\ IsStart(<<x, y>>, <<n, q, u, e>>) => x = n /\ y = q
      /\ IsStart(<<x, y, z>>, <<n, q, u, e>>) => x = n /\ y = q /\ z = u
  BY StartOfFour
<1>5. /\ IsStart(<<x>>, <<n, q, e>>) => x = n
      /\ IsStart(<<x, y>>, <<n, q, e>>) => x = n /\ y = q
      /\ IsStart(<<x, y, z>>, <<n, q, e>>) => x = n
  BY StartOfThree
<1>6. /\ IsStart(<<x>>, <<n, e>>) => x = n
      /\ IsStart(<<x, y>>, <<n, e>>) => x = n
      /\ ~IsStart(<<x, y, z>>, <<n, e>>)
  BY StartOfTwo
<1>7. QED  BY <1>1, <1>3, <1>4, <1>5, <1>6, Zenon

LEMMA StartOfVersionKey ==
  ASSUME NEW x, NEW y, NEW z, NEW f, NEW q, NEW u, IsStart(<<x, y, z>>, VersionKey(f, q, u))
  PROVE  y = q /\ z = u
<1>1. PICK n : n = <<f>>
  OBVIOUS
<1>2. PICK e : e = Tail1
  OBVIOUS
<1>3. IsStart(<<x, y, z>>, <<n, q, u, e>>)
  BY <1>1, <1>2 DEF VersionKey
<1>4. /\ IsStart(<<x>>, <<n, q, u, e>>) <=> x = n
      /\ IsStart(<<x, y>>, <<n, q, u, e>>) <=> x = n /\ y = q
      /\ IsStart(<<x, y, z>>, <<n, q, u, e>>) <=> x = n /\ y = q /\ z = u
  BY StartOfFour
<1>5. QED  BY <1>3, <1>4, Zenon

LEMMA Names ==
  ASSUME NEW f, NEW g
  PROVE  <<f>> = <<g>> => f = g
OBVIOUS

LEMMA VersionStays ==
  ASSUME NEW p \in ProjectIds, NEW v \in VersionIds, NEW k \in Dropped["VERSION"][p][v]
  PROVE  InScope(k, "VERSION", p, v)
<1>1. "VERSION" \in WriteScopes
  BY DEF WriteScopes
<1>2. k \in AllKeys /\ \E i \in 1..17 : IsStart(<< <<VersionPrefixes[i]>>, p, v >>, k)
  BY <1>1, DroppedKeys, UnderVersion
<1>3. PICK i \in 1..17 : IsStart(<< <<VersionPrefixes[i]>>, p, v >>, k)
  BY <1>2
<1>a. PICK n : n = <<VersionPrefixes[i]>> /\ IsStart(<<n, p, v>>, k)
  BY <1>3
<1>4. VersionPrefixes[i] \notin ProjectFamilies
  BY FamiliesHavePrefixes, FamiliesAreDistinct DEF ProjectFamilies
<1>5. ASSUME NEW f \in VersionFamilies, NEW q \in ProjectIds, NEW u \in VersionIds,
             k = VersionKey(f, q, u)
      PROVE  InScope(k, "VERSION", p, v)
  <2>1. q = p /\ u = v
    <3>1. IsStart(<<n, p, v>>, VersionKey(f, q, u)) => p = q /\ v = u
      BY ONLY StartOfVersionKey
    <3>2. QED  BY <1>a, <1>5, <3>1
  <2>2. Len(k) = 4 /\ k[2] = p /\ k[3] = v
    BY <1>5, <2>1, Lengths
  <2>3. QED  BY <2>2 DEF InScope
<1>6. ASSUME NEW f \in ProjectFamilies, NEW q \in ProjectIds, k = ProjectKey(f, q)
      PROVE  FALSE
  <2>1. <<VersionPrefixes[i]>> = <<f>>
    <3>1. IsStart(<<n, p, v>>, ProjectKey(f, q)) => n = <<f>>
      BY ONLY StartsOfKeys
    <3>2. QED  BY <1>a, <1>6, <3>1
  <2>2. QED  BY <1>4, <2>1, Names
<1>7. ASSUME NEW f \in CompanyFamilies, k = CompanyKey(f)
      PROVE  FALSE
  BY <1>3, <1>7, StartsOfKeys, Zenon
<1>8. QED  BY <1>2, <1>5, <1>6, <1>7, ThreeShapes

LEMMA ProjectStays ==
  ASSUME NEW p \in ProjectIds, NEW v \in VersionIds, NEW k \in Dropped["PROJECT"][p][v]
  PROVE  InScope(k, "PROJECT", p, v)
<1>1. "PROJECT" \in WriteScopes
  BY DEF WriteScopes
<1>2. /\ k \in AllKeys
      /\ \/ IsStart(<< <<"projects">> >>, k)
         \/ \E g \in VersionFamilies \cup {"consolidated_rmd"} \cup {"versions", "project_access"} :
              IsStart(<< <<g>>, p >>, k)
  <2>1. \A i \in 1..17 : VersionPrefixes[i] \in VersionFamilies \cup {"consolidated_rmd"}
    BY FamiliesHavePrefixes
  <2>2. QED  BY <1>1, <2>1, DroppedKeys, UnderProject
<1>3. ASSUME NEW f \in VersionFamilies, NEW q \in ProjectIds, NEW u \in VersionIds,
             k = VersionKey(f, q, u)
      PROVE  InScope(k, "PROJECT", p, v)
  <2>1. ~IsStart(<< <<"projects">> >>, k)
    <3>1. IsStart(<< <<"projects">> >>, k) => <<"projects">> = <<f>>
      BY <1>3, StartsOfKeys, Zenon
    <3>2. QED  BY <3>1, Names, FamiliesAreDistinct
  <2>2. q = p
    <3>1. PICK g : IsStart(<< <<g>>, p >>, k)
      BY <1>2, <2>1
    <3>2. PICK n : n = <<g>> /\ IsStart(<<n, p>>, k)
      BY <3>1
    <3>3. IsStart(<<n, p>>, VersionKey(f, q, u)) => p = q
      BY ONLY StartsOfKeys
    <3>4. QED  BY <1>3, <3>2, <3>3
  <2>3. Len(k) > 2 /\ k[2] = p
    BY <1>3, <2>2, Lengths
  <2>4. QED  BY <2>3 DEF InScope
<1>4. ASSUME NEW f \in ProjectFamilies, NEW q \in ProjectIds, k = ProjectKey(f, q)
      PROVE  InScope(k, "PROJECT", p, v)
  <2>1. ~IsStart(<< <<"projects">> >>, k)
    <3>1. IsStart(<< <<"projects">> >>, k) => <<"projects">> = <<f>>
      BY <1>4, StartsOfKeys, Zenon
    <3>2. QED  BY <3>1, Names, FamiliesAreDistinct
  <2>2. q = p
    <3>1. PICK g : IsStart(<< <<g>>, p >>, k)
      BY <1>2, <2>1
    <3>2. PICK n : n = <<g>> /\ IsStart(<<n, p>>, k)
      BY <3>1
    <3>3. IsStart(<<n, p>>, ProjectKey(f, q)) => p = q
      BY ONLY StartsOfKeys
    <3>4. QED  BY <1>4, <3>2, <3>3
  <2>3. Len(k) > 2 /\ k[2] = p
    <3>1. Len(ProjectKey(f, q)) = 3 /\ ProjectKey(f, q)[2] = q
      BY Lengths, Zenon
    <3>2. QED  BY <1>4, <2>2, <3>1
  <2>4. QED  BY <2>3 DEF InScope
<1>5. ASSUME NEW f \in CompanyFamilies, k = CompanyKey(f)
      PROVE  InScope(k, "PROJECT", p, v)
  <2>1. CASE IsStart(<< <<"projects">> >>, k)
    <3>1. <<"projects">> = <<f>>
      BY <1>5, <2>1, StartsOfKeys, Zenon
    <3>2. k = CompanyKey("projects")
      BY <1>5, <3>1, Names
    <3>3. QED  BY <3>2 DEF InScope
  <2>2. ASSUME NEW g \in VersionFamilies \cup {"consolidated_rmd"} \cup {"versions", "project_access"},
               IsStart(<< <<g>>, p >>, k)
        PROVE  FALSE
    <3>1. <<g>> = <<f>>
      BY <1>5, <2>2, StartsOfKeys, Zenon
    <3>2. g = f
      BY <3>1, Names
    <3>3. QED  BY <3>2 DEF VersionFamilies, CompanyFamilies
  <2>3. QED  BY <1>2, <2>1, <2>2
<1>6. QED  BY <1>2, <1>3, <1>4, <1>5, ThreeShapes

LEMMA CompanyStays ==
  ASSUME NEW p \in ProjectIds, NEW v \in VersionIds, NEW scope \in {"GLOBAL", "GIT"},
         NEW k \in Dropped[scope][p][v]
  PROVE  InScope(k, scope, p, v)
<1>1. scope \in WriteScopes
  BY DEF WriteScopes
<1>2. /\ k \in AllKeys
      /\ \E g \in {"projects", "git_connections", "git_connection"} : IsStart(<< <<g>> >>, k)
  BY <1>1, DroppedKeys, UnderOthers
<1>3. PICK g \in {"projects", "git_connections", "git_connection"} : IsStart(<< <<g>> >>, k)
  BY <1>2
<1>4. ASSUME NEW f \in VersionFamilies, NEW q \in ProjectIds, NEW u \in VersionIds,
             k = VersionKey(f, q, u)
      PROVE  FALSE
  <2>1. <<g>> = <<f>>
    BY <1>3, <1>4, StartsOfKeys, Zenon
  <2>2. QED  BY <2>1, Names, FamiliesAreDistinct
<1>5. ASSUME NEW f \in ProjectFamilies, NEW q \in ProjectIds, k = ProjectKey(f, q)
      PROVE  FALSE
  <2>1. <<g>> = <<f>>
    BY <1>3, <1>5, StartsOfKeys, Zenon
  <2>2. QED  BY <2>1, Names, FamiliesAreDistinct
<1>6. Len(k) = 2
  <2>1. PICK f \in CompanyFamilies : k = CompanyKey(f)
    BY <1>2, <1>4, <1>5, ThreeShapes
  <2>2. QED  BY <2>1, Lengths
<1>7. QED  BY <1>6 DEF InScope

(* A write to one version costs no other version its entries, and a write  *)
(* to one project no other project, even if one id begins with the other:  *)
(* invalidate_prefix matches whole segments (file_store.py:67-83).         *)
THEOREM WritesStayInScope == Spec => WriteStaysInScope
<1>1. Init => stored \subseteq AllKeys
  BY DEF Init
<1>2. stored \subseteq AllKeys /\ [Next]_vars => (stored \subseteq AllKeys)'
  BY DEF Next, Write, Refill, vars
<1>3. ASSUME stored \subseteq AllKeys, [Next]_vars
      PROVE  [\A k \in stored \ stored' :
                 InScope(k, last'.write.scope, last'.p, last'.v)]_vars
  <2>1. ASSUME NEW w \in Writes, NEW p \in ProjectIds, NEW v \in VersionIds, Write(w, p, v)
        PROVE  \A k \in stored \ stored' : InScope(k, last'.write.scope, last'.p, last'.v)
    <3>1. last'.write.scope = w.scope /\ last'.p = p /\ last'.v = v
      BY <2>1 DEF Write
    <3>2. \A k \in stored \ stored' : k \in Dropped[w.scope][p][v]
      BY <2>1 DEF Write
    <3>3. \A k \in Dropped[w.scope][p][v] : InScope(k, w.scope, p, v)
      BY ScopesOfWrites, VersionStays, ProjectStays, CompanyStays DEF WriteScopes
    <3>4. QED  BY <3>1, <3>2, <3>3
  <2>2. CASE Refill
    BY <1>3, <2>2 DEF Refill
  <2>3. QED  BY <1>3, <2>1, <2>2 DEF Next
<1>4. stored \subseteq AllKeys /\ [Next]_vars =>
        [\A k \in stored \ stored' : InScope(k, last'.write.scope, last'.p, last'.v)]_vars
  BY <1>3
<1>5. QED  BY <1>1, <1>2, <1>4, PTL DEF Spec, WriteStaysInScope
=============================================================================
