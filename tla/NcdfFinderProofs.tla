------------------------- MODULE NcdfFinderProofs -------------------------
(* Proofs about NcdfFinder: the variable find_var_by_cf returns is the best *)
(* match there is, for every file and every query.                          *)
EXTENDS NcdfFinder, TLAPS

\* The file is one the library can have open; its caller has none between two calls.
IsFile ==
  /\ DOMAIN ncfile = 1 .. Len(ncfile) /\ Len(ncfile) \in Nat
  /\ \A v, w \in DOMAIN ncfile : ncfile[v].name = ncfile[w].name => v = w

\* What rule 1, and a rule with a list of names, have missed when they are given up.
NoStandard == \A v \in DOMAIN ncfile : ncfile[v].std # Query.target

NoneOf(key, attribute) ==
  \A h \in DOMAIN Query[key], v \in DOMAIN ncfile : ncfile[v][attribute] # Query[key][h]

\* What they have missed so far.
StandardSoFar ==
  IF varid = NotFound THEN \A v \in DOMAIN ncfile : v < var => ncfile[v].std # Query.target
  ELSE /\ varid \in DOMAIN ncfile /\ ncfile[varid].std = Query.target
       /\ \A v \in DOMAIN ncfile : v < varid => ncfile[v].std # Query.target

NoneSoFar(key, attribute) ==
  \A h \in DOMAIN Query[key], v \in DOMAIN ncfile :
    h < hint \/ (h = hint /\ v < var) => ncfile[v][attribute] # Query[key][h]

\* varid is still unset after rule 1, and v is what it may be set to at the return.
Best(v) ==
  IF v = NotFound THEN Matches = {}
  ELSE \E m \in Matches : m.id = v /\ \A n \in Matches : n = m \/ Before(m, n)

FinderInv ==
  /\ IsFile
  /\ rule \in {"standard", "alternative", "long", "name", "found"}
  /\ hint \in Nat \ {0} /\ var \in Nat \ {0}
  /\ rule = "standard" => StandardSoFar
  /\ rule = "alternative" => NoStandard /\ NoneSoFar("alts", "std")
  /\ rule = "long" => NoStandard /\ NoneOf("alts", "std") /\ NoneSoFar("longs", "long")
  /\ rule = "name" =>
       /\ NoStandard /\ NoneOf("alts", "std") /\ NoneOf("longs", "long")
       /\ \A h \in DOMAIN Query.names, v \in DOMAIN ncfile :
            h < hint => ncfile[v].name # Query.names[h]
  /\ rule \in {"alternative", "long", "name"} => varid = NotFound
  /\ rule = "found" => Best(varid)

\* Each match is one of the four kinds, and is told apart by its three fields.
LEMMA MatchKinds ==
  ASSUME NEW n \in Matches
  PROVE  /\ n.id \in DOMAIN ncfile
         /\ n = [tier |-> n.tier, hint |-> n.hint, id |-> n.id]
         /\ \/ n.tier = 1 /\ n.hint = 1 /\ ncfile[n.id].std = Query.target
            \/ n.tier = 2 /\ n.hint \in DOMAIN Query.alts /\ ncfile[n.id].std = Query.alts[n.hint]
            \/ n.tier = 3 /\ n.hint \in DOMAIN Query.longs /\ ncfile[n.id].long = Query.longs[n.hint]
            \/ n.tier = 4 /\ n.hint \in DOMAIN Query.names /\ ncfile[n.id].name = Query.names[n.hint]
<1>1. CASE n \in {m \in [tier : {1}, hint : {1}, id : DOMAIN ncfile] : ncfile[m.id].std = Query.target}
  BY <1>1
<1>2. CASE n \in MatchesBy(2, "alts", "std")
  BY <1>2 DEF MatchesBy
<1>3. CASE n \in MatchesBy(3, "longs", "long")
  BY <1>3 DEF MatchesBy
<1>4. CASE n \in MatchesBy(4, "names", "name")
  BY <1>4 DEF MatchesBy
<1> QED BY <1>1, <1>2, <1>3, <1>4 DEF Matches

\* A variable whose standard name is right is a match, of the first rule.
LEMMA StandardMatch ==
  ASSUME NEW v \in DOMAIN ncfile, ncfile[v].std = Query.target
  PROVE  [tier |-> 1, hint |-> 1, id |-> v] \in Matches
BY DEF Matches

\* A variable that a name of a list fits is a match, of that list's rule.
LEMMA NamedMatch ==
  ASSUME NEW v \in DOMAIN ncfile
  PROVE  /\ \A h \in DOMAIN Query["alts"] : ncfile[v]["std"] = Query["alts"][h] =>
              [tier |-> 2, hint |-> h, id |-> v] \in Matches
         /\ \A h \in DOMAIN Query["longs"] : ncfile[v]["long"] = Query["longs"][h] =>
              [tier |-> 3, hint |-> h, id |-> v] \in Matches
         /\ \A h \in DOMAIN Query["names"] : ncfile[v]["name"] = Query["names"][h] =>
              [tier |-> 4, hint |-> h, id |-> v] \in Matches
<1>1. ASSUME NEW t, NEW key, NEW attribute, NEW h \in DOMAIN Query[key],
             ncfile[v][attribute] = Query[key][h]
      PROVE  [tier |-> t, hint |-> h, id |-> v] \in MatchesBy(t, key, attribute)
  BY <1>1 DEF MatchesBy
<1> QED BY <1>1 DEF Matches

\* Once rule 1 has looked at every variable.
LEMMA StandardIsBest ==
  ASSUME IsFile, StandardSoFar, varid # NotFound
  PROVE  Best(varid)
<1> DEFINE m == [tier |-> 1, hint |-> 1, id |-> varid]
<1>1. m \in Matches /\ m.id = varid
  BY StandardMatch DEF StandardSoFar
<1>2. ASSUME NEW n \in Matches PROVE n = m \/ Before(m, n)
  BY MatchKinds, <1>2 DEF StandardSoFar, Before, IsFile
<1> QED BY <1>1, <1>2 DEF Best, NotFound

\* A match of a rule with a list, when the rules before it had none and this rule had
\* none at an earlier position.
LEMMA NamedIsBest ==
  ASSUME IsFile, NoStandard, hint \in Nat \ {0}, var \in Nat \ {0}, NEW v \in DOMAIN ncfile
  PROVE  /\ /\ NoneSoFar("alts", "std") /\ hint \in DOMAIN Query["alts"]
            /\ ncfile[v]["std"] = Query["alts"][hint] /\ v = var
            => Best(v)
         /\ /\ NoneOf("alts", "std") /\ NoneSoFar("longs", "long") /\ hint \in DOMAIN Query["longs"]
            /\ ncfile[v]["long"] = Query["longs"][hint] /\ v = var
            => Best(v)
         /\ /\ NoneOf("alts", "std") /\ NoneOf("longs", "long") /\ hint \in DOMAIN Query["names"]
            /\ \A h \in DOMAIN Query.names, w \in DOMAIN ncfile :
                 h < hint => ncfile[w].name # Query.names[h]
            /\ ncfile[v]["name"] = Query["names"][hint]
            => Best(v)
<1> USE QueryAssumption DEF IsFile
<1>0. v # NotFound
  BY DEF NotFound
<1>1. ASSUME NoneSoFar("alts", "std"), hint \in DOMAIN Query["alts"],
             ncfile[v]["std"] = Query["alts"][hint], v = var
      PROVE  Best(v)
  <2> DEFINE m == [tier |-> 2, hint |-> hint, id |-> v]
  <2>1. m \in Matches /\ m.id = v
    BY <1>1, NamedMatch
  <2>2. ASSUME NEW n \in Matches PROVE n = m \/ Before(m, n)
    BY MatchKinds, <1>1, <2>2 DEF NoStandard, NoneSoFar, Before
  <2> QED BY <1>0, <2>1, <2>2 DEF Best
<1>2. ASSUME NoneOf("alts", "std"), NoneSoFar("longs", "long"), hint \in DOMAIN Query["longs"],
             ncfile[v]["long"] = Query["longs"][hint], v = var
      PROVE  Best(v)
  <2> DEFINE m == [tier |-> 3, hint |-> hint, id |-> v]
  <2>1. m \in Matches /\ m.id = v
    BY <1>2, NamedMatch
  <2>2. ASSUME NEW n \in Matches PROVE n = m \/ Before(m, n)
    BY MatchKinds, <1>2, <2>2 DEF NoStandard, NoneOf, NoneSoFar, Before
  <2> QED BY <1>0, <2>1, <2>2 DEF Best
<1>3. ASSUME NoneOf("alts", "std"), NoneOf("longs", "long"), hint \in DOMAIN Query["names"],
             \A h \in DOMAIN Query.names, w \in DOMAIN ncfile :
                 h < hint => ncfile[w].name # Query.names[h],
             ncfile[v]["name"] = Query["names"][hint]
      PROVE  Best(v)
  <2> DEFINE m == [tier |-> 4, hint |-> hint, id |-> v]
  <2>1. m \in Matches /\ m.id = v
    BY <1>3, NamedMatch
  <2>2. ASSUME NEW n \in Matches PROVE n = m \/ Before(m, n)
    BY MatchKinds, <1>3, <2>2 DEF NoStandard, NoneOf, Before
  <2> QED BY <1>0, <2>1, <2>2 DEF Best
<1> QED BY <1>1, <1>2, <1>3

\* When all four rules have been given up.
LEMMA NothingFits ==
  ASSUME IsFile, NoStandard, NoneOf("alts", "std"), NoneOf("longs", "long"), NoneOf("names", "name")
  PROVE  Best(NotFound)
<1> SUFFICES ASSUME NEW n \in Matches PROVE FALSE
  BY DEF Best
<1> QED BY MatchKinds DEF NoStandard, NoneOf

-----------------------------------------------------------------------------
\* A turn of a list's loop: it finds the best match, or gives the list up, or goes on.
LEMMA TryNamesStep ==
  ASSUME NEW key, NEW attribute, NEW next, IsFile, hint \in Nat \ {0}, var \in Nat \ {0},
         Query[key] \in {Query.alts, Query.longs}, NoneSoFar(key, attribute),
         DOMAIN Query[key] = 1 .. Len(Query[key]), Len(Query[key]) \in Nat,
         TryNames(key, attribute, next)
  PROVE  /\ ncfile' = ncfile /\ IsFile' /\ hint' \in Nat \ {0} /\ var' \in Nat \ {0}
         /\ \/ /\ rule' = "found" /\ varid' = var
               /\ var \in DOMAIN ncfile /\ hint \in DOMAIN Query[key]
               /\ ncfile[var][attribute] = Query[key][hint]
            \/ rule' = next /\ varid' = varid /\ NoneOf(key, attribute) /\ hint' = 1 /\ var' = 1
            \/ rule' = rule /\ varid' = varid /\ NoneSoFar(key, attribute)'
<1>0. ncfile' = ncfile
  BY DEF TryNames, Return, TryRule
<1>1. CASE hint > Len(Query[key])
  BY <1>0, <1>1 DEF TryNames, TryRule, NoneSoFar, NoneOf, IsFile
<1>2. CASE hint <= Len(Query[key]) /\ var > Len(ncfile)
  BY <1>0, <1>2 DEF TryNames, NoneSoFar, IsFile
<1>3. CASE hint <= Len(Query[key]) /\ var <= Len(ncfile) /\ ncfile[var][attribute] = Query[key][hint]
  BY <1>0, <1>3 DEF TryNames, Return, IsFile
<1>4. CASE hint <= Len(Query[key]) /\ var <= Len(ncfile) /\ ncfile[var][attribute] # Query[key][hint]
  BY <1>0, <1>4 DEF TryNames, NoneSoFar, IsFile
<1> QED BY <1>1, <1>2, <1>3, <1>4 DEF IsFile

-----------------------------------------------------------------------------
LEMMA InitFinderInv == IsFile /\ rule = "standard" /\ hint = 1 /\ var = 1 /\ varid = NotFound => FinderInv
BY DEF FinderInv, StandardSoFar, IsFile

\* Every step of the finder keeps the invariant.
LEMMA FinderInvStep == FinderInv /\ FinderNext => FinderInv'
<1> SUFFICES ASSUME FinderInv, FinderNext PROVE FinderInv'
  OBVIOUS
<1> USE DEF FinderInv
<1>q. /\ DOMAIN Query.alts = 1 .. Len(Query.alts) /\ Len(Query.alts) \in Nat
      /\ DOMAIN Query.longs = 1 .. Len(Query.longs) /\ Len(Query.longs) \in Nat
      /\ DOMAIN Query.names = 1 .. Len(Query.names) /\ Len(Query.names) \in Nat
  BY QueryAssumption
<1>1. CASE standard_name
  <2>0. ncfile' = ncfile /\ IsFile'
    BY <1>1 DEF standard_name, Return, TryRule, IsFile
  <2>1. CASE var <= Len(ncfile)
    <3>1. StandardSoFar'
      BY <1>1, <2>0, <2>1 DEF standard_name, StandardSoFar, IsFile, NotFound
    <3> QED BY <1>1, <2>0, <2>1, <3>1 DEF standard_name
  <2>2. CASE var > Len(ncfile) /\ varid # NotFound
    <3>1. Best(varid)
      BY <1>1, <2>2, StandardIsBest DEF standard_name
    <3>2. rule' = "found" /\ varid' = varid /\ hint' = hint /\ var' = var
      BY <1>1, <2>2 DEF standard_name, Return, IsFile
    <3>3. Best(varid)'
      BY <3>1, <3>2, <2>0 DEF Best, Matches, MatchesBy
    <3> QED BY <2>0, <3>2, <3>3
  <2>3. CASE var > Len(ncfile) /\ varid = NotFound
    <3>1. NoStandard
      BY <1>1, <2>3 DEF standard_name, StandardSoFar, NoStandard, IsFile
    <3>2. rule' = "alternative" /\ hint' = 1 /\ var' = 1 /\ varid' = NotFound
      BY <1>1, <2>3 DEF standard_name, TryRule, IsFile
    <3>3. NoStandard' /\ NoneSoFar("alts", "std")'
      BY <1>q, <2>0, <3>1, <3>2 DEF NoStandard, NoneSoFar, IsFile
    <3> QED BY <2>0, <3>2, <3>3
  <2> QED BY <2>1, <2>2, <2>3 DEF IsFile
<1>2. CASE alt_std_names
  <2>1. /\ rule = "alternative" /\ NoStandard /\ NoneSoFar("alts", "std") /\ varid = NotFound
        /\ TryNames("alts", "std", "long")
    BY <1>2 DEF alt_std_names
  <2>2. /\ ncfile' = ncfile /\ IsFile' /\ hint' \in Nat \ {0} /\ var' \in Nat \ {0}
        /\ \/ /\ rule' = "found" /\ varid' = var
              /\ var \in DOMAIN ncfile /\ hint \in DOMAIN Query["alts"]
              /\ ncfile[var]["std"] = Query["alts"][hint]
           \/ rule' = "long" /\ varid' = varid /\ NoneOf("alts", "std") /\ hint' = 1 /\ var' = 1
           \/ rule' = rule /\ varid' = varid /\ NoneSoFar("alts", "std")'
    BY <2>1, <1>q, TryNamesStep
  <2>3. CASE rule' = "found"
    <3>1. Best(var) /\ varid' = var
      BY <2>1, <2>2, <2>3, NamedIsBest
    <3>2. Best(varid)'
      BY <2>2, <3>1 DEF Best, Matches, MatchesBy
    <3> QED BY <2>2, <2>3, <3>2
  <2>4. CASE rule' = "long"
    <3>1. NoStandard' /\ NoneOf("alts", "std")' /\ NoneSoFar("longs", "long")'
      BY <1>q, <2>1, <2>2, <2>4 DEF NoStandard, NoneOf, NoneSoFar, IsFile
    <3> QED BY <2>1, <2>2, <2>4, <3>1
  <2>5. CASE rule' = "alternative"
    <3>1. NoStandard' /\ NoneSoFar("alts", "std")'
      BY <2>1, <2>2, <2>5 DEF NoStandard
    <3> QED BY <2>1, <2>2, <2>5, <3>1
  <2> QED BY <2>1, <2>2, <2>3, <2>4, <2>5
<1>3. CASE long_name_hints
  <2>1. /\ rule = "long" /\ NoStandard /\ NoneOf("alts", "std") /\ NoneSoFar("longs", "long")
        /\ varid = NotFound /\ TryNames("longs", "long", "name")
    BY <1>3 DEF long_name_hints
  <2>2. /\ ncfile' = ncfile /\ IsFile' /\ hint' \in Nat \ {0} /\ var' \in Nat \ {0}
        /\ \/ /\ rule' = "found" /\ varid' = var
              /\ var \in DOMAIN ncfile /\ hint \in DOMAIN Query["longs"]
              /\ ncfile[var]["long"] = Query["longs"][hint]
           \/ rule' = "name" /\ varid' = varid /\ NoneOf("longs", "long") /\ hint' = 1 /\ var' = 1
           \/ rule' = rule /\ varid' = varid /\ NoneSoFar("longs", "long")'
    BY <2>1, <1>q, TryNamesStep
  <2>3. CASE rule' = "found"
    <3>1. Best(var) /\ varid' = var
      BY <2>1, <2>2, <2>3, NamedIsBest
    <3>2. Best(varid)'
      BY <2>2, <3>1 DEF Best, Matches, MatchesBy
    <3> QED BY <2>2, <2>3, <3>2
  <2>4. CASE rule' = "name"
    <3>1. /\ NoStandard' /\ NoneOf("alts", "std")' /\ NoneOf("longs", "long")'
          /\ (\A h \in DOMAIN Query.names, v \in DOMAIN ncfile :
                h < hint => ncfile[v].name # Query.names[h])'
      BY <1>q, <2>1, <2>2, <2>4 DEF NoStandard, NoneOf, IsFile
    <3> QED BY <2>1, <2>2, <2>4, <3>1
  <2>5. CASE rule' = "long"
    <3>1. NoStandard' /\ NoneOf("alts", "std")' /\ NoneSoFar("longs", "long")'
      BY <2>1, <2>2, <2>5 DEF NoStandard, NoneOf
    <3> QED BY <2>1, <2>2, <2>5, <3>1
  <2> QED BY <2>1, <2>2, <2>3, <2>4, <2>5
<1>4. CASE var_name_hints
  <2>1. /\ rule = "name" /\ NoStandard /\ NoneOf("alts", "std") /\ NoneOf("longs", "long")
        /\ varid = NotFound
        /\ \A h \in DOMAIN Query.names, v \in DOMAIN ncfile : h < hint => ncfile[v].name # Query.names[h]
    BY <1>4 DEF var_name_hints
  <2>0. ncfile' = ncfile /\ IsFile'
    BY <1>4 DEF var_name_hints, Return, IsFile
  <2>2. CASE hint > Len(Query.names)
    <3>1. NoneOf("names", "name")
      BY <1>q, <2>1, <2>2 DEF NoneOf
    <3>2. Best(NotFound)
      BY <2>1, <3>1, NothingFits
    <3>3. rule' = "found" /\ varid' = NotFound /\ hint' = hint /\ var' = var
      BY <1>4, <2>2 DEF var_name_hints, Return
    <3>4. Best(varid)'
      BY <2>0, <3>2, <3>3 DEF Best, Matches, MatchesBy
    <3> QED BY <2>0, <3>3, <3>4
  <2>3. ASSUME hint <= Len(Query.names), NEW v \in DOMAIN ncfile,
               ncfile[v].name = Query.names[hint], Return(v)
        PROVE  FinderInv'
    <3>1. hint \in DOMAIN Query["names"]
      BY <1>q, <2>3
    <3>2. Best(v)
      BY <2>1, <2>3, <3>1, NamedIsBest
    <3>3. rule' = "found" /\ varid' = v /\ hint' = hint /\ var' = var
      BY <2>3 DEF Return
    <3>4. Best(varid)'
      BY <2>0, <3>2, <3>3 DEF Best, Matches, MatchesBy
    <3> QED BY <2>0, <3>3, <3>4
  <2>4. CASE /\ \A v \in DOMAIN ncfile : ncfile[v].name # Query.names[hint]
             /\ hint' = hint + 1 /\ UNCHANGED <<ncfile, rule, var, varid>>
    <3>1. (\A h \in DOMAIN Query.names, v \in DOMAIN ncfile :
             h < hint => ncfile[v].name # Query.names[h])'
      BY <1>q, <2>1, <2>4
    <3>2. NoStandard' /\ NoneOf("alts", "std")' /\ NoneOf("longs", "long")'
      BY <2>1, <2>4 DEF NoStandard, NoneOf
    <3> QED BY <2>0, <2>1, <2>4, <3>1, <3>2
  <2> QED BY <1>4, <1>q, <2>2, <2>3, <2>4 DEF var_name_hints
<1> QED BY <1>1, <1>2, <1>3, <1>4 DEF FinderNext

LEMMA FinderInvUnchanged == FinderInv /\ UNCHANGED finderVars => FinderInv'
BY DEF FinderInv, finderVars, IsFile, NoStandard, NoneOf, StandardSoFar, NoneSoFar, Best, Matches, MatchesBy

LEMMA FinderInvPicks == FinderInv => PicksBest
BY DEF FinderInv, PicksBest, Best

\* find_var_by_cf keeps what its comment promises (ncdf.cpp:512), for any file, with
\* any number of variables, and any lists of names: the variable it returns has the
\* best match, and it returns none only when nothing matches.
THEOREM FinderPicksBest == FinderSpec => []PicksBest
<1>1. FinderInit => FinderInv
  BY NcFilesAssumption, InitFinderInv DEF FinderInit, IsFile
<1>2. FinderInv /\ [FinderNext]_finderVars => FinderInv'
  BY FinderInvStep, FinderInvUnchanged
<1> QED BY <1>1, <1>2, FinderInvPicks, PTL DEF FinderSpec
=============================================================================
