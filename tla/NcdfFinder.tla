----------------------------- MODULE NcdfFinder -----------------------------
(***************************************************************************)
(* find_var_by_cf (src/src/ncdf.cpp): which variable of a NetCDF file holds *)
(* a quantity.  nc_get asks it for each layer and each coordinate with a    *)
(* list of names; it looks at one attribute of one variable at a time, and *)
(* one action is one turn of one of its loops.                             *)
(*                                                                         *)
(* The NetCDF library is external: it keeps the variables in the order in  *)
(* which they were defined, and no two variables have the same name.       *)
(***************************************************************************)
EXTENDS Integers, Sequences

CONSTANTS
  NcFiles,  \* the files: each a sequence of variables [std, long, name]
  Query,    \* what is looked for: [target, alts, longs, names]
  NoText    \* an attribute that a variable does not have

NotFound == 0

ASSUME QueryAssumption ==
  /\ DOMAIN Query = {"target", "alts", "longs", "names"}
  /\ \A k \in {"alts", "longs", "names"} :
        /\ DOMAIN Query[k] = 1 .. Len(Query[k]) /\ Len(Query[k]) \in Nat
        /\ \A h \in DOMAIN Query[k] : Query[k][h] # NoText

ASSUME NcFilesAssumption ==
  \A f \in NcFiles :
    /\ DOMAIN f = 1 .. Len(f) /\ Len(f) \in Nat
    /\ \A v, w \in DOMAIN f : f[v].name = f[w].name => v = w

VARIABLES
  ncfile,   \* the file that is open
  rule,     \* which of the four rules is tried, "found" at the return
  hint,     \* the position in the rule's list of names
  var,      \* the variable looked at
  varid     \* best_varid, the variable to return

finderVars == <<ncfile, rule, hint, var, varid>>

-----------------------------------------------------------------------------
FinderInit ==
  /\ ncfile \in NcFiles
  /\ rule = "standard" /\ hint = 1 /\ var = 1 /\ varid = NotFound

Return(v) == rule' = "found" /\ varid' = v /\ UNCHANGED <<ncfile, hint, var>>

TryRule(r) == rule' = r /\ hint' = 1 /\ var' = 1 /\ UNCHANGED <<ncfile, varid>>

\* Priorities 1 and 2: all variables are looked at, the first that matches counts.
standard_name ==
  /\ rule = "standard"
  /\ IF var <= Len(ncfile)
     THEN /\ varid' = IF varid = NotFound /\ ncfile[var].std = Query.target THEN var ELSE varid
          /\ var' = var + 1
          /\ UNCHANGED <<ncfile, rule, hint>>
     ELSE IF varid # NotFound THEN Return(varid) ELSE TryRule("alternative")

\* Each name of a list in turn is compared with the attribute of every variable.
TryNamesByVariable(key, attribute, next) ==
  IF var > Len(ncfile) THEN TryRule(next)
  ELSE IF hint > Len(Query[key])
       THEN hint' = 1 /\ var' = var + 1 /\ UNCHANGED <<ncfile, rule, varid>>
  ELSE IF ncfile[var][attribute] = Query[key][hint] THEN Return(var)
  ELSE hint' = hint + 1 /\ UNCHANGED <<ncfile, rule, var, varid>>

TryNames(key, attribute, next) ==
  IF hint > Len(Query[key]) THEN TryRule(next)
  ELSE IF var > Len(ncfile)
       THEN hint' = hint + 1 /\ var' = 1 /\ UNCHANGED <<ncfile, rule, varid>>
  ELSE IF ncfile[var][attribute] = Query[key][hint] THEN Return(var)
  ELSE var' = var + 1 /\ UNCHANGED <<ncfile, rule, hint, varid>>

alt_std_names   == rule = "alternative" /\ TryNames("alts", "std", "long")
long_name_hints == rule = "long" /\ TryNames("longs", "long", "name")

\* nc_inq_varid finds a name among all variables at once.
var_name_hints ==
  /\ rule = "name"
  /\ IF hint > Len(Query.names) THEN Return(NotFound)
     ELSE \/ \E v \in DOMAIN ncfile : ncfile[v].name = Query.names[hint] /\ Return(v)
          \/ /\ \A v \in DOMAIN ncfile : ncfile[v].name # Query.names[hint]
             /\ hint' = hint + 1 /\ UNCHANGED <<ncfile, rule, var, varid>>

FinderNext == standard_name \/ alt_std_names \/ long_name_hints \/ var_name_hints

FinderSpec == FinderInit /\ [][FinderNext]_finderVars
-----------------------------------------------------------------------------
(* What the finder promises, whatever order its loops take.  A match is a   *)
(* rule, a position in that rule's list of names, and a variable.           *)

MatchesBy(tier, key, attribute) ==
  {m \in [tier : {tier}, hint : DOMAIN Query[key], id : DOMAIN ncfile] :
     ncfile[m.id][attribute] = Query[key][m.hint]}

Matches ==
  {m \in [tier : {1}, hint : {1}, id : DOMAIN ncfile] : ncfile[m.id].std = Query.target}
    \cup MatchesBy(2, "alts", "std")
    \cup MatchesBy(3, "longs", "long")
    \cup MatchesBy(4, "names", "name")

\* The earlier rule counts first, then the earlier name, then the earlier variable.
Before(m, n) ==
  \/ m.tier < n.tier
  \/ m.tier = n.tier /\ m.hint < n.hint
  \/ m.tier = n.tier /\ m.hint = n.hint /\ m.id < n.id

\* "CF-compliant variable finder with three-tier priority" (ncdf.cpp:512): a variable
\* whose standard name is right wins over any hint, a hint earlier in its list wins
\* over a variable earlier in the file, and a file that has any match is never
\* reported as having none.
PicksBest ==
  rule = "found" =>
    IF varid = NotFound THEN Matches = {}
    ELSE \E m \in Matches : m.id = varid /\ \A n \in Matches : n = m \/ Before(m, n)
=============================================================================
