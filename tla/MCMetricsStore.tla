--------------------------- MODULE MCMetricsStore ---------------------------
(* Instances of MetricsStore for TLC. *)
EXTENDS MetricsStore, TLC

CONSTANTS d1, d2, t1, t2

Lines(dirs, techs, invals, users) ==
    [dir : dirs, tech : techs, inval : invals, user : users]

OneTech == {<<t1, t1>>}
TwoTechs == {<<t1, t1>>, <<t2, t2>>}

MostOptions == Lines({d1}, {t1}, BOOLEAN, BOOLEAN) \union
               Lines({d2}, {t1}, {FALSE}, {FALSE}) \union
               Lines({d1}, {t2}, {FALSE}, {FALSE})

(* The cache and d2 are removed while runs use them, d1 is not. *)
OverlapOptions == Lines({d1}, {t1}, {FALSE}, {FALSE}) \union
                  Lines({d2}, {t1}, BOOLEAN, {FALSE})

Symmetric == Permutations(Runs) \union Permutations(Values)

=============================================================================
