--------------------------------- MODULE Config --------------------------------
(***************************************************************************)
(* config_open and config_load (src/config.c), and the retention main.c    *)
(* computes from the ranges: from a parsed TOML document to a config_t, or *)
(* to a refusal.  A document is a record of what the loader looks at:      *)
(* numbers are kept, of a string there is whether it fits its field.  The  *)
(* keys that are copied alike are one key here, and the warnings are left  *)
(* out.                                                                    *)
(***************************************************************************)
EXTENDS Integers, Sequences, FiniteSetsExt

CONSTANTS MAX_ALERTS, MAX_RANGES, MAX_CHARTS

ASSUME ConfigAssumption ==
    MAX_ALERTS \in Nat /\ MAX_RANGES \in Nat \ {0} /\ MAX_CHARTS \in Nat

INT_MAX == 2147483647

(* A value by its type: "int", "big" for an integer past INT_MAX,          *)
(* "float", "string", or "none" where the key is missing.                  *)
Value(t, n) == [t |-> t, n |-> n]
Missing == Value("none", 0)
Big == Value("big", INT_MAX)

IsInt(v) == v.t \in {"int", "big"}
IsNumber(v) == IsInt(v) \/ v.t = "float"

(* Mutant: a plain cast, which wraps. *)
to_int_Cast(v) == IF v.t = "big" THEN -1 ELSE v.n

to_int(v) == IF v.t = "big" THEN INT_MAX ELSE v.n

(* The string keys copied with str_copy: the paths and names, each missing *)
(* (or no string), fitting or too long.                                    *)
StrKeys == {"listen", "db", "disk_path", "ca_file", "title"}

(* Strings that are durations, as number and unit. *)
Duration(n, u) == [n |-> n, u |-> u, fits |-> 1]

UnitSeconds == [s |-> 1, m |-> 60, h |-> 3600, d |-> 86400]

(* Ten years of days, and as many of the smaller units. *)
UnitCap == [s |-> 3653 * 86400, m |-> 3653 * 1440, h |-> 3653 * 24, d |-> 3653]

(* What the parser can hand to the loader: of an integer past INT_MAX the  *)
(* size is not kept, "x" is any other unit, and a key of a wrong type is   *)
(* one that is missing where the loader does not tell them apart.          *)
Values ==
    {v \in [t : {"int", "big", "float", "string", "none"}, n : Int] :
        (v.t = "int" => v.n <= INT_MAX) /\ (v.t = "big" => v.n = INT_MAX)}

Durations == [n : Int, u : DOMAIN UnitSeconds \cup {"x"}, fits : {0, 1}]

AlertTables ==
    [keys : {"good", "bad"}, operator : {"known", "==", "unknown"}, metric : {"known", "unknown"},
     threshold : Values, name : {"fits", "long"}, webhook : {"none", "empty", "fits", "long"},
     command : {"none", "empty", "fits", "long"},
     cooldown : [t : {"none", "string"}, r : Durations]]

IsDocument(d) ==
    d.from = "nowhere" \/ d.parses = 0 \/
    /\ \A v \in {d.max_dashboards, d.keepalive, d.interval, d.refresh, d.speed} : v \in Values
    /\ d.strs \in [StrKeys -> {"none", "fits", "long"}]
    /\ d.charts.l \in Seq({"known", "unknown", "other", "long"})
    /\ d.ranges.l \in Seq(Durations)
    /\ d.alerts.l \in Seq(AlertTables)

parse_duration(r) ==
    IF r.u \in DOMAIN UnitCap /\ r.n \in 1..UnitCap[r.u] THEN r.n * UnitSeconds[r.u] ELSE -1

valid_range(r) == r.u \in {"m", "h", "d"} /\ r.n > 0

range_in_bounds(r) == r.n <= [m |-> 120, h |-> 72, d |-> 3653][r.u]

(* config_defaults *)
Defaults == [
    rc |-> 0, too_long |-> 0,
    strs |-> [k \in StrKeys |-> "default"],
    max_dashboards |-> 4, keepalive |-> 1, interval |-> 60, refresh |-> 30,
    insecure |-> 0, unit |-> "default", net_max_speed |-> 0, charts |-> 0,
    ranges |-> <<Duration(1, "d"), Duration(7, "d"), Duration(30, "d"), Duration(90, "d")>>,
    alerts |-> <<>>]

(* `return -1`, the document freed. *)
Refused(c) == [c EXCEPT !.rc = -1]

(* Mutant: a later string that fits makes up for one that did not. *)
Long_Overwritten(c, copied) == [c EXCEPT !.too_long = IF "long" \in copied THEN 1 ELSE 0]

(* too_long |= str_copy(...) != 0, for each of the strings copied. *)
Long(c, copied) == [c EXCEPT !.too_long = IF "long" \in copied THEN 1 ELSE @]

str_copy(c, d, k) ==
    [Long(c, {d.strs[k]}) EXCEPT !.strs[k] = IF d.strs[k] = "fits" THEN "set" ELSE @]

Server(c, d) ==
    LET md == d.max_dashboards
        ka == d.keepalive
    IN IF IsInt(md) /\ md.n < 1 THEN Refused(c)
       ELSE [str_copy(c, d, "listen") EXCEPT
               !.max_dashboards = IF IsInt(md) /\ md.n <= 256 THEN md.n ELSE @,
               !.keepalive = IF IsInt(ka) /\ ka.n > 0 THEN to_int(ka) ELSE @]

Interval(c, d) ==
    LET v == d.interval IN
    IF v.t = "string" \/ (IsInt(v) /\ v.n < 1) THEN Refused(c)
    ELSE [c EXCEPT !.interval = IF ~IsInt(v) THEN @ ELSE IF v.n > 3600 THEN 3600 ELSE v.n]

(* A disk_path that statvfs does not accept is refused; where it is too    *)
(* long, the default is looked at.                                         *)
Collect(c, d) ==
    LET paths == str_copy(str_copy(c, d, "db"), d, "disk_path") IN
    IF d.strs["disk_path"] = "fits" /\ d.disk_ok = 0 THEN Refused(c) ELSE paths

(* A ca_file must hold a certificate, unless it is not used. *)
Webhook(c, d) ==
    IF d.strs["ca_file"] = "fits" /\ d.insecure = 0 /\ d.has_certificate = 0 THEN Refused(c)
    ELSE [str_copy(c, d, "ca_file") EXCEPT !.insecure = d.insecure]

(* The charts (the cards alike): names not known are left out, none is     *)
(* looked at once there are MAX_CHARTS, and an empty list is told from     *)
(* none.                                                                   *)
Charts(c, d) ==
    LET Known(names) == {k \in names : d.charts.l[k] = "known"}
        seen == {k \in DOMAIN d.charts.l : Cardinality(Known(1..(k - 1))) < MAX_CHARTS}
    IN IF d.charts.t # "list" THEN c
       ELSE IF d.charts.l = <<>> THEN [c EXCEPT !.charts = -1]
       ELSE [Long(c, {d.charts.l[k] : k \in seen}) EXCEPT !.charts = Cardinality(Known(seen))]

Speeds == 1..1000000

Dashboard(c, d) ==
    Charts([str_copy(c, d, "title") EXCEPT
              !.refresh = IF IsInt(d.refresh) /\ d.refresh.n > 0 THEN to_int(d.refresh) ELSE @,
              !.unit = IF d.unit = "known" THEN "set" ELSE @,
              !.net_max_speed =
                 IF IsInt(d.speed) /\ d.speed.n \in Speeds THEN d.speed.n ELSE @], d)

Usable(c, r) == valid_range(r) /\ range_in_bounds(r) /\ parse_duration(r) >= c.interval

(* Those of the entries that are usable, in their order. *)
UsableOf(c, l) ==
    LET kept[n \in 0..Len(l)] ==
          IF n = 0 THEN <<>>
          ELSE IF Usable(c, l[n]) THEN Append(kept[n - 1], l[n]) ELSE kept[n - 1]
    IN  kept[Len(l)]

Ranges(c, d) ==
    LET kept == UsableOf(c, d.ranges.l)
    IN IF d.ranges.t # "list" \/ d.ranges.l = <<>> THEN c
       ELSE IF Len(d.ranges.l) > MAX_RANGES \/ kept = <<>> THEN Refused(c)
       ELSE [c EXCEPT
               !.ranges = kept,
               !.too_long = IF \E k \in DOMAIN kept : kept[k].fits = 0 THEN 1 ELSE @]

(* An [[alert]] is refused for a key that is missing, of the wrong type or *)
(* unknown; and where it has no action, an empty string or one too long    *)
(* being none.                                                             *)
BadAlert(a) ==
    \/ a.keys = "bad" \/ a.operator # "known" \/ a.metric # "known"
    \/ ~IsNumber(a.threshold)
    \/ a.webhook # "fits" /\ a.command # "fits"

AlertOf(a) ==
    [webhook |-> a.webhook, command |-> a.command,
     cooldown |-> IF a.cooldown.t = "string" /\ parse_duration(a.cooldown.r) > 0
                  THEN parse_duration(a.cooldown.r) ELSE 0]

Alerts(c, d) ==
    LET l == d.alerts.l
    IN IF d.alerts.t = "none" THEN c
       ELSE IF \/ d.alerts.t # "list" \/ Len(l) > MAX_ALERTS
               \/ \E k \in DOMAIN l : BadAlert(l[k])
       THEN Refused(c)
       ELSE [Long(c, UNION {{l[k].name, l[k].webhook, l[k].command} : k \in DOMAIN l}) EXCEPT
               !.alerts = [k \in DOMAIN l |-> AlertOf(l[k])]]

(* The end of config_load: what did not fit, and refresh. *)
Clamp(c, d) ==
    IF c.too_long = 1 THEN Refused(c)
    ELSE [c EXCEPT !.refresh = IF @ > c.interval THEN c.interval ELSE @]

Then(c, Section(_, _), d) == IF c.rc # 0 THEN c ELSE Section(c, d)

(* The sections in order, each unless one before it was refused. *)
config_load(d) ==
    IF d.parses = 0 THEN Refused(Defaults)
    ELSE Then(Then(Then(Then(Then(Then(Then(Then(Defaults,
             Server, d), Interval, d), Collect, d), Webhook, d), Dashboard, d),
             Ranges, d), Alerts, d), Clamp, d)

(* The file named by --config, the first of the usual two that is there,   *)
(* or none.                                                                *)
config_open(d) == IF d.from = "nowhere" THEN Defaults ELSE config_load(d)

range_to_days(r) ==
    LET per == [m |-> 1440, h |-> 24, d |-> 1][r.u] IN (r.n + per - 1) \div per

retention_days(c) ==
    LET most == Max({0} \cup {range_to_days(c.ranges[k]) : k \in DOMAIN c.ranges})
    IN  IF most > 0 THEN most ELSE 90
--------------------------------------------------------------------------------
(* What a configuration promises, of a document d and the result c. *)

(* What the other parts take for granted of a configuration that loaded:   *)
(* the loop an interval of 1 s to 1 h, the streams a refresh no slower     *)
(* than it, the pool its size, the queries ranges no shorter than the      *)
(* interval, alerts_evaluate an action for each alert.                     *)
Sound(c) ==
    /\ c.interval \in 1..3600
    /\ c.refresh \in 1..c.interval
    /\ c.keepalive \in 1..INT_MAX
    /\ c.max_dashboards \in 1..256
    /\ c.ranges # <<>>
    /\ \A k \in DOMAIN c.ranges : parse_duration(c.ranges[k]) >= c.interval
    /\ \A k \in DOMAIN c.alerts :
         c.alerts[k].webhook = "fits" \/ c.alerts[k].command = "fits"

(* A list's usable entries are the ranges, in the order of the list. *)
UsableUpto(c, l, n) == {k \in 1..n : Usable(c, l[k])}

Listed(l, c) ==
    /\ Len(l) <= MAX_RANGES
    /\ Len(c.ranges) = Cardinality(UsableUpto(c, l, Len(l)))
    /\ \A n \in UsableUpto(c, l, Len(l)) :
         c.ranges[Cardinality(UsableUpto(c, l, n))] = l[n]

(* An alert is its table: the actions, and the cooldown if it has one. *)
SameAlert(a, t) ==
    /\ a.webhook = t.webhook /\ a.command = t.command
    /\ LET cooldown == parse_duration(t.cooldown.r)
       IN  t.cooldown.t = "string" /\ cooldown > 0 => a.cooldown = cooldown

(* What is not left out is whole: every string copied is, every table is   *)
(* an alert, no list is longer than the ranges there is room for, and of a *)
(* list every entry that can be a tab is one.  An entry past its unit's    *)
(* limit, or shorter than the interval, cannot.                            *)
Whole(d, c) ==
    /\ \A k \in StrKeys : d.strs[k] = "none" => c.strs[k] = "default"
    /\ \A k \in StrKeys : d.strs[k] # "none" => d.strs[k] = "fits" /\ c.strs[k] = "set"
    /\ d.alerts.t = "list" =>
         /\ DOMAIN c.alerts = DOMAIN d.alerts.l
         /\ \A k \in DOMAIN c.alerts :
              SameAlert(c.alerts[k], d.alerts.l[k]) /\ d.alerts.l[k].name = "fits"
    /\ \A k \in DOMAIN c.alerts : c.alerts[k].webhook # "long" /\ c.alerts[k].command # "long"
    /\ d.ranges.t = "list" /\ d.ranges.l # <<>> => Listed(d.ranges.l, c)
    /\ \A k \in DOMAIN c.ranges : c.ranges[k].fits = 1

(* The tabs never show more than db_prune keeps. *)
Kept(c) ==
    \A k \in DOMAIN c.ranges : parse_duration(c.ranges[k]) <= retention_days(c) * 86400
================================================================================
