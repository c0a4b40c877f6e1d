------------------------------- MODULE MCServeLoop -----------------------------
(***************************************************************************)
(* Cycles that may outlast two deadlines, and signals early enough for the *)
(* bounded clock to reach the stop after them.  The configuration files    *)
(* are those that differ from a plain one in what is read together: the    *)
(* numbers and the ranges, the strings, the alerts.                        *)
(***************************************************************************)
EXTENDS ServeLoop

List(l) == [t |-> "list", l |-> l]
NoList == [t |-> "none", l |-> <<>>]

NoCooldown == [t |-> "none", r |-> Duration(0, "s")]

Hook == [keys |-> "good", operator |-> "known", metric |-> "known",
         threshold |-> Value("int", 0), name |-> "fits", webhook |-> "fits",
         command |-> "fits", cooldown |-> NoCooldown]

Plain == [from |-> "explicit", parses |-> 1, strs |-> [k \in StrKeys |-> "none"],
          max_dashboards |-> Missing, keepalive |-> Missing, refresh |-> Missing,
          interval |-> Missing, disk_ok |-> 1, insecure |-> 0,
          has_certificate |-> 1, unit |-> "none", speed |-> Missing,
          charts |-> NoList, ranges |-> NoList, alerts |-> NoList]

Ints == {Missing, Big} \cup {Value("int", n) : n \in {0, 1, 3, 3600, 3601}}

Entries ==
    {Duration(1, "m"), Duration(120, "m"), Duration(121, "m"), Duration(0, "h"),
     Duration(1, "h"), Duration(25, "h"), Duration(73, "h"), Duration(3653, "d"),
     Duration(3654, "d"), Duration(1, "x")}

LongRange == [n |-> 7, u |-> "d", fits |-> 0]

(* What the sections pass to one another: the interval. *)
Numbers ==
    {[Plain EXCEPT !.interval = i, !.refresh = f, !.keepalive = k, !.ranges = List(l)] :
        i \in Ints \cup {Value("string", 0)}, f \in {Missing, Big, Value("int", 0), Value("int", 3)}, k \in {Missing, Big},
        l \in {<<>>, <<LongRange>>} \cup {<<a>> : a \in Entries}
              \cup {<<a, Duration(30, "h")>> : a \in Entries}
              \cup {<<a, Duration(1, "d"), Duration(2, "h")>> : a \in Entries}}

Strings ==
    {[Plain EXCEPT !.strs = [k \in StrKeys |-> IF k = x THEN a ELSE IF k = y THEN b ELSE "none"],
                   !.disk_ok = o, !.has_certificate = h, !.insecure = n] :
        x \in StrKeys, y \in StrKeys, a \in {"fits", "long"}, b \in {"none", "fits", "long"},
        o \in {0, 1}, h \in {0, 1}, n \in {0, 1}}

Sizes ==
    {[Plain EXCEPT !.max_dashboards = m, !.charts = l, !.unit = u, !.speed = s] :
        m \in Ints \cup {Value("int", 256), Value("int", 257)}, u \in {"none", "known", "unknown"},
        s \in Ints,
        l \in {NoList, List(<<>>), List(<<"known", "unknown", "long">>),
               List(<<"known", "other", "known", "long">>)}}

MCAlert ==
    {[Hook EXCEPT !.webhook = w, !.command = c, !.name = n, !.cooldown = d] :
        w \in {"none", "empty", "fits", "long"}, c \in {"none", "fits", "long"},
        n \in {"fits", "long"},
        d \in {NoCooldown, [t |-> "string", r |-> Duration(3654, "d")],
               [t |-> "string", r |-> Duration(5, "m")]}}
    \cup {[Hook EXCEPT !.keys = "bad"], [Hook EXCEPT !.operator = "=="],
          [Hook EXCEPT !.metric = "unknown"], [Hook EXCEPT !.threshold = Missing],
          [Hook EXCEPT !.threshold = Value("float", 0)]}

AlertLists ==
    {[Plain EXCEPT !.alerts = l] :
        l \in {[t |-> "table", l |-> <<>>], List(<<Hook, Hook, Hook>>)}
              \cup {List(<<a>>) : a \in MCAlert} \cup {List(<<a, Hook>>) : a \in MCAlert}}

(* Those the loop is followed for. *)
Running ==
    {[Plain EXCEPT !.interval = Value("int", 2), !.alerts = List(<<a>>)] :
        a \in {Hook, [Hook EXCEPT !.command = "none"], [Hook EXCEPT !.webhook = "none"]}}

MCDocs ==
    Numbers \cup Strings \cup Sizes \cup AlertLists \cup Running
    \cup {[Plain EXCEPT !.parses = 0], [Plain EXCEPT !.from = "nowhere"]}

================================================================================
