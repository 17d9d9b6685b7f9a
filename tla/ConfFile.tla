------------------------------ MODULE ConfFile ------------------------------
(***************************************************************************)
(* The configuration file: loading it at start-up, CONFIG SET by any       *)
(* worker, CONFIG REWRITE one option at a time under the file mutex while  *)
(* other workers go on setting options, and crashes between any two steps. *)
(***************************************************************************)
EXTENDS ConfOptions, SequencesExt

CONSTANTS
    Files,        \* the files an operator may write
    Sets,         \* the <<option, conf_value>> pairs clients send with CONFIG SET
    MaxSets,      \* bound: the CONFIG SETs of a behaviour
    MaxEdits      \* bound: the edits of the file in a behaviour

VARIABLES
    proc,   \* the server process: up, its configuration, the rewrite in progress; sets and edits are counts
    disk,   \* the lines of the configuration file
    want    \* what the file was last meant to say (see SaidBy), not a variable of the code

vars == <<proc, disk, want>>

\* A line after sdssplitargs: an option with its arguments, or one of the lines
\* that are none.  "bad" has unbalanced quotes, "org" is a header the loader
\* takes, "closed" one that ends in a bracket.
Line(k, name, args) == [k |-> k, name |-> name, args |-> args]
Opt(o, args) == Line("opt", o, args)
Comment(name) == Line("comment", name, <<>>)
Blank == Line("blank", "", <<>>)
Signature == Line("sig", "", <<>>)
PadLine(n) == Line("pad", "", [i \in 1 .. n |-> Empty])

\* The size of a line in units: the newline, its name and its arguments.
Size(l) == IF l = Blank THEN 1 ELSE IF l.k = "pad" THEN 1 + Len(l.args) ELSE 2 + Len(l.args)
FileSize(f) == FoldLeft(LAMBDA n, l : n + Size(l), 0, f)

\* An argument in quotes that holds a blank is one text, printed again it is two.
Spaced == Word("a b")
Printed(t) == IF t = Spaced THEN <<Word("a"), Word("b")>> ELSE <<t>>

-----------------------------------------------------------------------------
(* Loading *)

\* The organization an option on line i goes to: that of the last header above.
OrgOf(f, i) ==
    LET above == {j \in 1 .. i - 1 : f[j].k = "org"}
    IN  IF above = {} THEN "server" ELSE f[CHOOSE j \in above : \A m \in above : m =< j].name

\* conf_key_value_insert gathers the values of all the lines of an option.
conf_key_value_insert(f, o) ==
    FlattenSeq([i \in DOMAIN f |-> IF f[i].k = "opt" /\ f[i].name = o /\ OrgOf(f, i) = "server"
                                   THEN f[i].args ELSE <<>>])

conf_pre_load_from_string(f) == \A i \in DOMAIN f : f[i].k \notin {"bad", "closed"}
HasServer(f) ==
    \E i \in DOMAIN f : \/ f[i].k = "org" /\ f[i].name = "server"
                        \/ f[i].k = "opt" /\ OrgOf(f, i) = "server"

conf_parse_conf_server(f, luck) ==
    LET given == {o \in Options : conf_key_value_insert(f, o) # <<>>}
        result(o) == opt_set(conf_init, o, conf_key_value_insert(f, o), luck)
    IN  [ok   |-> \A o \in given : result(o).ok,
         conf |-> [val     |-> [o \in Options |-> IF o \in given THEN result(o).conf.val[o]
                                                  ELSE conf_init.val[o]],
                   version |-> Len(SelectSeq(conf_server_options,
                                   LAMBDA p : p.name \in given /\ p.name # "maxmemory-policy"))]]

conf_create(f, luck) ==
    LET parsed == conf_parse_conf_server(f, luck)
    IN  [parsed EXCEPT !.ok = @ /\ conf_pre_load_from_string(f) /\ HasServer(f)]

-----------------------------------------------------------------------------
(* CONFIG REWRITE *)

\* fresh are the lines of options not used again yet (option_to_line).  Lines
\* are read whole: none is longer than the CONFIG_MAX_LINE (1024) bytes that
\* one fgets takes.
rewriteConfigReadOldFile(f) ==
    [lines    |-> [i \in DOMAIN f |-> IF f[i].k = "bad" THEN Comment(f[i].name) ELSE f[i]],
     fresh    |-> {i \in DOMAIN f : f[i].k = "opt"},
     has_tail |-> \E i \in DOMAIN f : f[i].k = "sig"]

\* A mutant that leaves a line used again among the lines to blank.
rewriteConfigRewriteLineKeeps(st, o, line, force) ==
    LET old == {i \in st.fresh : st.lines[i].name = o}
        first == CHOOSE i \in old : \A j \in old : i =< j
    IN  IF old # {} THEN [st EXCEPT !.lines[first] = line] ELSE st

rewriteConfigRewriteLine(st, o, line, force) ==
    LET old == {i \in st.fresh : st.lines[i].name = o}
        first == CHOOSE i \in old : \A j \in old : i =< j
    IN  IF old # {} THEN [st EXCEPT !.lines[first] = line, !.fresh = @ \ {first}]
        ELSE IF ~force THEN st
        ELSE [st EXCEPT !.lines = @ \o (IF st.has_tail THEN <<>> ELSE <<Signature>>) \o <<line>>,
                        !.has_tail = TRUE]

rewriteConfigFormatMemory(bytes) ==
    LET largest == {u \in {"gb", "mb", "kb"} : bytes % Units[u] = 0}
        unit == CHOOSE u \in largest : \A w \in largest : Units[w] =< Units[u]
    IN  IF bytes = 0 \/ largest = {} THEN Digits(bytes, "") ELSE Digits(bytes \div Units[unit], unit)

\* The arguments of the line of an option with one value.
rewriteConfigArgs(o, v) ==
    CASE o = "maxmemory" -> <<rewriteConfigFormatMemory(v)>>
      [] o = "maxmemory-policy" -> <<Word(evictpolicy_strings[v])>>
      [] o \in Passwords -> IF v = <<>> THEN <<Empty>> ELSE Printed(v[1])
      [] OTHER -> <<Digits(v, "")>>
rewriteConfigScalarOption(st, o, v) ==
    rewriteConfigRewriteLine(st, o, Opt(o, rewriteConfigArgs(o, v)), v # conf_server_set_default[o])

\* The addresses are popped off the end of the array: the line has them reversed.
rewriteConfigBindOption(st, v) ==
    IF v = <<>> THEN st ELSE rewriteConfigRewriteLine(st, "bind", Opt("bind", Reverse(v)), TRUE)
rewriteConfigCommandsNAPOption(st, v) ==
    FoldLeft(LAMBDA s, t : rewriteConfigRewriteLine(s, "commands-need-adminpass",
                               Opt("commands-need-adminpass", <<t>>), TRUE), st, Reverse(v))

rewriteConfigOption(st, o, v) ==
    CASE o = "bind" -> rewriteConfigBindOption(st, v)
      [] o = "commands-need-adminpass" -> rewriteConfigCommandsNAPOption(st, v)
      [] OTHER -> rewriteConfigScalarOption(st, o, v)

rewriteConfigRemoveOrphaned(st) ==
    [i \in DOMAIN st.lines |-> IF i \in st.fresh /\ st.lines[i].name \in Options THEN Blank ELSE st.lines[i]]
rewriteConfigGetContentFromState(lines) ==
    LET kept == {i \in DOMAIN lines : lines[i] = Blank => i = 1 \/ lines[i - 1] # Blank}
    IN  [n \in 1 .. Cardinality(kept) |->
            lines[CHOOSE i \in kept : Cardinality({j \in kept : j =< i}) = n]]

-----------------------------------------------------------------------------
(* The process *)

NoRewrite == [at |-> 0]
Down(p) == [up |-> FALSE, sets |-> p.sets, edits |-> p.edits]
\* The order in which rewriteConfig takes the options.
Rewritten ==
    <<"databases", "internal-dbs-per-databases", "maxmemory", "maxmemory-policy", "maxmemory-samples",
      "max-time-complexity-limit", "bind", "port", "threads", "slowlog-log-slower-than", "slowlog-max-len",
      "maxclients", "requirepass", "adminpass", "commands-need-adminpass">>
Steps == Len(Rewritten)

\* What the file is meant to say: for every option the values it may have, and
\* the lines that are no option of the server.  known is FALSE after an edit
\* until the file is loaded or rewritten.
Foreign(f) ==
    LET mine(l) == l.k \in {"blank", "sig", "pad"} \/ (l.k = "opt" /\ l.name \in Options)
        kept == SelectSeq(f, LAMBDA l : ~mine(l))
    IN  [i \in DOMAIN kept |-> kept[i].name]
SaidBy(val, f) == [known |-> TRUE, val |-> [o \in Options |-> {val[o]}], foreign |-> Foreign(f)]

Edit(f) ==
    /\ proc.edits < MaxEdits /\ (proc.up => proc.rw.at = 0)
    /\ disk' = f
    /\ want' = [want EXCEPT !.known = FALSE, !.foreign = Foreign(f)]
    /\ proc' = [proc EXCEPT !.edits = @ + 1]

\* conf_create, and the exit of a server whose file does not load.
Start ==
    /\ ~proc.up
    /\ \E luck \in BOOLEAN :
        LET loaded == conf_create(disk, luck)
        IN  /\ proc' = IF loaded.ok THEN [up |-> TRUE, conf |-> loaded.conf, rw |-> NoRewrite, sets |-> proc.sets, edits |-> proc.edits]
                      ELSE proc
            /\ want' = IF loaded.ok THEN SaidBy(loaded.conf.val, disk) ELSE want
    /\ UNCHANGED disk

Crash == proc.up /\ proc' = Down(proc) /\ UNCHANGED <<disk, want>>

\* Values an option has while a rewrite is in progress may end up in the file.
Seen(rw, val) ==
    IF rw.at = 0 THEN rw ELSE [rw EXCEPT !.seen = [o \in Options |-> @[o] \cup {val[o]}]]

configSetCommand(o, cv) ==
    /\ proc.up /\ proc.sets < MaxSets /\ ~OptionOf(o).no
    /\ LET c == opt_set(proc.conf, o, cv, TRUE).conf
       IN  proc' = [proc EXCEPT !.conf = c, !.rw = Seen(@, c.val), !.sets = @ + 1]
    /\ UNCHANGED <<disk, want>>

\* rewriteConfig takes the file mutex: there is one rewrite at a time.
RewriteRead ==
    /\ proc.up /\ proc.rw.at = 0
    /\ proc' = [proc EXCEPT !.rw = [at   |-> 1, st |-> rewriteConfigReadOldFile(disk),
                                    seen |-> [o \in Options |-> {proc.conf.val[o]}]]]
    /\ UNCHANGED <<disk, want>>

RewriteOption ==
    /\ proc.up /\ proc.rw.at \in 1 .. Steps
    /\ LET o == Rewritten[proc.rw.at]
       IN  proc' = [proc EXCEPT !.rw.at = @ + 1,
                                !.rw.st = rewriteConfigOption(@, o, proc.conf.val[o])]
    /\ UNCHANGED <<disk, want>>

Content(rw) == rewriteConfigGetContentFromState(rewriteConfigRemoveOrphaned(rw.st))

\* rewriteConfigOverwriteFile: one write of the new content and, when it is
\* shorter, of a newline and hash signs up to the old size.  A write that fails
\* leaves the file and ends it.
Padding(content) ==
    LET missing == FileSize(disk) - FileSize(content)
    IN  IF missing =< 0 THEN <<>> ELSE IF missing = 1 THEN <<Blank>> ELSE <<Blank, PadLine(missing - 1)>>
RewriteWrite ==
    /\ proc.up /\ proc.rw.at = Steps + 1
    /\ \/ /\ proc' = [proc EXCEPT !.rw = NoRewrite]
          /\ UNCHANGED <<disk, want>>
       \/ LET padding == Padding(Content(proc.rw)) IN
            /\ disk' = Content(proc.rw) \o padding
            /\ want' = [want EXCEPT !.known = TRUE, !.val = proc.rw.seen]
            /\ proc' = [proc EXCEPT !.rw = IF padding = <<>> THEN NoRewrite ELSE [@ EXCEPT !.at = Steps + 2]]

\* ftruncate, whose failure is ignored.
RewriteTruncate ==
    /\ proc.up /\ proc.rw.at = Steps + 2
    /\ disk' \in {disk, Content(proc.rw)}
    /\ proc' = [proc EXCEPT !.rw = NoRewrite]
    /\ UNCHANGED want

Init ==
    /\ disk \in Files
    /\ proc = [up |-> FALSE, sets |-> 0, edits |-> 0]
    /\ want = [known |-> FALSE, val |-> [o \in Options |-> {}], foreign |-> Foreign(disk)]
Next ==
    \/ \E f \in Files : Edit(f)
    \/ Start \/ Crash
    \/ \E s \in Sets : configSetCommand(s[1], s[2])
    \/ RewriteRead \/ RewriteOption \/ RewriteWrite \/ RewriteTruncate
Spec == Init /\ [][Next]_vars

-----------------------------------------------------------------------------
\* Arrays are compared up to their order.
Same(o, v, ws) == IF o \in Arrays THEN \E w \in ws : Len(w) = Len(v) /\ ToSet(w) = ToSet(v)
                  ELSE v \in ws

\* CONFIG REWRITE is faithful: at every moment, between the write and the
\* truncation and after a crash included, the file loads and gives every option a
\* value it had while the file was written (arrays up to their order), and it
\* holds the comments and the lines that are no option of the server as the
\* operator left them.  Assumed of the values: no refused CONFIG SET left one
\* behind, no password needs quotes.  Files with headers keep them and may not load.
RewriteIsFaithful ==
    /\ want.foreign = Foreign(disk)
    /\ \/ ~want.known
       \/ \E o \in Options : \E v \in want.val[o] : ~Acceptable(o, v)
       \/ \E o \in Passwords : <<Spaced>> \in want.val[o]
       \/ \E i \in DOMAIN disk : disk[i].k \in {"org", "closed"}
       \/ LET loaded == conf_create(disk, TRUE)
          IN  loaded.ok /\ \A o \in Options : Same(o, loaded.conf.val[o], want.val[o])
=============================================================================
