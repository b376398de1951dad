-------------------------------- MODULE Steps --------------------------------
(***************************************************************************)
(* What a phase of a build is made of: pairs of shell programs, one that    *)
(* looks and one that acts (internal/engine/shell.go), and the two kinds    *)
(* of pair every add-on is built from (internal/rke2/manifest.go).          *)
(*                                                                         *)
(* The machines and the cluster are a world: a function from locations to  *)
(* what is there.  A location is a tuple of names that starts with a host  *)
(* or with "cluster".                                                      *)
(***************************************************************************)
EXTENDS Sequences, SequencesExt

\* What f has, and what g has elsewhere: TLC's @@, which no prover knows.
f ++ g ==
    CHOOSE h \in {[l \in DOMAIN a \cup DOMAIN b |-> IF l \in DOMAIN a THEN a[l] ELSE b[l]] :
                  a \in {f}, b \in {g}} : TRUE
Just(loc, value) == [l \in {loc} |-> value]

\* A step.  Its Check compares what is at some locations with a value
\* (finds), some fields of it with those of a record (carries), all of it with
\* what is at another one (agrees), or asks only whether something is there
\* (present).  Its Do works where needs is there, demands
\* is as it says and suits is either not there or as it says; it then
\* writes, in that order.
Step(id, host) ==
    [id |-> id, host |-> host, finds |-> {}, carries |-> {}, agrees |-> {}, present |-> {},
     needs |-> {}, demands |-> {}, suits |-> {}, writes |-> <<>>]

\* A write, of everything that comes about at once: parts of one object,
\* what one apply makes, what a process reads as it starts.
NoWrite == [put |-> <<>>, read |-> <<>>, keep |-> <<>>, drop |-> {}]
PutAll(f) == [NoWrite EXCEPT !.put = f]
ReadAll(f) == [NoWrite EXCEPT !.read = f]
Keep(loc, value) == [NoWrite EXCEPT !.keep = Just(loc, value)]
Drop(loc) == [NoWrite EXCEPT !.drop = {loc}]
Put(loc, value) == PutAll(Just(loc, value))
Copy(loc, from) == ReadAll(Just(loc, from))
Together(x, y) ==
    [put |-> x.put ++ y.put, read |-> x.read ++ y.read, keep |-> x.keep ++ y.keep,
     drop |-> x.drop \cup y.drop]

Is(w, loc, value) == loc \in DOMAIN w /\ w[loc] = value

\* Exit zero of the Check: what it looks at is as the document says.
Holds(s, w) ==
    /\ \A p \in s.finds : Is(w, p[1], p[2])
    /\ \A p \in s.carries : p[1] \in DOMAIN w /\ \A k \in DOMAIN p[2] : w[p[1]][k] = p[2][k]
    /\ \A p \in s.agrees : p[1] \in DOMAIN w /\ p[2] \in DOMAIN w /\ w[p[1]] = w[p[2]]
    /\ s.present \subseteq DOMAIN w

\* Whether the Do can come to its end.
CanDo(s, w) ==
    /\ s.needs \subseteq DOMAIN w
    /\ \A p \in s.demands : Is(w, p[1], p[2])
    /\ \A p \in s.suits : p[1] \in DOMAIN w => w[p[1]] = p[2]

Write(w, x) ==
    x.put ++ [l \in {k \in DOMAIN x.read : x.read[k] \in DOMAIN w} |-> w[x.read[l]]]
          ++ [l \in DOMAIN x.keep \ DOMAIN w |-> x.keep[l]]
          ++ (IF x.drop = {} THEN w ELSE [l \in DOMAIN w \ x.drop |-> w[l]])

\* The world after some writes, one upon the other.
Through(w, writes) ==
    LET after[n \in 0..Len(writes)] == IF n = 0 THEN w ELSE Write(after[n - 1], writes[n])
    IN  after[Len(writes)]

\* The world after the first n writes of a Do, and after all of them.
Partly(s, w, n) == Through(w, SubSeq(s.writes, 1, n))
Done(s, w) == Through(w, s.writes)

\* Where the step would still change something, whether its Check looks
\* there or not.
Unmet(s, w) == LET d == Done(s, w) IN {l \in DOMAIN d : ~Is(w, l, d[l])}

-----------------------------------------------------------------------------
\* A step built to fail: the phase found, while it put its steps together,
\* that it cannot run.
FailedStep(id, host) == [Step(id, host) EXCEPT !.needs = {<<host, "never">>},
                                               !.present = {<<host, "never">>}]

\* A file compared and written byte for byte.
FileStep(id, host, name, body) ==
    [Step(id, host) EXCEPT !.finds = {<<<<host, name>>, body>>},
                           !.writes = <<Put(<<host, name>>, body)>>]

Object(name) == <<"cluster", name>>
API == <<"cluster", "api">>

\* Objects of the cluster, kept as a file in the directory RKE2 applies new
\* contents from, and applied at once as well.  The Check compares the file
\* and asks for one of the objects.  RKE2 applies the file whether or not the
\* command lives on, so the file and the objects come together; what an
\* object says is what the file says, and not kept apart.
ManifestsStep(id, host, body, resource, objects) ==
    [Step(id, host) EXCEPT
     !.finds = {<<<<host, id>>, body>>}, !.present = {resource}, !.needs = {API},
     !.writes = <<Together(Put(<<host, id>>, body), PutAll([o \in objects |-> "applied"]))>>]

ManifestStep(id, host, body, object) == ManifestsStep(id, host, body, object, {object})

\* A wait: the same question in the Check and in the Do, and the Do asks it
\* until what it waits for has come of what it depends on.
WaitStep(id, host, loc, needs) ==
    [Step(id, host) EXCEPT !.present = {loc}, !.needs = needs \cup {API},
                           !.writes = <<Put(loc, "ready")>>]

\* A chart's webhook answers a dry run of what the document will ask of it.
AcceptsStep(id, host, what, needs) == WaitStep(id, host, Object(what), needs)

\* Where a chart comes from: an archive carried in, the document's
\* repository (whole, when it is an OCI one), or upstream.
ChartSource(content, repo, upstream) ==
    IF content # "" THEN [content |-> content, repo |-> ""]
    ELSE [content |-> "", repo |-> IF repo # "" THEN repo ELSE upstream]

\* What fetching it takes.
ChartNeeds(source, upstream) ==
    IF source.content # "" THEN {}
    ELSE IF source.repo = upstream THEN {<<"site", "internet">>} ELSE {<<"site", "charts">>}

When(cond, steps) == IF cond THEN steps ELSE <<>>

=============================================================================
