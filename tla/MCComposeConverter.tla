------------------------- MODULE MCComposeConverter -------------------------
(* ComposeConverter for TLC: a file with one service and a named volume, one *)
(* with a database and counts of its own, and one that does not parse; and   *)
(* .env files with a key set twice, with a value that holds a reference, and *)
(* without any key.                                                          *)
EXTENDS ComposeConverter

CONSTANTS plain, own, bad

MCName == {"img", "latest", "TAG", "KEY", "DIR", "data", "srv", "v", "w", "postgres",
           "POSTGRES_PASSWORD"}
MCSource == {plain, own, bad}

Item(key, text) == [key |-> key, text |-> text, string |-> TRUE]
NoString(key)   == [key |-> key, text |-> << >>, string |-> FALSE]

\* image: img:${TAG:-latest}
\* environment: [KEY=$KEY, 5], volumes: [data, "$DIR/data:/data"]
Plain == [image |-> <<"img", ":", "$", "{", "TAG", "-", "latest", "}">>,
          env |-> <<Item(<< >>, <<"KEY", "=", "$", "KEY">>), NoString(<< >>)>>,
          volumes |-> {<<"data">>, <<"$", "DIR", "/", "data", ":", "/", "data">>},
          replicas |-> 0, standby |-> 0]

\* image: postgres:$TAG, environment: {POSTGRES_PASSWORD: $KEY}
Counted == [image |-> <<"postgres", ":", "$", "TAG">>,
            env |-> <<Item(Password, <<"$", "KEY">>)>>,
            volumes |-> {<<"data", ":", "/", "data">>},
            replicas |-> 2, standby |-> 1]

Devices == [n \in {<<"data">>} |-> <<"/", "srv">>]
PlainFile == [services |-> [s \in {"web"} |-> Plain], devices |-> Devices]
OwnFile == [services |-> [s \in {"db"} |-> Counted], devices |-> Devices]
MCContent == [f \in MCSource |->
  IF f = plain THEN PlainFile ELSE IF f = own THEN OwnFile ELSE Broken]

MCGlobalValues == {Defaults, [Defaults EXCEPT !.replicas = 3]}
MCServiceValues == {Defaults, [Defaults EXCEPT !.replicas = 0],
                    [Defaults EXCEPT !.replicas = 3], [Defaults EXCEPT !.standby = 2],
                    [Defaults EXCEPT !.userns = TRUE]}

Line(k, v) == [key |-> k, val |-> v]
MCEnvTexts ==
  {<<Line(<<"TAG">>, <<"v">>), Line(<<"TAG">>, << >>), Line(<<"KEY">>, <<"w">>)>>,
   <<Line(<<"TAG">>, <<"w">>), Line(<<"KEY">>, <<"$", "TAG">>)>>,
   <<Line(<< >>, << >>)>>}

-----------------------------------------------------------------------------
(* Interpolate finds all matches at once.  The code scans from left to right. *)

RECURSIVE Scan(_, _, _)
Scan(t, i, e) ==
  IF i > Len(t) THEN << >>
  ELSE IF RefsAt(t, i) = {} THEN <<t[i]>> \o Scan(t, i + 1, e)
  ELSE LET r == CHOOSE r \in RefsAt(t, i) : TRUE
       IN ValueOf(r, e) \o Scan(t, r.end + 1, e)

Values == [n \in {<<"KEY">>} |-> <<"v">>]
ShortTexts == UNION {[1 .. n -> {"$", "{", "}", "-", "KEY", "TAG"}] : n \in 0 .. 6}

ASSUME LeftToRight ==
  \A t \in ShortTexts :
    /\ \A i \in 1 .. Len(t) : Cardinality(RefsAt(t, i)) <= 1
    /\ Interpolate(t, Values) = Scan(t, 1, Values)

\* Why the precondition is there: $$KEY, compose's way to write "$KEY", becomes
\* "$v" on the page and nothing at the API.
ASSUME EscapeIsLost ==
  /\ Interpolate(<<"$", "$", "KEY">>, Values) = <<"$", "v">>
  /\ "v" \in Name => ApiText(<<"$", "v">>) = << >>

=============================================================================
