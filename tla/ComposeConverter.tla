--------------------------- MODULE ComposeConverter ---------------------------
(***************************************************************************)
(* The page "Compose -> P2SER" of the dashboard (src/ui/src/App.jsx):      *)
(* files that are read in the background, the settings of each service,    *)
(* the manifest that an effect of React generates from them, and its       *)
(* deployment; together with what ParseComposeFile of the API makes of     *)
(* that manifest (src/backend/internal/compose/compose_parser.go).         *)
(*                                                                         *)
(* A text is a sequence of tokens, each a sign ("$", "{", "}", "-" or one   *)
(* that means nothing to interpolation) or a word; "-" stands for ":-" too. *)
(* A token is as long as can be: what texts spell is compared by tokens.    *)
(***************************************************************************)
EXTENDS Naturals, SequencesExt

CONSTANTS
  Name,           \* words; any can be in a variable's name (none begins with a digit)
  Source,         \* compose files the user has
  Content,        \* what each parses to, or Broken
  Broken,
  None,           \* JavaScript's null
  EnvTexts,       \* texts of .env files and of the editor
  GlobalValues,   \* what the fields of all services can show
  ServiceValues,  \* what the fields of one service can show
  MaxReplicas,    \* the API's cap (maxReplicas)
  MaxReads,       \* bound on files being read at once
  MaxPresses      \* bound on presses of Deploy

Setting == [replicas : Nat, standby : Nat, userns : BOOLEAN]

ASSUME ValuesAssumption == GlobalValues \subseteq Setting /\ ServiceValues \subseteq Setting
IsSequence(s) == Len(s) \in Nat /\ s = [i \in 1 .. Len(s) |-> s[i]]

\* The entries of a list or of a map: those of a list have no key; those that
\* are no strings have no text.
IsEnvironment(env) ==
  IsSequence(env) /\ \A i \in DOMAIN env :
    /\ DOMAIN env[i] = {"key", "text", "string"}
    /\ IsSequence(env[i].key) /\ IsSequence(env[i].text) /\ env[i].string \in BOOLEAN

IsFile(f) ==
  /\ \A d \in DOMAIN f.devices : IsSequence(f.devices[d])
  /\ \A s \in DOMAIN f.services :
       /\ IsSequence(f.services[s].image)
       /\ \A v \in f.services[s].volumes : IsSequence(v)
       /\ IsEnvironment(f.services[s].env)

\* What the parsers return.
ASSUME TextsAssumption ==
  /\ \A f \in Source : Content[f] # Broken => IsFile(Content[f])
  /\ \A t \in EnvTexts : IsSequence(t) /\ \A i \in DOMAIN t : IsSequence(t[i].val)
ASSUME BoundsAssumption == /\ MaxReplicas \in Nat \ {0}
                           /\ MaxReads \in Nat
                           /\ MaxPresses \in Nat

VARIABLES
  mounted,          \* is the tab shown? leaving it drops all that follows
  parsed, parseError, fileName,
  envText, showEnvPanel,
  globalSettings, serviceSettings,
  outputYaml,       \* the manifest generated last
  ranWith,          \* the dependencies the effect ran with last
  deploying, deployMsg,
  reading,          \* files being read
  flights,          \* POST /compose without an answer
  presses           \* presses of Deploy so far

source == <<parsed, parseError, fileName>>
env == <<envText, showEnvPanel>>
settings == <<globalSettings, serviceSettings>>
output == <<outputYaml, ranWith>>
deployment == <<deploying, deployMsg, flights, presses>>
vars == <<mounted, source, env, settings, output, deployment, reading>>

-----------------------------------------------------------------------------
(* Interpolation *)

\* The tokens from a to b are a name.
IsName(t, a, b) == a <= b /\ \A k \in a .. b : t[k] \in Name

\* $NAME at i, which takes all the words there are.
Bare(t, i, j) == IsName(t, i + 1, j) /\ (j = Len(t) \/ t[j + 1] \notin Name)

\* ${NAME} or ${NAME-default} at i: the name ends at j, the first "}" is at k.
Braced(t, i, j, k) ==
  /\ IsName(t, i + 2, j) /\ t[i + 1] = "{"
  /\ j < k /\ t[k] = "}"
  /\ \/ k = j + 1
     \/ t[j + 1] = "-" /\ \A m \in j + 2 .. k - 1 : t[m] # "}"

\* What the expression matches at i: one reference, or none.
RefsAt(t, i) ==
  IF t[i] # "$" THEN {} ELSE
  {[name |-> SubSeq(t, i + 1, j), alt |-> << >>, end |-> j] :
     j \in {j \in i .. Len(t) : Bare(t, i, j)}}
  \cup
  {[name |-> SubSeq(t, i + 2, w[1]), alt |-> SubSeq(t, w[1] + 2, w[2] - 1), end |-> w[2]] :
     w \in {w \in (i .. Len(t)) \X (i .. Len(t)) : Braced(t, i, w[1], w[2])}}

\* Matches are replaced from left to right.  One that begins within another, in
\* its default, ends within it too, so it is never reached.
Within(t, i) == \E k \in 1 .. i - 1 : \E r \in RefsAt(t, k) : i <= r.end

\* A set variable, else the default, else nothing; an empty value is as unset.
ValueOf(r, e) ==
  IF r.name \in DOMAIN e /\ e[r.name] # << >> THEN e[r.name] ELSE r.alt

\* One pass: what a value or a default contains is not looked at again.
Interpolate(t, e) ==
  FlattenSeq([i \in DOMAIN t |->
    IF Within(t, i) THEN << >>
    ELSE IF RefsAt(t, i) # {} THEN CHOOSE x \in {ValueOf(r, e) : r \in RefsAt(t, i)} : TRUE
    ELSE <<t[i]>>])

\* The last line of a key counts; a line without a key is skipped.
LastLine(lines, k) ==
  lines[CHOOSE i \in DOMAIN lines :
          lines[i].key = k /\ \A j \in DOMAIN lines : lines[j].key = k => j <= i]
ParseEnvText(lines) ==
  [k \in {lines[i].key : i \in DOMAIN lines} \ {<< >>} |-> LastLine(lines, k).val]
EnvVarCount(lines) == Cardinality(DOMAIN ParseEnvText(lines))

-----------------------------------------------------------------------------
(* Conversion.  A count of 0 stands for a key that is absent. *)

Defaults == [replicas |-> 1, standby |-> 0, userns |-> FALSE]

\* The settings of a service, else those of all.
Chosen(cfg, all, s) == IF s \in DOMAIN cfg THEN cfg[s] ELSE all

\* Mutant: the compose file's own count comes first.
GivenOwn(asked, own) == IF own > 0 THEN own ELSE asked

Given(asked, own) == IF asked > 0 THEN asked ELSE own

\* "name:mount" is looked up only when the whole of it has no slash.
FlattenVolume(v, devices) ==
  LET colons == {i \in DOMAIN v : v[i] = ":"}
      end    == IF colons = {} THEN Len(v) + 1 ELSE Min(colons)
      name   == SubSeq(v, 1, end - 1)
  IN IF /\ \A i \in DOMAIN v : v[i] # "/" /\ (i = 1 => v[i] # ".")
        /\ name \in DOMAIN devices
       THEN devices[name] \o <<":">> \o SubSeq(v, end + 1, Len(v))
       ELSE v

\* Keys are left alone, and what is no string.
InterpolatedEnv(list, e) ==
  [i \in DOMAIN list |->
     IF list[i].string THEN [list[i] EXCEPT !.text = Interpolate(@, e)] ELSE list[i]]

\* Mutant: the environment is left to the API to interpolate.
ConvertServiceRaw(svc, cfg, devices, e) ==
  [image    |-> Interpolate(svc.image, e),
   env      |-> svc.env,
   volumes  |-> {FlattenVolume(Interpolate(v, e), devices) : v \in svc.volumes},
   replicas |-> Given(cfg.replicas, svc.replicas),
   standby  |-> Given(cfg.standby, svc.standby),
   userns   |-> cfg.userns]

ConvertService(svc, cfg, devices, e) ==
  [image    |-> Interpolate(svc.image, e),
   env      |-> InterpolatedEnv(svc.env, e),
   volumes  |-> {FlattenVolume(Interpolate(v, e), devices) : v \in svc.volumes},
   replicas |-> Given(cfg.replicas, svc.replicas),
   standby  |-> Given(cfg.standby, svc.standby),
   userns   |-> cfg.userns]

ConvertCompose(file, cfg, all, e) ==
  [s \in DOMAIN file.services |->
     ConvertService(file.services[s], Chosen(cfg, all, s), file.devices, e)]

-----------------------------------------------------------------------------
(* The API's reading of a manifest.  The page names no project and no        *)
(* directory, and HandleCompose passes no variables.                         *)

NoVariables == [n \in {} |-> << >>]
ApiText(t) == Interpolate(t, NoVariables)

Least(a, b) == IF a <= b THEN a ELSE b

\* Entries that are strings, as "KEY=value"; the others are dropped.
Strings(list) == {i \in DOMAIN list : list[i].string}
EnvList(list) == [i \in Strings(list) |-> list[i].key \o ApiText(list[i].text)]

Password == <<"POSTGRES_PASSWORD", "=">>
IsPassword(entry) == Len(entry) >= 2 /\ <<entry[1], entry[2]>> = Password
Passwords(l) == {i \in DOMAIN l : IsPassword(l[i])}

\* The first password, if it is empty, is made up.
MadeUp(l) ==
  [i \in DOMAIN l |->
     IF i \in Passwords(l) /\ (\A j \in Passwords(l) : i <= j) /\ Len(l[i]) = 2
       THEN l[i] \o <<"secret">> ELSE l[i]]

IsPostgres(image) == \E i \in DOMAIN image : image[i] = "postgres"

\* A database gets a password of its own when it has none; n is a free place.
WithPassword(image, l, n) ==
  IF ~IsPostgres(image) THEN l
  ELSE IF Passwords(l) # {} THEN MadeUp(l)
  ELSE [i \in DOMAIN l \cup {n} |-> IF i = n THEN Password \o <<"secret">> ELSE l[i]]

\* What the pods of service s have in common, and how many there are.
PodsOf(s, svc) ==
  [active  |-> Least(IF svc.replicas > 0 THEN svc.replicas ELSE 1, MaxReplicas),
   standby |-> svc.standby,
   image   |-> IF ApiText(svc.image) = << >> THEN <<"default", "-", s>>
               ELSE ApiText(svc.image),
   volumes |-> {ApiText(v) : v \in svc.volumes},
   env     |-> WithPassword(svc.image, EnvList(svc.env), Len(svc.env) + 1),
   userns  |-> svc.userns]

-----------------------------------------------------------------------------
(* The page *)

NoSettings == [s \in {} |-> Defaults]
FreshDeps == <<None, NoSettings, Defaults, None, << >>>>

Init ==
  /\ mounted = TRUE
  /\ parsed = None /\ parseError = FALSE /\ fileName = None
  /\ envText = << >> /\ showEnvPanel = FALSE
  /\ globalSettings = Defaults /\ serviceSettings = NoSettings
  /\ outputYaml = None /\ ranWith = FreshDeps
  /\ deploying = FALSE /\ deployMsg = "none"
  /\ reading = {}
  /\ flights = {} /\ presses = 0

\* Mutant: the text of the variables is left out.
EffectDepsNoEnv == <<parsed, serviceSettings, globalSettings, fileName>>

\* What the effect is declared to depend on.
EffectDeps == <<parsed, serviceSettings, globalSettings, fileName, envText>>

\* React runs a pending effect before it renders another change, but the user
\* may press a button of the page as it was rendered first.
Settled == mounted /\ ranWith = EffectDeps

Generated ==
  IF parsed = None THEN None
  ELSE ConvertCompose(parsed, serviceSettings, globalSettings, ParseEnvText(envText))

Regenerate ==
  /\ mounted /\ ranWith # EffectDeps
  /\ outputYaml' = Generated
  /\ ranWith' = EffectDeps
  /\ UNCHANGED <<mounted, source, env, settings, deployment, reading>>

-----------------------------------------------------------------------------
(* Files *)

\* One picked, or a compose file and an .env file dropped together.
Pick(rs) ==
  /\ Settled
  /\ Cardinality(reading \cup rs) <= MaxReads
  /\ reading' = reading \cup rs
  /\ UNCHANGED <<mounted, source, env, settings, output, deployment>>

PickFiles ==
  \/ \E f \in Source : Pick({[kind |-> "yaml", file |-> f]})
  \/ \E t \in EnvTexts : Pick({[kind |-> "env", file |-> t]})
  \/ \E f \in Source, t \in EnvTexts :
       Pick({[kind |-> "yaml", file |-> f], [kind |-> "env", file |-> t]})

ReadDone(r) ==
  /\ Settled
  /\ reading' = reading \ {r}

\* Mutant: the settings of a new file's services are left to be filled in.
LoadYamlBare(r) ==
  /\ r.kind = "yaml" /\ Content[r.file] # Broken
  /\ ReadDone(r)
  /\ fileName' = r.file
  /\ parsed' = Content[r.file] /\ parseError' = FALSE
  /\ UNCHANGED <<mounted, env, settings, output, deployment>>

\* Mutant: a file that does not parse leaves the one before in place.
LoadYamlKeeping(r) ==
  /\ r.kind = "yaml"
  /\ ReadDone(r)
  /\ fileName' = r.file
  /\ parseError' = (Content[r.file] = Broken)
  /\ IF Content[r.file] = Broken
       THEN UNCHANGED <<parsed, serviceSettings>>
       ELSE /\ parsed' = Content[r.file]
            /\ serviceSettings' = [s \in DOMAIN Content[r.file].services |-> Defaults]
  /\ UNCHANGED <<mounted, env, globalSettings, output, deployment>>

\* A file that does not parse leaves the settings of the one before.
LoadYaml(r) ==
  /\ r.kind = "yaml"
  /\ ReadDone(r)
  /\ fileName' = r.file
  /\ deployMsg' = "none"
  /\ IF Content[r.file] = Broken
       THEN /\ parsed' = None /\ parseError' = TRUE
            /\ UNCHANGED serviceSettings
       ELSE /\ parsed' = Content[r.file] /\ parseError' = FALSE
            /\ serviceSettings' = [s \in DOMAIN Content[r.file].services |-> Defaults]
  /\ UNCHANGED <<mounted, env, globalSettings, output, deploying, flights, presses>>

\* Mutant: the editor is not opened.
LoadEnvQuietly(r) ==
  /\ r.kind = "env"
  /\ ReadDone(r)
  /\ envText' = r.file
  /\ UNCHANGED <<mounted, source, showEnvPanel, settings, output, deployment>>

LoadEnv(r) ==
  /\ r.kind = "env"
  /\ ReadDone(r)
  /\ envText' = r.file
  /\ showEnvPanel' = TRUE
  /\ UNCHANGED <<mounted, source, settings, output, deployment>>

\* Nothing handles a reader's error.
ReadFails(r) ==
  /\ ReadDone(r)
  /\ UNCHANGED <<mounted, source, env, settings, output, deployment>>

-----------------------------------------------------------------------------
(* The editor of the variables *)

SetEnv(t, open) ==
  /\ Settled
  /\ envText' = t
  /\ showEnvPanel' = open
  /\ UNCHANGED <<mounted, source, settings, output, deployment, reading>>

EditEnv == showEnvPanel /\ \E t \in EnvTexts \cup {<< >>} : SetEnv(t, TRUE)
ClearEnv == showEnvPanel /\ SetEnv(<< >>, FALSE)

\* The link is there only when some variable is set.
ToggleEnvPanel == EnvVarCount(envText) > 0 /\ SetEnv(envText, ~showEnvPanel)

-----------------------------------------------------------------------------
(* Settings *)

OneField(a, b) == Cardinality({k \in DOMAIN a : a[k] # b[k]}) = 1

Services == IF parsed = None THEN {} ELSE DOMAIN parsed.services
Shown(s) == Chosen(serviceSettings, globalSettings, s)

SetGlobal ==
  /\ Settled /\ parsed # None
  /\ \E g \in GlobalValues : OneField(g, globalSettings) /\ globalSettings' = g
  /\ UNCHANGED <<mounted, source, env, serviceSettings, output, deployment, reading>>

SetSvc(s) ==
  /\ Settled
  /\ \E g \in ServiceValues :
       /\ OneField(g, Shown(s))
       /\ serviceSettings' = [x \in DOMAIN serviceSettings \cup {s} |->
                               IF x = s THEN g ELSE serviceSettings[x]]
  /\ UNCHANGED <<mounted, source, env, globalSettings, output, deployment, reading>>

-----------------------------------------------------------------------------
(* Deployment *)

\* Mutant: the button is not disabled.
CanPressAlways == mounted /\ parsed # None

\* The button is shown with a parsed file and disabled while deploying.
CanPress == mounted /\ parsed # None /\ ~deploying

DeployManifest ==
  /\ CanPress
  /\ presses < MaxPresses
  /\ presses' = presses + 1
  /\ deploying' = TRUE
  /\ deployMsg' = "none"
  /\ flights' = flights \cup {[id |-> presses', mine |-> TRUE]}
  /\ UNCHANGED <<mounted, source, env, settings, output, reading>>

\* Mutant: the flag is cleared by an answer only, not by a failure.
AnswerKeepsFlag(f, msg) ==
  /\ flights' = flights \ {f}
  /\ IF f.mine THEN deploying' = (msg = "failed") /\ deployMsg' = msg
               ELSE UNCHANGED <<deploying, deployMsg>>
  /\ UNCHANGED <<mounted, source, env, settings, output, reading, presses>>

\* Accepted, or refused or lost; the page that sent it may be gone.
Answer(f, msg) ==
  /\ flights' = flights \ {f}
  /\ IF f.mine THEN deploying' = FALSE /\ deployMsg' = msg
               ELSE UNCHANGED <<deploying, deployMsg>>
  /\ UNCHANGED <<mounted, source, env, settings, output, reading, presses>>

\* Another tab is shown: the page's state is gone, its requests are not.
Leave ==
  /\ mounted
  /\ mounted' = FALSE
  /\ parsed' = None /\ parseError' = FALSE /\ fileName' = None
  /\ envText' = << >> /\ showEnvPanel' = FALSE
  /\ globalSettings' = Defaults /\ serviceSettings' = NoSettings
  /\ outputYaml' = None /\ ranWith' = FreshDeps
  /\ deploying' = FALSE /\ deployMsg' = "none"
  /\ reading' = {}
  /\ flights' = {[f EXCEPT !.mine = FALSE] : f \in flights}
  /\ UNCHANGED presses

Return ==
  /\ ~mounted
  /\ mounted' = TRUE
  /\ UNCHANGED <<source, env, settings, output, deployment, reading>>

Messages == {"done", "failed"}
Answered == \E f \in flights : \E msg \in Messages : Answer(f, msg)

Next ==
  \/ Regenerate
  \/ PickFiles
  \/ \E r \in reading : LoadYaml(r) \/ LoadEnv(r) \/ ReadFails(r)
  \/ EditEnv
  \/ ClearEnv
  \/ ToggleEnvPanel
  \/ SetGlobal
  \/ \E s \in Services : SetSvc(s)
  \/ DeployManifest
  \/ Answered
  \/ Leave
  \/ Return

\* The browser ends every request; that the effect runs is not needed.
Spec == Init /\ [][Next]_vars /\ WF_vars(Answered)

-----------------------------------------------------------------------------
(* Safety *)

Reads == [kind : {"yaml"}, file : Source] \cup [kind : {"env"}, file : EnvTexts]

TypeOK ==
  /\ mounted \in BOOLEAN /\ showEnvPanel \in BOOLEAN
  /\ parseError \in BOOLEAN /\ deploying \in BOOLEAN
  /\ fileName \in Source \cup {None}
  /\ parsed # None => /\ fileName \in Source /\ parsed # Broken
                      /\ parsed = Content[fileName]
  /\ parseError => parsed = None
  /\ envText \in EnvTexts \cup {<< >>}
  /\ globalSettings \in Setting
  /\ \A s \in DOMAIN serviceSettings : serviceSettings[s] \in Setting
  /\ deployMsg \in Messages \cup {"none"}
  /\ reading \subseteq Reads
  /\ presses \in Nat
  /\ flights \subseteq [id : 1 .. presses, mine : BOOLEAN]

\* Once the effect has run, the manifest that is shown, downloaded and sent is
\* the one of the file, the settings and the variables on the page, whatever was
\* edited or read, and in whatever order the readers ended.
OutputIsCurrent == Settled => outputYaml = Generated

\* "Deploying" means that exactly one request of this page has no answer, and no
\* message of an earlier one is shown with it; a page that was left and opened
\* again does not wait for the requests of the one before.
MineInFlight == {f \in flights : f.mine}
OneRequest ==
  /\ deploying <=> MineInFlight # {}
  /\ \A f, g \in MineInFlight : f = g
  /\ deploying => mounted /\ deployMsg = "none"

\* Every service shown has settings of its own, so its fields are what counts and
\* the fields of all services never are, also after a file that did not parse.
SettingsCoverServices == parsed # None => DOMAIN serviceSettings = Services

\* The API makes as many pods of a service as its fields show, up to its cap; a
\* standby count of 0 leaves the compose file's own.
PodsAsShown ==
  Settled => \A s \in Services :
    LET pods == PodsOf(s, outputYaml[s]) IN
      /\ Shown(s).replicas > 0 => pods.active = Least(Shown(s).replicas, MaxReplicas)
      /\ pods.standby = Given(Shown(s).standby, parsed.services[s].standby)
      /\ pods.userns = Shown(s).userns

\* No "$" is left over: each begins a reference, and none is in a value, in a
\* default or in the device of a volume.
SignFree(t) == \A i \in DOMAIN t : t[i] # "$"
NoneLeft(t) ==
  \A i \in DOMAIN t : t[i] = "$" =>
    RefsAt(t, i) # {} /\ \A r \in RefsAt(t, i) : SignFree(r.alt)

NoSignLeft ==
  /\ \A k \in DOMAIN ParseEnvText(envText) : SignFree(ParseEnvText(envText)[k])
  /\ \A s \in Services : LET svc == parsed.services[s] IN
       /\ NoneLeft(svc.image)
       /\ \A v \in svc.volumes : NoneLeft(v)
       /\ \A i \in Strings(svc.env) : NoneLeft(svc.env[i].text)
  /\ parsed # None => \A d \in DOMAIN parsed.devices : SignFree(parsed.devices[d])

\* The API interpolates the manifest a second time, without variables, and fills
\* gaps in it.  When no "$" is left over, pods get the image, the volumes and the
\* strings of the environment that the page shows; only a missing image and the
\* empty or missing password of a database are made up.  Either way no database
\* starts with an empty password, not even when a pass has swallowed it.
ManifestGetsThrough ==
  Settled => \A s \in Services :
    LET svc == outputYaml[s]
        pod == PodsOf(s, svc)
        Shows(i) == svc.env[i].key \o svc.env[i].text
    IN /\ NoSignLeft =>
            /\ pod.image = IF svc.image = << >> THEN <<"default", "-", s>> ELSE svc.image
            /\ pod.volumes = svc.volumes
            /\ \A i \in Strings(svc.env) :
                 \/ pod.env[i] = Shows(i)
                 \/ IsPostgres(svc.image) /\ Shows(i) = Password
            /\ \A i \in DOMAIN pod.env \ Strings(svc.env) :
                 IsPostgres(svc.image) /\ IsPassword(pod.env[i])
       /\ IsPostgres(svc.image) =>
            \E i \in DOMAIN pod.env : IsPassword(pod.env[i]) /\ Len(pod.env[i]) > 2

\* Variables that count are never out of reach: the editor is open, or the link
\* that opens it is there, or there is nothing to edit.
EnvCanBeEdited == showEnvPanel \/ EnvVarCount(envText) > 0 \/ envText = << >>

-----------------------------------------------------------------------------
(* Liveness *)

\* The button does not stay disabled, whatever becomes of the request.
DeployingEnds == deploying ~> ~deploying

=============================================================================
