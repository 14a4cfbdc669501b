------------------------------ MODULE PluginLoad ------------------------------
(***************************************************************************)
(* How a plugin is made from its settings: PluginMap.Load and the helpers  *)
(* of src/internal/framework, the factories and the constructors of        *)
(* src/internal/source, report and publisher.                              *)
(*                                                                         *)
(* Whoever reads a setting takes it out of the settings; a field may be    *)
(* spelled as singular or plural, and whatever is left over may be refused.*)
(* A text is told apart only by the checks it passes; a value that is no   *)
(* text is a number, an empty value (null) or something else.              *)
(***************************************************************************)
EXTENDS Naturals, Sequences, FiniteSets, Functions

CONSTANTS
  Names,     \* texts, whatever they are used for
  NoName,
  Blank,     \* the empty text
  Numbered,  \* Seq(Names): "#1", "#2", ...
  Number, Null, Odd, \* values that are no texts
  Glyph,     \* the text of one character that a number becomes
  Right,     \* Right[check]: the texts that pass a check
  Files      \* [class, plugins : Seq(Settings), config : what ConfigLoad has of it]

Checks == {"any", "named", "regex", "dns type", "version", "oid", "cidr", "url", "metric", "file", "template"}

\* A value: a text or something else, or a list of such.
Scalar(a) == [list |-> FALSE, of |-> <<a>>]
List(s)   == [list |-> TRUE, of |-> s]

\* A field's name, cut before the ending that is varied.
Field(stem, ending) == [stem |-> stem, ending |-> ending]
Plain(stem)         == Field(stem, "")

\* What may be written for a field: one text or other value, or a list.
Values == {v \in [list : BOOLEAN, of : Seq(Names \cup {Number, Null, Odd})] : v.list \/ Len(v.of) = 1}

ASSUME LoadAssumption ==
  /\ {Blank, Glyph, "default", "v2c", "A", "AAAA", "CNAME"} \subseteq Names /\ NoName \notin Names
  /\ {Number, Null, Odd} \cap Names = {} /\ Number # Null
  /\ Numbered \in Seq(Names)
  /\ Right \in [Checks -> SUBSET Names] /\ Right["any"] = Names /\ Blank \notin Right["named"]
  /\ \A f \in Files : f.class \in {"source", "report", "publisher"} /\ Len(f.plugins) <= Len(Numbered)
  /\ \A f \in Files : f.plugins \in Seq(Range(f.plugins)) /\ \A p \in Range(f.plugins) : p \in [DOMAIN p -> Values]

-----------------------------------------------------------------------------
(* The settings that are read                                               *)

\* Variations, and the same list in consumeOptionalArg.
Spellings(field) ==
  CASE field.ending = "s" -> <<field, Plain(field.stem)>>
    [] field.ending = "y" -> <<field, Field(field.stem, "ys"), Field(field.stem, "ies")>>
    [] OTHER              -> <<field, Field(field.stem, "s")>>

\* ConsumeArg, ConsumeOptionalArg: a text or a list of texts (many).
Need(field, many, check)         == [field |-> field, many |-> many, needed |-> TRUE, default |-> <<>>, check |-> check]
May(field, many, default, check) == [field |-> field, many |-> many, needed |-> FALSE, default |-> default, check |-> check]

\* What PluginMap.Load reads, by the flags of ReloadConfig and NewTarget.
Own(class) ==
  CASE class = "source" -> <<Need(Plain("name"), FALSE, "any"), Need(Plain("kind"), FALSE, "any"), May(Plain("source"), TRUE, <<>>, "any")>>
    [] class = "report" -> <<Need(Plain("name"), FALSE, "any"), May(Plain("kind"), FALSE, <<"default">>, "any"), May(Plain("source"), TRUE, <<>>, "any")>>
    [] OTHER            -> <<May(Plain("name"), FALSE, <<Blank>>, "any"), Need(Plain("kind"), FALSE, "any"), May(Plain("report"), TRUE, <<>>, "any")>>

\* A constructor: what it reads, in this order; what it lets pass besides (also),
\* or that it lets everything pass (open).
Reads(asks)     == [asks |-> asks, also |-> {}, open |-> FALSE]
OpenTo(asks)    == [asks |-> asks, also |-> {}, open |-> TRUE]
Also(c, fields) == [c EXCEPT !.also = fields]

Static     == Reads(<<May(Plain("cidr"), TRUE, <<>>, "cidr"), May(Field("host", "s"), TRUE, <<>>, "any")>>)
PingFilter == Reads(<<>>)
Upnp       == OpenTo(<<>>)
PromFilter == Reads(<<Need(Plain("url"), FALSE, "url"), May(Plain("metric"), TRUE, <<>>, "metric")>>)
SnmpFilter == Reads(<<May(Field("communit", "y"), FALSE, <<Blank>>, "named"), May(Plain("version"), FALSE, <<"v2c">>, "version"),
                      May(Plain("oid"), TRUE, <<>>, "oid")>>)
DnsRoot    == Also(Reads(<<Need(Plain("server"), TRUE, "any"), Need(Plain("zone"), TRUE, "any"), Need(Plain("regex"), TRUE, "regex"),
                           May(Field("type", "s"), TRUE, <<"A", "AAAA", "CNAME">>, "dns type"),
                           May(Plain("tsig_name"), FALSE, <<Blank>>, "any"), May(Plain("tsig_secret"), FALSE, <<Blank>>, "any"),
                           May(Plain("tsig_algorithm"), FALSE, <<Blank>>, "any")>>), {Plain("interval")})
Template   == OpenTo(<<May(Plain("template_file"), FALSE, <<Blank>>, "any"), May(Plain("template_inline"), FALSE, <<Blank>>, "any")>>)
Log        == Also(Reads(<<May(Plain("prefix"), FALSE, <<Blank>>, "any"), May(Plain("suffix"), FALSE, <<Blank>>, "any")>>), {Plain("report")})
File       == Reads(<<Need(Plain("filename"), FALSE, "any")>>)
Kubernetes == Reads(<<May(Plain("filename"), FALSE, <<Blank>>, "named")>>)

Sources    == [static |-> Static, ping_filter |-> PingFilter, upnp |-> Upnp, prom_exporter_filter |-> PromFilter,
               snmp_filter |-> SnmpFilter, dns |-> DnsRoot]
Reports    == [template |-> Template, default |-> Template]
Publishers == [log |-> Log, file |-> File, kubernetes |-> Kubernetes]

\* The factories.
Makers(class) == CASE class = "source" -> Sources [] class = "report" -> Reports [] OTHER -> Publishers

\* A name that begins like that of a field is cut as the field is only if it spells it.
ASSUME FieldsAreCut ==
  \A f \in Files : \A p \in Range(f.plugins) : \A g \in DOMAIN p : \A kind \in DOMAIN Makers(f.class) :
    LET asks == Own(f.class) \o Makers(f.class)[kind].asks
    IN  \A i \in DOMAIN asks : g.stem = asks[i].field.stem => g \in Range(Spellings(asks[i].field))

\* CheckFields.
MayHave(maker, fields) ==
  maker.open \/ fields \subseteq UNION {Range(Spellings(f)) : f \in maker.also \cup {maker.asks[i].field : i \in DOMAIN maker.asks}}

\* What a constructor checks of several settings together.
StaticWhole(got)   == got[Plain("cidr")] # <<>> \/ got[Field("host", "s")] # <<>>
DnsWhole(got)      == LET tsig == {got[Plain(f)] : f \in {"tsig_name", "tsig_secret", "tsig_algorithm"}}
                      IN  <<Blank>> \in tsig => tsig = {<<Blank>>}
TemplateWhole(got) ==
  LET file == got[Plain("template_file")][1]  inline == got[Plain("template_inline")][1]
  IN  IF file = Blank THEN inline \in Right["template"] \ {Blank} ELSE inline = Blank /\ file \in Right["file"]

WholeOK(kind, got) ==
  /\ kind = "static" => StaticWhole(got)
  /\ kind = "dns" => DnsWhole(got)
  /\ kind \in {"template", "default"} => TemplateWhole(got)

-----------------------------------------------------------------------------
(* consumeOptionalArg                                                       *)

\* The first of a field's spellings that is there.
\* (Mutant: the field as it is declared, which is the only one looked for.)
GivenAsDeclared(settings, field) == {i \in {1} : field \in DOMAIN settings}
GivenAs(settings, field) == {i \in DOMAIN Spellings(field) : Spellings(field)[i] \in DOMAIN settings}
IsGiven(settings, field) == GivenAs(settings, field) # {}
Spelled(settings, field) == Spellings(field)[CHOOSE i \in GivenAs(settings, field) : \A j \in GivenAs(settings, field) : i <= j]
Given(settings, field)   == settings[Spelled(settings, field)]

\* An element can be converted to a text; a number becomes a character.
Convert(a) == IF a = Number THEN Glyph ELSE a
Convertible(a) == a \in Names \cup {Number}

\* reflect has no type of a null, of a list or in it, before anything else is wrong.
Panics(value, many) ==
  many /\ \E i \in DOMAIN value.of : value.of[i] = Null /\ \A j \in 1 .. i - 1 : Convertible(value.of[j])

WellTyped(value, many) ==
  IF value.list THEN many /\ \A i \in DOMAIN value.of : Convertible(value.of[i]) ELSE value.of[1] \in Names

Texts(value) == [i \in DOMAIN value.of |-> Convert(value.of[i])]

\* What is read of a setting, and whether it is.
Result(settings, ask)   == IF IsGiven(settings, ask.field) THEN Texts(Given(settings, ask.field)) ELSE ask.default
Readable(settings, ask) ==
  IF IsGiven(settings, ask.field) THEN WellTyped(Given(settings, ask.field), ask.many) ELSE ~ ask.needed
Passes(settings, ask)   == ask.check # "any" => Range(Result(settings, ask)) \subseteq Right[ask.check]
Crashes(settings, ask)  == IsGiven(settings, ask.field) /\ Panics(Given(settings, ask.field), ask.many)

-----------------------------------------------------------------------------
VARIABLES
  file,      \* never changed
  phase,
  left,      \* the plugins that are not loaded yet, the one at hand first
  settings,  \* what is left of the settings of the plugin at hand
  asks,      \* what is still to be read of it
  got,       \* what has been read, by field
  loaded     \* PluginMap.plugins: by name, [got, over]; over is what nobody has read

vars == <<file, phase, left, settings, asks, got, loaded>>

Nothing == [f \in {} |-> <<>>]
Kind    == got[Plain("kind")][1]

\* A number for a publisher without a name; any other is called as it says.
NameOf(text) == IF file.class = "publisher" /\ text = Blank THEN Numbered[Cardinality(DOMAIN loaded) + 1] ELSE text

TypeOK ==
  /\ phase \in {"opening", "loading", "plugin", "impl", "failed", "crashed"}
  /\ \E i \in 1 .. Len(file.plugins) + 1 : left = SubSeq(file.plugins, i, Len(file.plugins))
  /\ DOMAIN loaded \subseteq Names
  /\ \A f \in DOMAIN got : got[f] \in Seq(Names)
  /\ \A n \in DOMAIN loaded : \A f \in DOMAIN loaded[n].got : loaded[n].got[f] \in Seq(Names)
  /\ phase \in {"plugin", "impl"} => left # <<>> /\ DOMAIN settings \subseteq DOMAIN Head(left)

Init ==
  /\ file \in Files
  /\ phase = "opening"
  /\ left = file.plugins
  /\ settings = Nothing
  /\ asks = <<>>
  /\ got = Nothing
  /\ loaded = Nothing

\* LoadAll.
Open ==
  /\ phase = "opening"
  /\ phase' = "loading"
  /\ UNCHANGED <<file, left, settings, asks, got, loaded>>

Begin ==
  /\ phase = "loading"
  /\ left # <<>>
  /\ phase' = "plugin"
  /\ settings' = Head(left)
  /\ asks' = Own(file.class)
  /\ got' = Nothing
  /\ UNCHANGED <<file, left, loaded>>

Reading == phase \in {"plugin", "impl"} /\ asks # <<>>

\* A name is checked as soon as it is read.
\* (Mutant: it is not, and the later plugin takes the place of the earlier.)
AcceptsTwice(ask) == Readable(settings, ask) /\ Passes(settings, ask)

Accepts(ask) ==
  /\ Readable(settings, ask)
  /\ Passes(settings, ask)
  /\ ask.field = Plain("name") => NameOf(Result(settings, ask)[1]) \notin DOMAIN loaded

\* ConsumeArg or ConsumeOptionalArg, and the check of what it has returned.
Consume ==
  /\ Reading
  /\ Accepts(Head(asks))
  /\ asks' = Tail(asks)
  /\ got' = [f \in DOMAIN got \cup {Head(asks).field} |-> IF f = Head(asks).field THEN Result(settings, Head(asks)) ELSE got[f]]
  /\ settings' = IF IsGiven(settings, Head(asks).field)
                 THEN Restrict(settings, DOMAIN settings \ {Spelled(settings, Head(asks).field)})
                 ELSE settings
  /\ UNCHANGED <<file, phase, left, loaded>>

Fail(how) ==
  /\ phase' = how
  /\ UNCHANGED <<file, left, settings, asks, got, loaded>>

RefuseSetting ==
  /\ Reading
  /\ ~ Crashes(settings, Head(asks))
  /\ ~ Accepts(Head(asks))
  /\ Fail("failed")

Panic ==
  /\ Reading
  /\ Crashes(settings, Head(asks))
  /\ Fail("crashed")

\* The factory of the kind, and CheckFields.
\* (Mutant: CheckFields is forgotten.)
KnownOnly ==
  Kind \in DOMAIN Makers(file.class)

Known ==
  Kind \in DOMAIN Makers(file.class) /\ MayHave(Makers(file.class)[Kind], DOMAIN settings)

Create ==
  /\ phase = "plugin" /\ asks = <<>>
  /\ Known
  /\ phase' = "impl"
  /\ asks' = Makers(file.class)[Kind].asks
  /\ UNCHANGED <<file, left, settings, got, loaded>>

RefuseKind ==
  /\ phase = "plugin" /\ asks = <<>>
  /\ ~ Known
  /\ Fail("failed")

Finish ==
  /\ phase = "impl" /\ asks = <<>>
  /\ WholeOK(Kind, got)
  /\ phase' = "loading"
  /\ left' = Tail(left)
  /\ LET name == NameOf(got[Plain("name")][1])
     IN  loaded' = [n \in DOMAIN loaded \cup {name} |-> IF n = name THEN [got |-> got, over |-> settings] ELSE loaded[n]]
  /\ UNCHANGED <<file, settings, asks, got>>

RefuseWhole ==
  /\ phase = "impl" /\ asks = <<>>
  /\ ~ WholeOK(Kind, got)
  /\ Fail("failed")

Next == Open \/ Begin \/ Consume \/ RefuseSetting \/ Panic \/ Create \/ RefuseKind \/ Finish \/ RefuseWhole

Spec == Init /\ [][Next]_vars

-----------------------------------------------------------------------------
(* Told from the file, whoever reads it and in whatever order.              *)

SaidKind(class, p) == IF Readable(p, Own(class)[2]) THEN Result(p, Own(class)[2])[1] ELSE Blank
AllAsks(class, p)  == Own(class) \o (IF SaidKind(class, p) \in DOMAIN Makers(class) THEN Makers(class)[SaidKind(class, p)].asks ELSE <<>>)
OwnFirst(class, p) == {Spelled(p, Own(class)[i].field) : i \in {j \in 1 .. 3 : IsGiven(p, Own(class)[j].field)}}

Said(class, p) ==
  LET all == AllAsks(class, p)
  IN  [f \in {all[i].field : i \in DOMAIN all} |-> Result(p, all[CHOOSE i \in DOMAIN all : all[i].field = f])]

Sound(class, p) ==
  /\ LET all == AllAsks(class, p) IN \A i \in DOMAIN all : Readable(p, all[i]) /\ Passes(p, all[i])
  /\ SaidKind(class, p) \in DOMAIN Makers(class)
  /\ MayHave(Makers(class)[SaidKind(class, p)], DOMAIN p \ OwnFirst(class, p))
  /\ WholeOK(SaidKind(class, p), Said(class, p))

-----------------------------------------------------------------------------
(* Properties                                                               *)

PluginsDone == SubSeq(file.plugins, 1, Len(file.plugins) - Len(left))
NameIn(i)   ==
  LET said == Said(file.class, file.plugins[i])[Plain("name")][1]
  IN  IF file.class = "publisher" /\ said = Blank THEN Numbered[i] ELSE said

\* A plugin runs with what the file says of it: each of its settings is the one that is
\* written for it, in any of its spellings, and the default only where none is, though
\* ten constructors take their settings out of one map, one after the other.
AsWritten ==
  \A i \in DOMAIN PluginsDone :
    /\ NameIn(i) \in DOMAIN loaded
    /\ \A k \in DOMAIN AllAsks(file.class, file.plugins[i]) :
         LET ask  == AllAsks(file.class, file.plugins[i])[k]
             said == {f \in DOMAIN file.plugins[i] : f.stem = ask.field.stem}
         IN  loaded[NameIn(i)].got[ask.field] \in
               IF said = {} THEN {ask.default} ELSE {Texts(file.plugins[i][f]) : f \in said}

\* No setting of a plugin is silently without effect, but for a second spelling of one
\* that has been read, the interval of a dns root, and anything said of an upnp root;
\* a report hands the rest to its template.
NothingIgnored ==
  \A n \in DOMAIN loaded :
    LET kind == loaded[n].got[Plain("kind")][1]
    IN  \A f \in DOMAIN loaded[n].over :
          \/ \E g \in DOMAIN loaded[n].got : g # f /\ g.stem = f.stem
          \/ kind = "dns" /\ f.stem = "interval"
          \/ kind = "upnp" \/ file.class = "report"

\* Only a plugin whose settings are wrong is refused, and only a setting that was left
\* empty where a list is expected, or in the list, ends the program.
SoundIsLoaded ==
  /\ phase = "failed" => ~ Sound(file.class, Head(left)) \/ NameIn(Len(PluginsDone) + 1) \in DOMAIN loaded
  /\ phase = "crashed" => \E f \in DOMAIN Head(left) : Null \in Range(Head(left)[f].of)

\* For ConfigLoad a plugin is loaded or refused in one step, and its settings are right
\* or not.
Uses(g)          == IF Plain("source") \in DOMAIN g THEN Range(g[Plain("source")]) ELSE {}
AsPlugin(name, g) ==
  [name |-> name, kind |-> IF g[Plain("kind")][1] \in {"static", "upnp", "dns"} THEN "root" ELSE "filter", good |-> TRUE, uses |-> Uses(g)]
OfFile(p) ==
  IF Sound("source", p) THEN LET said == Said("source", p) IN AsPlugin(said[Plain("name")][1], said)
  ELSE [name |-> NoName, kind |-> "root", good |-> FALSE, uses |-> {}]

OfConfig(class, plugins) ==
  [good |-> TRUE, targets |-> <<>>, sources |-> IF class = "source" THEN [i \in DOMAIN plugins |-> OfFile(plugins[i])] ELSE <<>>]

ASSUME ConfigsAreMeant == \A f \in Files : f.config = OfConfig(f.class, f.plugins)

Configurations ==
  [good : {TRUE}, targets : {<<>>},
   sources : Seq([name : Names \cup {NoName}, kind : {"root", "filter"}, good : BOOLEAN, uses : SUBSET Names])]

Loading == INSTANCE ConfigLoad WITH
  config     <- file.config,
  phase      <- IF phase = "opening" \/ file.class # "source" THEN "opening"
                ELSE IF phase \in {"failed", "crashed"} THEN "failed" ELSE "sources",
  left       <- IF phase = "opening" \/ file.class # "source" THEN <<>>
                ELSE SubSeq(file.config.sources, Len(file.plugins) - Len(left) + 1, Len(file.plugins)),
  sources    <- IF file.class = "source" THEN [n \in DOMAIN loaded |-> AsPlugin(n, loaded[n].got)] ELSE Nothing,
  rest <- <<>>, todo <- {}, reports <- Nothing, publishers <- Nothing, targets <- Nothing,
  graph <- Nothing, wrong <- FALSE, planned <- {}

\* The sources are loaded as ConfigLoad has it: reading them setting by setting never
\* shows a plugin that is half made, nor one that ConfigLoad would refuse.
LoadsInOneStep == Loading!Spec

\* The first invariant of the run: types, and sound settings are loaded as they are written.
PluginInv == TypeOK /\ AsWritten /\ SoundIsLoaded
=============================================================================
