--------------------------- MODULE PluginLoadProofs ---------------------------
(***************************************************************************)
(* Proofs about PluginLoad: whatever is loaded has been read as it is      *)
(* written, nothing that is said of it is lost, only what is wrong is      *)
(* refused, and for ConfigLoad a plugin is loaded or refused in one step.  *)
(***************************************************************************)
EXTENDS PluginLoad, FiniteSetTheorems, SequenceTheorems, TLAPS

Classes == {"source", "report", "publisher"}

\* What may be asked for.
Stems == {"name", "kind", "source", "report", "cidr", "host", "url", "metric", "communit", "version", "oid", "server", "zone",
          "regex", "type", "tsig_name", "tsig_secret", "tsig_algorithm", "template_file", "template_inline", "prefix", "suffix",
          "filename"}
FieldNames == [stem : Stems, ending : {"", "s", "y"}]
AskType ==
  [field : FieldNames, many : BOOLEAN, needed : BOOLEAN, default : Seq(Names), check : Checks]

\* Two questions are never about the same field, however it is spelled.
Apart(list) == \A i, j \in DOMAIN list : list[i].field.stem = list[j].field.stem => i = j

-----------------------------------------------------------------------------
(* The table of constructors                                                *)

LEMMA FieldFacts ==
  ASSUME NEW stem \in Stems, NEW ending \in {"", "s", "y"}
  PROVE  /\ Field(stem, ending) \in FieldNames /\ Plain(stem) \in FieldNames
         /\ Field(stem, ending).stem = stem /\ Plain(stem).stem = stem
  BY DEF Field, Plain, FieldNames

LEMMA DefaultFacts ==
  /\ <<>> \in Seq(Names) /\ <<Blank>> \in Seq(Names) /\ <<"default">> \in Seq(Names) /\ <<"v2c">> \in Seq(Names)
  /\ <<"A", "AAAA", "CNAME">> \in Seq(Names)
  BY LoadAssumption

LEMMA CheckFacts ==
  /\ "any" \in Checks /\ "named" \in Checks /\ "regex" \in Checks /\ "dns type" \in Checks /\ "version" \in Checks
  /\ "oid" \in Checks /\ "cidr" \in Checks /\ "url" \in Checks /\ "metric" \in Checks
  BY DEF Checks

\* The name, the kind and the plugins it uses are read of every plugin.
LEMMA OwnFacts ==
  ASSUME NEW class \in Classes
  PROVE  /\ Own(class) \in Seq(AskType) /\ Len(Own(class)) = 3
         /\ Own(class)[1].field = Plain("name") /\ ~ Own(class)[1].many /\ Own(class)[1].check = "any"
         /\ Own(class)[2].field = Plain("kind") /\ ~ Own(class)[2].many /\ Own(class)[2].check = "any"
         /\ Own(class)[3].field = Plain(IF class = "publisher" THEN "report" ELSE "source")
         /\ Own(class)[3].check = "any"
         /\ \A i \in 1 .. 2 : ~ Own(class)[i].needed => Len(Own(class)[i].default) = 1
<1> DEFINE name == Plain("name")  kind == Plain("kind")
           uses == Plain(IF class = "publisher" THEN "report" ELSE "source")
<1>1. /\ name \in FieldNames /\ kind \in FieldNames
      /\ uses \in FieldNames
  <2>1. \A stem \in {"name", "kind", "source", "report"} : stem \in Stems /\ Plain(stem) \in FieldNames
    <3>1. {"name", "kind", "source", "report"} \subseteq Stems
      BY DEF Stems
    <3>2. "" \in {"", "s", "y"}
      OBVIOUS
    <3> QED
      BY <3>1, <3>2, FieldFacts
  <2> QED
    BY <2>1
<1> DEFINE none == <<>>  blank == <<Blank>>  usual == <<"default">>
<1>2. /\ none \in Seq(Names) /\ blank \in Seq(Names) /\ usual \in Seq(Names) /\ "any" \in Checks
      /\ Len(usual) = 1 /\ Len(blank) = 1
  BY DefaultFacts, CheckFacts
<1> HIDE DEF name, kind, uses, none, blank, usual
<1>3. \E a1, a2, a3 \in AskType :
        /\ Own(class) = <<a1, a2, a3>>
        /\ a1.field = name /\ ~ a1.many /\ a1.check = "any" /\ (~ a1.needed => Len(a1.default) = 1)
        /\ a2.field = kind /\ ~ a2.many /\ a2.check = "any" /\ (~ a2.needed => Len(a2.default) = 1)
        /\ a3.field = uses /\ a3.check = "any"
  <2>1. CASE class = "source"
    <3> DEFINE a1 == Need(name, FALSE, "any")  a2 == Need(kind, FALSE, "any")  a3 == May(uses, TRUE, none, "any")
    <3>1. Own(class) = <<a1, a2, a3>>
      BY <2>1 DEF Own, name, kind, uses, none, blank, usual
    <3>2. a1 \in AskType /\ a1.field = name /\ ~ a1.many /\ a1.check = "any" /\ a1.needed
      BY <1>1, <1>2 DEF Need, AskType
    <3>3. a2 \in AskType /\ a2.field = kind /\ ~ a2.many /\ a2.check = "any" /\ a2.needed
      BY <1>1, <1>2 DEF Need, AskType
    <3>4. a3 \in AskType /\ a3.field = uses /\ a3.check = "any"
      BY <1>1, <1>2 DEF May, AskType
    <3> QED
      BY <3>1, <3>2, <3>3, <3>4
  <2>2. CASE class = "report"
    <3> DEFINE a1 == Need(name, FALSE, "any")  a2 == May(kind, FALSE, usual, "any")  a3 == May(uses, TRUE, none, "any")
    <3>1. Own(class) = <<a1, a2, a3>>
      BY <2>2 DEF Own, name, kind, uses, none, blank, usual
    <3>2. a1 \in AskType /\ a1.field = name /\ ~ a1.many /\ a1.check = "any" /\ a1.needed
      BY <1>1, <1>2 DEF Need, AskType
    <3>3. a2 \in AskType /\ a2.field = kind /\ ~ a2.many /\ a2.check = "any" /\ Len(a2.default) = 1
      BY <1>1, <1>2 DEF May, AskType
    <3>4. a3 \in AskType /\ a3.field = uses /\ a3.check = "any"
      BY <1>1, <1>2 DEF May, AskType
    <3> QED
      BY <3>1, <3>2, <3>3, <3>4
  <2>3. CASE class = "publisher"
    <3> DEFINE a1 == May(name, FALSE, blank, "any")  a2 == Need(kind, FALSE, "any")  a3 == May(uses, TRUE, none, "any")
    <3>1. Own(class) = <<a1, a2, a3>>
      BY <2>3 DEF Own, name, kind, uses, none, blank, usual
    <3>2. a1 \in AskType /\ a1.field = name /\ ~ a1.many /\ a1.check = "any" /\ Len(a1.default) = 1
      BY <1>1, <1>2 DEF May, AskType
    <3>3. a2 \in AskType /\ a2.field = kind /\ ~ a2.many /\ a2.check = "any" /\ a2.needed
      BY <1>1, <1>2 DEF Need, AskType
    <3>4. a3 \in AskType /\ a3.field = uses /\ a3.check = "any"
      BY <1>1, <1>2 DEF May, AskType
    <3> QED
      BY <3>1, <3>2, <3>3, <3>4
  <2> QED
    BY <2>1, <2>2, <2>3 DEF Classes
<1>4. PICK a1, a2, a3 \in AskType :
        /\ Own(class) = <<a1, a2, a3>>
        /\ a1.field = name /\ ~ a1.many /\ a1.check = "any" /\ (~ a1.needed => Len(a1.default) = 1)
        /\ a2.field = kind /\ ~ a2.many /\ a2.check = "any" /\ (~ a2.needed => Len(a2.default) = 1)
        /\ a3.field = uses /\ a3.check = "any"
  BY <1>3
<1>5. /\ Own(class) \in Seq(AskType) /\ Len(Own(class)) = 3
      /\ Own(class)[1] = a1 /\ Own(class)[2] = a2 /\ Own(class)[3] = a3
  BY <1>4
<1> QED
  BY <1>4, <1>5 DEF name, kind, uses

\* What a constructor reads: fields of its own, each once.
GoodMaker(maker) ==
  /\ maker.asks \in Seq(AskType)
  /\ Apart(maker.asks)
  /\ \A i \in DOMAIN maker.asks : maker.asks[i].field.stem \notin {"name", "kind", "source", "report"}

LEMMA StaticGood == GoodMaker(Static) /\ ~ Static.open /\ Static.also = {}
<1>1. PICK a1, a2 \in AskType : Static = [asks |-> <<a1, a2>>, also |-> {}, open |-> FALSE]
                                /\ a1.field.stem = "cidr" /\ a2.field.stem = "host"
  <2> DEFINE none == <<>>
  <2>1. none \in Seq(Names)
    OBVIOUS
  <2> HIDE DEF none
  <2> DEFINE a1 == May(Plain("cidr"), TRUE, none, "cidr")  a2 == May(Field("host", "s"), TRUE, none, "any")
  <2>2. a1 \in AskType /\ a1.field.stem = "cidr"
    BY <2>1, CheckFacts DEF May, AskType, Plain, Field, FieldNames, Stems
  <2>3. a2 \in AskType /\ a2.field.stem = "host"
    BY <2>1, CheckFacts DEF May, AskType, Plain, Field, FieldNames, Stems
  <2>4. Static = [asks |-> <<a1, a2>>, also |-> {}, open |-> FALSE]
    BY DEF Static, Reads, none
  <2> QED
    BY <2>2, <2>3, <2>4
<1> QED
  BY <1>1 DEF GoodMaker, Apart

LEMMA AlsoFacts ==
  ASSUME NEW list, NEW fields
  PROVE  /\ Also(Reads(list), fields).asks = list /\ Also(Reads(list), fields).also = fields
         /\ ~ Also(Reads(list), fields).open
<1> DEFINE r == Reads(list)
<1>1. r = [asks |-> list, also |-> {}, open |-> FALSE]
  BY DEF Reads
<1> HIDE DEF r
<1>2. [r EXCEPT !.also = fields].asks = r.asks /\ [r EXCEPT !.also = fields].also = fields
  BY <1>1
<1>3. ~ [r EXCEPT !.also = fields].open
  BY <1>1
<1>4. r.asks = list
  BY <1>1
<1> QED
  BY <1>2, <1>3, <1>4 DEF Also, r

LEMMA PingFilterGood == GoodMaker(PingFilter) /\ ~ PingFilter.open /\ PingFilter.also = {}
  BY DEF PingFilter, Reads, GoodMaker, Apart

LEMMA UpnpGood == GoodMaker(Upnp) /\ Upnp.open /\ Upnp.also = {}
  BY DEF Upnp, OpenTo, GoodMaker, Apart

LEMMA PromFilterGood == GoodMaker(PromFilter) /\ ~ PromFilter.open /\ PromFilter.also = {}
<1>1. PICK a1, a2 \in AskType :
        /\ PromFilter = [asks |-> <<a1, a2>>, also |-> {}, open |-> FALSE]
        /\ a1.field.stem = "url" /\ a2.field.stem = "metric"
  <2> DEFINE none == <<>>
  <2>0. none \in Seq(Names)
    BY DefaultFacts
  <2> HIDE DEF none
  <2> DEFINE
    a1 == Need(Plain("url"), FALSE, "url")
    a2 == May(Plain("metric"), TRUE, none, "metric")
  <2>1. a1 \in AskType /\ a1.field.stem = "url"
    BY DefaultFacts, CheckFacts DEF Need, AskType, Plain, Field, FieldNames, Stems
  <2>2. a2 \in AskType /\ a2.field.stem = "metric"
    BY <2>0, CheckFacts DEF May, AskType, Plain, Field, FieldNames, Stems
  <2>3. PromFilter = [asks |-> <<a1, a2>>, also |-> {}, open |-> FALSE]
    BY DEF PromFilter, Reads, none
  <2> HIDE DEF a1, a2
  <2> QED
    BY <2>1, <2>2, <2>3
<1> QED
  BY <1>1 DEF GoodMaker, Apart

LEMMA SnmpFilterGood == GoodMaker(SnmpFilter) /\ ~ SnmpFilter.open /\ SnmpFilter.also = {}
<1>1. PICK a1, a2, a3 \in AskType :
        /\ SnmpFilter = [asks |-> <<a1, a2, a3>>, also |-> {}, open |-> FALSE]
        /\ a1.field.stem = "communit" /\ a2.field.stem = "version" /\ a3.field.stem = "oid"
  <2> DEFINE none == <<>>  blank == <<Blank>>  dflt == <<"v2c">>
  <2>0. none \in Seq(Names) /\ blank \in Seq(Names) /\ dflt \in Seq(Names)
    BY DefaultFacts
  <2> HIDE DEF none, blank, dflt
  <2> DEFINE
    a1 == May(Field("communit", "y"), FALSE, blank, "named")
    a2 == May(Plain("version"), FALSE, dflt, "version")
    a3 == May(Plain("oid"), TRUE, none, "oid")
  <2>1. a1 \in AskType /\ a1.field.stem = "communit"
    BY <2>0, CheckFacts DEF May, AskType, Plain, Field, FieldNames, Stems
  <2>2. a2 \in AskType /\ a2.field.stem = "version"
    BY <2>0, CheckFacts DEF May, AskType, Plain, Field, FieldNames, Stems
  <2>3. a3 \in AskType /\ a3.field.stem = "oid"
    BY <2>0, CheckFacts DEF May, AskType, Plain, Field, FieldNames, Stems
  <2>4. SnmpFilter = [asks |-> <<a1, a2, a3>>, also |-> {}, open |-> FALSE]
    BY DEF SnmpFilter, Reads, none, blank, dflt
  <2> HIDE DEF a1, a2, a3
  <2> QED
    BY <2>1, <2>2, <2>3, <2>4
<1> QED
  BY <1>1 DEF GoodMaker, Apart

LEMMA DnsRootGood == GoodMaker(DnsRoot) /\ ~ DnsRoot.open /\ DnsRoot.also = {Plain("interval")}
<1>1. PICK a1, a2, a3, a4, a5, a6, a7 \in AskType :
        /\ DnsRoot.asks = <<a1, a2, a3, a4, a5, a6, a7>> /\ DnsRoot.also = {Plain("interval")} /\ ~ DnsRoot.open
        /\ a1.field.stem = "server" /\ a2.field.stem = "zone" /\ a3.field.stem = "regex"
        /\ a4.field.stem = "type" /\ a5.field.stem = "tsig_name" /\ a6.field.stem = "tsig_secret"
        /\ a7.field.stem = "tsig_algorithm"
  <2> DEFINE blank == <<Blank>>  dflt == <<"A", "AAAA", "CNAME">>
  <2>0. blank \in Seq(Names) /\ dflt \in Seq(Names)
    BY DefaultFacts
  <2> HIDE DEF blank, dflt
  <2> DEFINE
    a1 == Need(Plain("server"), TRUE, "any")
    a2 == Need(Plain("zone"), TRUE, "any")
    a3 == Need(Plain("regex"), TRUE, "regex")
    a4 == May(Field("type", "s"), TRUE, dflt, "dns type")
    a5 == May(Plain("tsig_name"), FALSE, blank, "any")
    a6 == May(Plain("tsig_secret"), FALSE, blank, "any")
    a7 == May(Plain("tsig_algorithm"), FALSE, blank, "any")
  <2>1. a1 \in AskType /\ a1.field.stem = "server"
    BY DefaultFacts, CheckFacts DEF Need, AskType, Plain, Field, FieldNames, Stems
  <2>2. a2 \in AskType /\ a2.field.stem = "zone"
    BY DefaultFacts, CheckFacts DEF Need, AskType, Plain, Field, FieldNames, Stems
  <2>3. a3 \in AskType /\ a3.field.stem = "regex"
    BY DefaultFacts, CheckFacts DEF Need, AskType, Plain, Field, FieldNames, Stems
  <2>4. a4 \in AskType /\ a4.field.stem = "type"
    BY <2>0, CheckFacts DEF May, AskType, Plain, Field, FieldNames, Stems
  <2>5. a5 \in AskType /\ a5.field.stem = "tsig_name"
    BY <2>0, CheckFacts DEF May, AskType, Plain, Field, FieldNames, Stems
  <2>6. a6 \in AskType /\ a6.field.stem = "tsig_secret"
    BY <2>0, CheckFacts DEF May, AskType, Plain, Field, FieldNames, Stems
  <2>7. a7 \in AskType /\ a7.field.stem = "tsig_algorithm"
    BY <2>0, CheckFacts DEF May, AskType, Plain, Field, FieldNames, Stems
  <2>8. DnsRoot = Also(Reads(<<a1, a2, a3, a4, a5, a6, a7>>), {Plain("interval")})
    BY DEF DnsRoot, blank, dflt
  <2> HIDE DEF a1, a2, a3, a4, a5, a6, a7
  <2> QED
    BY <2>1, <2>2, <2>3, <2>4, <2>5, <2>6, <2>7, <2>8, AlsoFacts
<1> QED
  BY <1>1 DEF GoodMaker, Apart

LEMMA TemplateGood == GoodMaker(Template) /\ Template.open /\ Template.also = {}
<1>1. PICK a1, a2 \in AskType :
        /\ Template = [asks |-> <<a1, a2>>, also |-> {}, open |-> TRUE]
        /\ a1.field.stem = "template_file" /\ a2.field.stem = "template_inline"
  <2> DEFINE blank == <<Blank>>
  <2>0. blank \in Seq(Names)
    BY DefaultFacts
  <2> HIDE DEF blank
  <2> DEFINE
    a1 == May(Plain("template_file"), FALSE, blank, "any")
    a2 == May(Plain("template_inline"), FALSE, blank, "any")
  <2>1. a1 \in AskType /\ a1.field.stem = "template_file"
    BY <2>0, CheckFacts DEF May, AskType, Plain, Field, FieldNames, Stems
  <2>2. a2 \in AskType /\ a2.field.stem = "template_inline"
    BY <2>0, CheckFacts DEF May, AskType, Plain, Field, FieldNames, Stems
  <2>3. Template = [asks |-> <<a1, a2>>, also |-> {}, open |-> TRUE]
    BY DEF Template, OpenTo, blank
  <2> HIDE DEF a1, a2
  <2> QED
    BY <2>1, <2>2, <2>3
<1> QED
  BY <1>1 DEF GoodMaker, Apart

LEMMA LogGood == GoodMaker(Log) /\ ~ Log.open /\ Log.also = {Plain("report")}
<1>1. PICK a1, a2 \in AskType :
        /\ Log.asks = <<a1, a2>> /\ Log.also = {Plain("report")} /\ ~ Log.open
        /\ a1.field.stem = "prefix" /\ a2.field.stem = "suffix"
  <2> DEFINE blank == <<Blank>>
  <2>0. blank \in Seq(Names)
    BY DefaultFacts
  <2> HIDE DEF blank
  <2> DEFINE
    a1 == May(Plain("prefix"), FALSE, blank, "any")
    a2 == May(Plain("suffix"), FALSE, blank, "any")
  <2>1. a1 \in AskType /\ a1.field.stem = "prefix"
    BY <2>0, CheckFacts DEF May, AskType, Plain, Field, FieldNames, Stems
  <2>2. a2 \in AskType /\ a2.field.stem = "suffix"
    BY <2>0, CheckFacts DEF May, AskType, Plain, Field, FieldNames, Stems
  <2>3. Log = Also(Reads(<<a1, a2>>), {Plain("report")})
    BY DEF Log, blank
  <2> HIDE DEF a1, a2
  <2> QED
    BY <2>1, <2>2, <2>3, AlsoFacts
<1> QED
  BY <1>1 DEF GoodMaker, Apart

LEMMA FileGood == GoodMaker(File) /\ ~ File.open /\ File.also = {}
<1>1. PICK a1 \in AskType :
        /\ File = [asks |-> <<a1>>, also |-> {}, open |-> FALSE]
        /\ a1.field.stem = "filename"
  <2> DEFINE
    a1 == Need(Plain("filename"), FALSE, "any")
  <2>1. a1 \in AskType /\ a1.field.stem = "filename"
    BY DefaultFacts, CheckFacts DEF Need, AskType, Plain, Field, FieldNames, Stems
  <2>2. File = [asks |-> <<a1>>, also |-> {}, open |-> FALSE]
    BY DEF File, Reads
  <2> HIDE DEF a1
  <2> QED
    BY <2>1, <2>2
<1> QED
  BY <1>1 DEF GoodMaker, Apart

LEMMA KubernetesGood == GoodMaker(Kubernetes) /\ ~ Kubernetes.open /\ Kubernetes.also = {}
<1>1. PICK a1 \in AskType :
        /\ Kubernetes = [asks |-> <<a1>>, also |-> {}, open |-> FALSE]
        /\ a1.field.stem = "filename"
  <2> DEFINE blank == <<Blank>>
  <2>0. blank \in Seq(Names)
    BY DefaultFacts
  <2> HIDE DEF blank
  <2> DEFINE
    a1 == May(Plain("filename"), FALSE, blank, "named")
  <2>1. a1 \in AskType /\ a1.field.stem = "filename"
    BY <2>0, CheckFacts DEF May, AskType, Plain, Field, FieldNames, Stems
  <2>2. Kubernetes = [asks |-> <<a1>>, also |-> {}, open |-> FALSE]
    BY DEF Kubernetes, Reads, blank
  <2> HIDE DEF a1
  <2> QED
    BY <2>1, <2>2
<1> QED
  BY <1>1 DEF GoodMaker, Apart

\* Whatever a factory makes is made by one of these.
LEMMA MakersGood ==
  ASSUME NEW class \in Classes, NEW kind \in DOMAIN Makers(class)
  PROVE  /\ GoodMaker(Makers(class)[kind])
         /\ Makers(class)[kind].open => kind = "upnp" \/ class = "report"
         /\ \A g \in Makers(class)[kind].also : \/ g = Plain("interval") /\ kind = "dns"
                                                \/ g = Plain("report") /\ class = "publisher"
<1>1. CASE class = "source"
  <2>1. Makers(class) = Sources
    BY <1>1 DEF Makers
  <2>2. DOMAIN Sources = {"static", "ping_filter", "upnp", "prom_exporter_filter", "snmp_filter", "dns"}
    BY DEF Sources
  <2>3. /\ Sources["static"] = Static /\ Sources["ping_filter"] = PingFilter /\ Sources["upnp"] = Upnp
        /\ Sources["prom_exporter_filter"] = PromFilter /\ Sources["snmp_filter"] = SnmpFilter /\ Sources["dns"] = DnsRoot
    BY DEF Sources
  <2> QED
    BY <1>1, <2>1, <2>2, <2>3, StaticGood, PingFilterGood, UpnpGood, PromFilterGood, SnmpFilterGood, DnsRootGood
<1>2. CASE class = "report"
  <2>1. Makers(class) = Reports
    BY <1>2 DEF Makers
  <2>2. DOMAIN Reports = {"template", "default"} /\ Reports["template"] = Template /\ Reports["default"] = Template
    BY DEF Reports
  <2> QED
    BY <1>2, <2>1, <2>2, TemplateGood
<1>3. CASE class = "publisher"
  <2>1. Makers(class) = Publishers
    BY <1>3 DEF Makers
  <2>2. DOMAIN Publishers = {"log", "file", "kubernetes"}
    BY DEF Publishers
  <2>3. Publishers["log"] = Log /\ Publishers["file"] = File /\ Publishers["kubernetes"] = Kubernetes
    BY DEF Publishers
  <2> QED
    BY <1>3, <2>1, <2>2, <2>3, LogGood, FileGood, KubernetesGood
<1> QED
  BY <1>1, <1>2, <1>3 DEF Classes

\* All that is read of a plugin, in its order: its own three fields, then the kind's.
Asked(class, kind) == Own(class) \o Makers(class)[kind].asks

LEMMA AskedFacts ==
  ASSUME NEW class \in Classes, NEW kind \in DOMAIN Makers(class)
  PROVE  /\ Asked(class, kind) \in Seq(AskType) /\ Len(Asked(class, kind)) = 3 + Len(Makers(class)[kind].asks)
         /\ \A i \in 1 .. 3 : Asked(class, kind)[i] = Own(class)[i]
         /\ \A i \in DOMAIN Makers(class)[kind].asks : Asked(class, kind)[3 + i] = Makers(class)[kind].asks[i]
         /\ Apart(Asked(class, kind))
<1> DEFINE own == Own(class)  more == Makers(class)[kind].asks
<1>1. own \in Seq(AskType) /\ Len(own) = 3
  BY OwnFacts
<1>2. /\ more \in Seq(AskType) /\ Apart(more)
      /\ \A i \in DOMAIN more : more[i].field.stem \notin {"name", "kind", "source", "report"}
  BY MakersGood DEF GoodMaker
<1>3. /\ own[1].field.stem = "name" /\ own[2].field.stem = "kind"
      /\ own[3].field.stem \in {"report", "source"}
  <2>1. \A stem : Plain(stem).stem = stem
    BY DEF Plain, Field
  <2>2. own[1].field = Plain("name") /\ own[2].field = Plain("kind")
    BY OwnFacts
  <2>3. own[3].field = Plain("report") \/ own[3].field = Plain("source")
    BY OwnFacts
  <2> HIDE DEF own
  <2> QED
    BY <2>1, <2>2, <2>3
<1> HIDE DEF own, more
<1>4. /\ own \o more \in Seq(AskType) /\ Len(own \o more) = 3 + Len(more)
      /\ \A i \in 1 .. 3 : (own \o more)[i] = own[i]
      /\ \A i \in DOMAIN more : (own \o more)[3 + i] = more[i]
  <2>1. /\ own \o more \in Seq(AskType) /\ Len(own \o more) = 3 + Len(more)
        /\ \A i \in 1 .. 3 + Len(more) : (own \o more)[i] = IF i <= 3 THEN own[i] ELSE more[i - 3]
    <3>1. own \in Seq(AskType) /\ more \in Seq(AskType)
      BY <1>1, <1>2
    <3>2. /\ own \o more \in Seq(AskType) /\ Len(own \o more) = Len(own) + Len(more)
          /\ \A i \in 1 .. Len(own) + Len(more) : (own \o more)[i] = IF i <= Len(own) THEN own[i] ELSE more[i - Len(own)]
      BY <3>1, ConcatProperties, Zenon
    <3> QED
      BY <1>1, <3>2
  <2>2. Len(more) \in Nat /\ DOMAIN more = 1 .. Len(more)
    BY <1>2
  <2>3. \A i \in DOMAIN more : 3 + i \in 1 .. 3 + Len(more) /\ ~ 3 + i <= 3 /\ (3 + i) - 3 = i
    BY <2>2
  <2>4. \A i \in 1 .. 3 : i \in 1 .. 3 + Len(more) /\ i <= 3
    BY <2>2
  <2> QED
    BY <2>1, <2>3, <2>4
<1>5. Apart(own \o more)
  <2> SUFFICES ASSUME NEW i \in DOMAIN (own \o more), NEW j \in DOMAIN (own \o more),
                      (own \o more)[i].field.stem = (own \o more)[j].field.stem
               PROVE  i = j
    BY DEF Apart
  <2>1. /\ i \in Nat /\ j \in Nat /\ 1 <= i /\ 1 <= j /\ i <= 3 + Len(more) /\ j <= 3 + Len(more) /\ Len(more) \in Nat
        /\ DOMAIN more = 1 .. Len(more)
    BY <1>2, <1>4
  <2>2. \A n \in 1 .. 3 : (own \o more)[n].field.stem \in {"name", "kind", "source", "report"}
    <3> TAKE n \in 1 .. 3
    <3>1. n = 1 \/ n = 2 \/ n = 3
      OBVIOUS
    <3> QED
      BY <1>3, <1>4, <3>1
  <2>3. \A n \in Nat : 3 < n /\ n <= 3 + Len(more)
          => n - 3 \in DOMAIN more /\ (own \o more)[n] = more[n - 3]
    <3> TAKE n \in Nat
    <3> HAVE 3 < n /\ n <= 3 + Len(more)
    <3>1. n - 3 \in DOMAIN more /\ 3 + (n - 3) = n
      BY <2>1
    <3> QED
      BY <1>4, <3>1
  <2>4. CASE i <= 3 /\ j <= 3
    <3>1. (i = 1 \/ i = 2 \/ i = 3) /\ (j = 1 \/ j = 2 \/ j = 3)
      BY <2>1, <2>4
    <3>2. /\ (own \o more)[1].field.stem = "name" /\ (own \o more)[2].field.stem = "kind"
          /\ (own \o more)[3].field.stem \in {"source", "report"}
      BY <1>3, <1>4
    <3>3. CASE i = 1
      BY <3>1, <3>2, <3>3
    <3>4. CASE i = 2
      BY <3>1, <3>2, <3>4
    <3>5. CASE i = 3
      BY <3>1, <3>2, <3>5
    <3> QED
      BY <3>1, <3>3, <3>4, <3>5
  <2>5. CASE i <= 3 /\ 3 < j
    <3>1. i \in 1 .. 3
      BY <2>1, <2>5
    <3> QED
      BY <3>1, <2>1, <2>2, <2>3, <2>5, <1>2
  <2>6. CASE 3 < i /\ j <= 3
    <3>1. j \in 1 .. 3
      BY <2>1, <2>6
    <3> QED
      BY <3>1, <2>1, <2>2, <2>3, <2>6, <1>2
  <2>7. CASE 3 < i /\ 3 < j
    <3>0. i - 3 \in DOMAIN more /\ j - 3 \in DOMAIN more /\ more[i - 3].field.stem = more[j - 3].field.stem
      BY <2>1, <2>3, <2>7
    <3>1. i - 3 = j - 3
      BY <3>0, <1>2 DEF Apart
    <3> QED
      BY <3>1, <2>1
  <2> QED
    BY <2>1, <2>4, <2>5, <2>6, <2>7
<1> QED
  BY <1>4, <1>5 DEF Asked, own, more

-----------------------------------------------------------------------------
(* Reading one setting                                                      *)

\* A field is its own first spelling, and keeps its stem in all of them.
LEMMA SpellingFacts ==
  ASSUME NEW field
  PROVE  /\ Spellings(field)[1] = field
         /\ DOMAIN Spellings(field) \in {1 .. 2, 1 .. 3}
         /\ \A i \in DOMAIN Spellings(field) : Spellings(field)[i].stem = field.stem
<1>1. \A stem, ending : Field(stem, ending).stem = stem /\ Plain(stem).stem = stem
  BY DEF Field, Plain
<1> DEFINE a == Plain(field.stem)  b == Field(field.stem, "ys")  c == Field(field.stem, "ies")  d == Field(field.stem, "s")
<1>2. Spellings(field) \in {<<field, a>>, <<field, b, c>>, <<field, d>>}
  BY DEF Spellings
<1>3. a.stem = field.stem /\ b.stem = field.stem /\ c.stem = field.stem /\ d.stem = field.stem
  BY <1>1
<1> HIDE DEF a, b, c, d
<1>4. CASE Spellings(field) = <<field, a>>
  BY <1>3, <1>4
<1>5. CASE Spellings(field) = <<field, b, c>>
  BY <1>3, <1>5
<1>6. CASE Spellings(field) = <<field, d>>
  BY <1>3, <1>6
<1> QED
  BY <1>2, <1>4, <1>5, <1>6

\* What is read is the first spelling that is there.
LEMMA SpelledFacts ==
  ASSUME NEW p, NEW field, IsGiven(p, field)
  PROVE  /\ Spelled(p, field) \in DOMAIN p /\ Spelled(p, field) \in Range(Spellings(field))
         /\ Spelled(p, field).stem = field.stem
         /\ field \in DOMAIN p => Spelled(p, field) = field
<1> DEFINE all == GivenAs(p, field)  first == CHOOSE i \in all : \A j \in all : i <= j
<1>0. 1 \in DOMAIN Spellings(field) /\ DOMAIN Spellings(field) \subseteq 1 .. 3
  BY SpellingFacts
<1>1. all \subseteq DOMAIN Spellings(field) /\ all # {} /\ \A i \in all : i = 1 \/ i = 2 \/ i = 3
  BY <1>0 DEF GivenAs, IsGiven
<1>2. \E i \in all : \A j \in all : i <= j
  <2> HIDE DEF all
  <2>1. CASE 1 \in all
    BY <1>1, <2>1
  <2>2. CASE 1 \notin all /\ 2 \in all
    BY <1>1, <2>2
  <2>3. CASE 1 \notin all /\ 2 \notin all
    BY <1>1, <2>3
  <2> QED
    BY <2>1, <2>2, <2>3
<1>3. first \in all /\ \A j \in all : first <= j
  BY <1>2
<1>4. Spelled(p, field) = Spellings(field)[first]
  BY DEF Spelled
<1>5. Spellings(field)[first] \in DOMAIN p
  BY <1>3 DEF GivenAs
<1>6. field \in DOMAIN p => 1 \in all
  BY <1>0, SpellingFacts DEF GivenAs
<1> HIDE DEF all, first
<1>7. 1 \in all => first = 1
  BY <1>1, <1>3
<1> QED
  BY <1>1, <1>3, <1>4, <1>5, <1>6, <1>7, SpellingFacts DEF Range

\* Whoever has taken fields of another stem has not disturbed what is read now.
LEMMA Undisturbed ==
  ASSUME NEW p, NEW taken, NEW ask, \A f \in taken : f.stem # ask.field.stem
  PROVE  LET s == Restrict(p, DOMAIN p \ taken)
         IN  /\ IsGiven(s, ask.field) = IsGiven(p, ask.field)
             /\ IsGiven(p, ask.field) => Spelled(s, ask.field) = Spelled(p, ask.field)
             /\ Result(s, ask) = Result(p, ask)
             /\ Readable(s, ask) = Readable(p, ask)
             /\ Passes(s, ask) = Passes(p, ask)
             /\ Crashes(s, ask) = Crashes(p, ask)
<1> DEFINE s == Restrict(p, DOMAIN p \ taken)  field == ask.field
<1>1. DOMAIN s = DOMAIN p \ taken /\ \A f \in DOMAIN s : s[f] = p[f]
  BY DEF Restrict
<1> HIDE DEF s
<1>2. GivenAs(s, field) = GivenAs(p, field)
  BY <1>1, SpellingFacts DEF GivenAs
<1>3. IsGiven(s, field) = IsGiven(p, field) /\ Spelled(s, field) = Spelled(p, field)
  BY <1>2 DEF IsGiven, Spelled
<1>4. IsGiven(p, field) => Given(s, field) = Given(p, field)
  <2> SUFFICES ASSUME IsGiven(p, field) PROVE Given(s, field) = Given(p, field)
    OBVIOUS
  <2>1. Spelled(s, field) \in DOMAIN s
    BY <1>3, SpelledFacts
  <2> QED
    BY <1>1, <1>3, <2>1 DEF Given
<1>5. Result(s, ask) = Result(p, ask)
  BY <1>3, <1>4 DEF Result
<1>6. Readable(s, ask) = Readable(p, ask)
  BY <1>3, <1>4 DEF Readable
<1>7. Passes(s, ask) = Passes(p, ask)
  BY <1>5 DEF Passes
<1>8. Crashes(s, ask) = Crashes(p, ask)
  BY <1>3, <1>4 DEF Crashes
<1> QED
  BY <1>3, <1>5, <1>6, <1>7, <1>8 DEF s

\* What is read is a list of texts, a single one where no list is wanted.
LEMMA TextsFacts ==
  ASSUME NEW value \in Values, NEW many \in BOOLEAN, WellTyped(value, many)
  PROVE  /\ Texts(value) \in Seq(Names) /\ Len(Texts(value)) = Len(value.of)
         /\ ~ many => Len(value.of) = 1
<1>1. /\ value.of \in Seq(Names \cup {Number, Null, Odd})
      /\ value.list \/ Len(value.of) = 1
  BY DEF Values
<1>2. \A a : Convertible(a) => Convert(a) \in Names
  BY LoadAssumption DEF Convertible, Convert
<1>3. \A i \in DOMAIN value.of : Convertible(value.of[i])
  <2>1. CASE value.list
    BY <2>1 DEF WellTyped
  <2>2. CASE ~ value.list
    <3>1. Len(value.of) = 1 /\ value.of[1] \in Names
      BY <1>1, <2>2 DEF WellTyped
    <3>2. \A i \in DOMAIN value.of : i = 1
      BY <1>1, <3>1
    <3> QED
      BY <3>1, <3>2 DEF Convertible
  <2> QED
    BY <2>1, <2>2
<1>4. ~ many => ~ value.list
  BY DEF WellTyped
<1>5. DOMAIN value.of = 1 .. Len(value.of) /\ Len(value.of) \in Nat
  BY <1>1
<1>6. Texts(value) \in [1 .. Len(value.of) -> Names]
  BY <1>2, <1>3, <1>5 DEF Texts
<1> QED
  BY <1>1, <1>4, <1>5, <1>6

LEMMA ResultFacts ==
  ASSUME NEW p, p \in [DOMAIN p -> Values], NEW ask \in AskType
  PROVE  /\ Readable(p, ask) => Result(p, ask) \in Seq(Names)
         /\ Readable(p, ask) /\ ~ ask.many /\ (~ ask.needed => Len(ask.default) = 1) => Len(Result(p, ask)) = 1
         /\ Crashes(p, ask) => ~ Readable(p, ask) /\ \E f \in DOMAIN p : Null \in Range(p[f].of)
<1>1. ask.many \in BOOLEAN /\ ask.needed \in BOOLEAN /\ ask.default \in Seq(Names)
  BY DEF AskType
<1>2. IsGiven(p, ask.field) => Given(p, ask.field) \in Values
  BY SpelledFacts DEF Given
<1>3. ASSUME Readable(p, ask)
      PROVE  Result(p, ask) \in Seq(Names) /\ (~ ask.many /\ (~ ask.needed => Len(ask.default) = 1) => Len(Result(p, ask)) = 1)
  <2>1. CASE IsGiven(p, ask.field)
    <3>1. WellTyped(Given(p, ask.field), ask.many)
      BY <1>3, <2>1 DEF Readable
    <3> QED
      BY <1>1, <1>2, <2>1, <3>1, TextsFacts DEF Result
  <2>2. CASE ~ IsGiven(p, ask.field)
    BY <1>1, <1>3, <2>2 DEF Readable, Result
  <2> QED
    BY <2>1, <2>2
<1>4. ASSUME Crashes(p, ask)
      PROVE  ~ Readable(p, ask) /\ \E f \in DOMAIN p : Null \in Range(p[f].of)
  <2> DEFINE value == Given(p, ask.field)
  <2>1. IsGiven(p, ask.field) /\ \E i \in DOMAIN value.of : value.of[i] = Null
    BY <1>4 DEF Crashes, Panics
  <2>2. ~ Convertible(Null) /\ Null \notin Names
    BY LoadAssumption DEF Convertible
  <2>3. value \in Values
    BY <1>2, <2>1
  <2>4. ~ WellTyped(value, ask.many)
    <3> SUFFICES ASSUME WellTyped(value, ask.many) PROVE FALSE
      OBVIOUS
    <3> PICK i \in DOMAIN value.of : value.of[i] = Null
      BY <2>1
    <3>1. CASE value.list
      BY <2>2, <3>1 DEF WellTyped
    <3>2. CASE ~ value.list
      <4>1. value.of[1] \in Names
        BY <3>2 DEF WellTyped
      <4>2. Len(value.of) = 1 /\ value.of \in Seq(Names \cup {Number, Null, Odd})
        BY <2>3, <3>2 DEF Values
      <4>3. i = 1
        BY <4>2
      <4> QED
        BY <2>2, <4>1, <4>3
    <3> QED
      BY <3>1, <3>2
  <2>5. ~ Readable(p, ask)
    BY <2>1, <2>4 DEF Readable
  <2>6. Null \in Range(value.of)
    BY <2>1 DEF Range
  <2>7. Spelled(p, ask.field) \in DOMAIN p /\ value = p[Spelled(p, ask.field)]
    BY <2>1, SpelledFacts DEF Given
  <2> QED
    BY <2>5, <2>6, <2>7
<1> QED
  BY <1>3, <1>4

\* What the first k questions take out of the settings p, and what they get.
Taken(p, all, k) == {Spelled(p, all[i].field) : i \in {j \in 1 .. k : IsGiven(p, all[j].field)}}

GotOf(g, p, all, k) ==
  /\ g = [f \in DOMAIN g |-> g[f]]
  /\ DOMAIN g = {all[i].field : i \in 1 .. k}
  /\ \A i \in 1 .. k : g[all[i].field] = Result(p, all[i])

ReadFirst(p, all, k, s, g) ==
  /\ \A i \in 1 .. k : Readable(p, all[i]) /\ Passes(p, all[i])
  /\ GotOf(g, p, all, k)
  /\ s = Restrict(p, DOMAIN p \ Taken(p, all, k))

\* The next question is answered as if nothing had been taken yet.
LEMMA ReadOn ==
  ASSUME NEW p, NEW all \in Seq(AskType), Apart(all), NEW k \in Nat, k < Len(all),
         NEW s, NEW g, ReadFirst(p, all, k, s, g)
  PROVE  LET ask == all[k + 1]
         IN  /\ IsGiven(s, ask.field) = IsGiven(p, ask.field)
             /\ IsGiven(p, ask.field) => Spelled(s, ask.field) = Spelled(p, ask.field)
             /\ Result(s, ask) = Result(p, ask)
             /\ Readable(s, ask) = Readable(p, ask)
             /\ Passes(s, ask) = Passes(p, ask)
             /\ Crashes(s, ask) = Crashes(p, ask)
<1> DEFINE ask == all[k + 1]  taken == Taken(p, all, k)
<1>1. k + 1 \in DOMAIN all /\ \A i \in 1 .. k : i \in DOMAIN all /\ i # k + 1
  OBVIOUS
<1>2. \A f \in taken : f.stem # ask.field.stem
  <2> TAKE f \in taken
  <2>1. PICK i \in 1 .. k : IsGiven(p, all[i].field) /\ f = Spelled(p, all[i].field)
    BY DEF Taken
  <2>2. f.stem = all[i].field.stem
    BY <2>1, SpelledFacts
  <2> QED
    BY <1>1, <2>2 DEF Apart
<1>3. s = Restrict(p, DOMAIN p \ taken)
  BY DEF ReadFirst
<1> HIDE DEF taken, ask
<1> QED
  BY <1>2, <1>3, Undisturbed DEF ask

LEMMA ReadNext ==
  ASSUME NEW p, NEW all \in Seq(AskType), Apart(all), NEW k \in Nat, k < Len(all),
         NEW s, NEW g, ReadFirst(p, all, k, s, g),
         Readable(p, all[k + 1]), Passes(p, all[k + 1]),
         NEW t, t = IF IsGiven(s, all[k + 1].field) THEN Restrict(s, DOMAIN s \ {Spelled(s, all[k + 1].field)}) ELSE s,
         NEW h, h = [f \in DOMAIN g \cup {all[k + 1].field} |-> IF f = all[k + 1].field THEN Result(s, all[k + 1]) ELSE g[f]]
  PROVE  ReadFirst(p, all, k + 1, t, h)
<1> DEFINE ask == all[k + 1]
<1>1. /\ IsGiven(s, ask.field) = IsGiven(p, ask.field)
      /\ IsGiven(p, ask.field) => Spelled(s, ask.field) = Spelled(p, ask.field)
      /\ Result(s, ask) = Result(p, ask)
  BY ReadOn
<1>2. 1 .. k + 1 = (1 .. k) \cup {k + 1} /\ k + 1 \in DOMAIN all /\ \A i \in 1 .. k : i \in DOMAIN all /\ i # k + 1
  OBVIOUS
<1>3. \A i \in 1 .. k + 1 : Readable(p, all[i]) /\ Passes(p, all[i])
  BY <1>2 DEF ReadFirst
<1>4. GotOf(h, p, all, k + 1)
  <2>1. \A i \in 1 .. k : all[i].field # ask.field
    BY <1>2 DEF Apart
  <2>2. GotOf(g, p, all, k)
    BY DEF ReadFirst
  <2>3. DOMAIN h = {all[i].field : i \in 1 .. k + 1} /\ h = [f \in DOMAIN h |-> h[f]]
    BY <1>2, <2>2 DEF GotOf
  <2>4. \A i \in 1 .. k + 1 : h[all[i].field] = Result(p, all[i])
    <3>1. h[ask.field] = Result(p, ask)
      BY <1>1
    <3>2. \A i \in 1 .. k : h[all[i].field] = Result(p, all[i])
      BY <2>1, <2>2 DEF GotOf
    <3> QED
      BY <1>2, <3>1, <3>2
  <2> QED
    BY <2>3, <2>4 DEF GotOf
<1>5. t = Restrict(p, DOMAIN p \ Taken(p, all, k + 1))
  <2>1. s = Restrict(p, DOMAIN p \ Taken(p, all, k))
    BY DEF ReadFirst
  <2>2. CASE IsGiven(p, ask.field)
    <3>1. Taken(p, all, k + 1) = Taken(p, all, k) \cup {Spelled(p, ask.field)}
      BY <1>2, <2>2 DEF Taken
    <3>2. t = Restrict(s, DOMAIN s \ {Spelled(p, ask.field)})
      BY <1>1, <2>2
    <3> QED
      BY <2>1, <3>1, <3>2 DEF Restrict
  <2>3. CASE ~ IsGiven(p, ask.field)
    <3>1. Taken(p, all, k + 1) = Taken(p, all, k)
      BY <1>2, <2>3 DEF Taken
    <3> QED
      BY <1>1, <2>1, <2>3, <3>1
  <2> QED
    BY <2>2, <2>3
<1> QED
  BY <1>3, <1>4, <1>5 DEF ReadFirst

-----------------------------------------------------------------------------
(* A plugin as the file has it                                              *)

IsSettings(p) == p \in [DOMAIN p -> Values]

\* What is asked of a plugin whose kind is known.
LEMMA AllAsksFacts ==
  ASSUME NEW class \in Classes, NEW p, SaidKind(class, p) \in DOMAIN Makers(class)
  PROVE  /\ AllAsks(class, p) = Asked(class, SaidKind(class, p))
         /\ AllAsks(class, p) \in Seq(AskType) /\ Apart(AllAsks(class, p))
         /\ Len(AllAsks(class, p)) = 3 + Len(Makers(class)[SaidKind(class, p)].asks)
         /\ Len(Makers(class)[SaidKind(class, p)].asks) \in Nat
         /\ \A i \in 1 .. 3 : AllAsks(class, p)[i] = Own(class)[i]
         /\ \A i \in DOMAIN Makers(class)[SaidKind(class, p)].asks :
              AllAsks(class, p)[3 + i] = Makers(class)[SaidKind(class, p)].asks[i]
         /\ OwnFirst(class, p) = Taken(p, AllAsks(class, p), 3)
<1>1. AllAsks(class, p) = Asked(class, SaidKind(class, p))
  BY DEF AllAsks, Asked
<1>2. Makers(class)[SaidKind(class, p)].asks \in Seq(AskType)
  BY MakersGood DEF GoodMaker
<1>3. \A i \in 1 .. 3 : AllAsks(class, p)[i] = Own(class)[i]
  BY <1>1, AskedFacts
<1>4. OwnFirst(class, p) = Taken(p, AllAsks(class, p), 3)
  BY <1>3 DEF OwnFirst, Taken
<1> QED
  BY <1>1, <1>2, <1>3, <1>4, AskedFacts

\* The plugin's own three fields, and no others, are asked of every one.
LEMMA OwnApart ==
  ASSUME NEW class \in Classes
  PROVE  Apart(Own(class))
<1> DEFINE own == Own(class)
<1>1. own \in Seq(AskType) /\ Len(own) = 3 /\ own[1].field = Plain("name") /\ own[2].field = Plain("kind")
      /\ (own[3].field = Plain("report") \/ own[3].field = Plain("source"))
  BY OwnFacts
<1>2. \A stem : Plain(stem).stem = stem
  BY DEF Plain, Field
<1> HIDE DEF own
<1>3. \A i \in DOMAIN own : i = 1 \/ i = 2 \/ i = 3
  BY <1>1
<1>4. own[1].field.stem = "name" /\ own[2].field.stem = "kind" /\ own[3].field.stem \in {"report", "source"}
  BY <1>1, <1>2
<1>5. Apart(own)
  BY <1>3, <1>4 DEF Apart
<1> QED
  BY <1>5 DEF own

\* Once everything is read, it is what the file says.
LEMMA SaidFacts ==
  ASSUME NEW class \in Classes, NEW p, SaidKind(class, p) \in DOMAIN Makers(class),
         NEW g, GotOf(g, p, AllAsks(class, p), Len(AllAsks(class, p)))
  PROVE  g = Said(class, p)
<1> DEFINE all == AllAsks(class, p)  at(f) == CHOOSE i \in DOMAIN all : all[i].field = f
<1>1. all \in Seq(AskType) /\ Apart(all)
  BY AllAsksFacts
<1>2. Said(class, p) = [f \in {all[i].field : i \in DOMAIN all} |-> Result(p, all[at(f)])]
  BY DEF Said
<1>3. /\ g = [f \in DOMAIN g |-> g[f]] /\ DOMAIN g = {all[i].field : i \in DOMAIN all}
      /\ \A i \in DOMAIN all : g[all[i].field] = Result(p, all[i])
  BY <1>1 DEF GotOf
<1> HIDE DEF all
<1>4. \A f \in DOMAIN g : g[f] = Result(p, all[at(f)])
  <2> TAKE f \in DOMAIN g
  <2>1. \E i \in DOMAIN all : all[i].field = f
    BY <1>3
  <2>2. at(f) \in DOMAIN all /\ all[at(f)].field = f
    BY <2>1
  <2> QED
    BY <1>3, <2>2
<1> QED
  BY <1>2, <1>3, <1>4

LEMMA SaidAt ==
  ASSUME NEW class \in Classes, NEW p, SaidKind(class, p) \in DOMAIN Makers(class), NEW i \in DOMAIN AllAsks(class, p)
  PROVE  /\ AllAsks(class, p)[i].field \in DOMAIN Said(class, p)
         /\ Said(class, p)[AllAsks(class, p)[i].field] = Result(p, AllAsks(class, p)[i])
<1> DEFINE all == AllAsks(class, p)  at(f) == CHOOSE j \in DOMAIN all : all[j].field = f
<1>1. all \in Seq(AskType) /\ Apart(all)
  BY AllAsksFacts
<1>2. Said(class, p) = [f \in {all[j].field : j \in DOMAIN all} |-> Result(p, all[at(f)])]
  BY DEF Said
<1> HIDE DEF all
<1>3. at(all[i].field) = i
  BY <1>1 DEF Apart, all
<1> QED
  BY <1>2, <1>3 DEF all

\* A field is written where it is looked for.
Cut(class, p) ==
  \A g \in DOMAIN p : \A kind \in DOMAIN Makers(class) : \A i \in DOMAIN Asked(class, kind) :
    g.stem = Asked(class, kind)[i].field.stem => g \in Range(Spellings(Asked(class, kind)[i].field))

\* What is read of a sound plugin is what is written for it, or the default.
LEMMA ReadAsWritten ==
  ASSUME NEW class \in Classes, NEW p, Sound(class, p), Cut(class, p), NEW k \in DOMAIN AllAsks(class, p)
  PROVE  LET ask == AllAsks(class, p)[k]
             said == {f \in DOMAIN p : f.stem = ask.field.stem}
         IN  Said(class, p)[ask.field] \in IF said = {} THEN {ask.default} ELSE {Texts(p[f]) : f \in said}
<1> DEFINE ask == AllAsks(class, p)[k]  said == {f \in DOMAIN p : f.stem = ask.field.stem}
<1>1. SaidKind(class, p) \in DOMAIN Makers(class)
  BY DEF Sound
<1>2. Said(class, p)[ask.field] = Result(p, ask)
  BY <1>1, SaidAt
<1>3. CASE IsGiven(p, ask.field)
  <2>1. Spelled(p, ask.field) \in said
    BY <1>3, SpelledFacts
  <2>2. Result(p, ask) = Texts(p[Spelled(p, ask.field)])
    BY <1>3 DEF Result, Given
  <2> QED
    BY <1>2, <2>1, <2>2
<1>4. CASE ~ IsGiven(p, ask.field)
  <2>1. said = {}
    <3> SUFFICES ASSUME NEW g \in said PROVE FALSE
      OBVIOUS
    <3>1. k \in DOMAIN Asked(class, SaidKind(class, p)) /\ ask = Asked(class, SaidKind(class, p))[k]
      BY <1>1, AllAsksFacts
    <3>2. g \in DOMAIN p /\ g \in Range(Spellings(ask.field))
      BY <1>1, <3>1 DEF Cut
    <3>3. GivenAs(p, ask.field) # {}
      BY <3>2 DEF GivenAs, Range
    <3> QED
      BY <1>4, <3>3 DEF IsGiven
  <2>2. Result(p, ask) = ask.default
    BY <1>4 DEF Result
  <2> QED
    BY <1>2, <2>1, <2>2
<1> QED
  BY <1>3, <1>4

\* What nobody has taken.
Rest(class, p) == Restrict(p, DOMAIN p \ Taken(p, AllAsks(class, p), Len(AllAsks(class, p))))

\* It is a second spelling, or one of the settings that are let pass.
LEMMA RestIsKnown ==
  ASSUME NEW class \in Classes, NEW p, Sound(class, p), NEW f \in DOMAIN Rest(class, p)
  PROVE  \/ \E g \in DOMAIN Said(class, p) : g # f /\ g.stem = f.stem
         \/ SaidKind(class, p) = "dns" /\ f.stem = "interval"
         \/ SaidKind(class, p) = "upnp" \/ class = "report"
<1> DEFINE kind == SaidKind(class, p)  all == AllAsks(class, p)  maker == Makers(class)[kind]
<1>1. kind \in DOMAIN Makers(class) /\ MayHave(maker, DOMAIN p \ OwnFirst(class, p))
  BY DEF Sound
<1>2. all \in Seq(AskType) /\ Len(all) \in Nat /\ 3 <= Len(all) /\ OwnFirst(class, p) = Taken(p, all, 3)
  BY <1>1, AllAsksFacts
<1>3. f \in DOMAIN p /\ f \notin Taken(p, all, Len(all))
  BY DEF Rest, Restrict
<1>4. f \in DOMAIN p \ OwnFirst(class, p)
  <2>1. 1 .. 3 \subseteq 1 .. Len(all)
    BY <1>2
  <2>2. Taken(p, all, 3) \subseteq Taken(p, all, Len(all))
    BY <2>1 DEF Taken
  <2> QED
    BY <1>2, <1>3, <2>2
<1>5. CASE maker.open
  BY <1>1, <1>5, MakersGood
<1>6. CASE ~ maker.open
  <2>1. PICK h \in maker.also \cup {maker.asks[i].field : i \in DOMAIN maker.asks} : f \in Range(Spellings(h))
    BY <1>1, <1>4, <1>6 DEF MayHave
  <2>2. f.stem = h.stem
    BY <2>1, SpellingFacts DEF Range
  <2>3. ASSUME NEW j \in DOMAIN all, h = all[j].field
        PROVE  \E g \in DOMAIN Said(class, p) : g # f /\ g.stem = f.stem
    <3>1. h \in DOMAIN Said(class, p)
      BY <1>1, <2>3, SaidAt
    <3>2. h # f
      <4> SUFFICES ASSUME h = f PROVE FALSE
        OBVIOUS
      <4>1. IsGiven(p, h)
        <5>0. DOMAIN Spellings(h) \in {1 .. 2, 1 .. 3} /\ Spellings(h)[1] = h
          BY SpellingFacts
        <5>1. 1 \in DOMAIN Spellings(h) /\ Spellings(h)[1] = h
          BY <5>0
        <5> QED
          BY <1>3, <5>1 DEF IsGiven, GivenAs
      <4>2. Spelled(p, h) = f
        BY <1>3, <4>1, SpelledFacts
      <4>3. j \in 1 .. Len(all)
        BY <1>2
      <4> QED
        BY <1>3, <2>3, <4>1, <4>2, <4>3 DEF Taken
    <3> QED
      BY <2>2, <3>1, <3>2
  <2>4. CASE h \in maker.also
    <3>1. \/ h = Plain("interval") /\ kind = "dns"
          \/ h = Plain("report") /\ class = "publisher"
      BY <1>1, <2>4, MakersGood
    <3>2. CASE h = Plain("interval") /\ kind = "dns"
      <4>1. Plain("interval").stem = "interval"
        BY DEF Plain, Field
      <4> QED
        BY <2>2, <3>2, <4>1
    <3>3. CASE h = Plain("report") /\ class = "publisher"
      <4>1. all[3] = Own(class)[3] /\ Own(class)[3].field = Plain("report") /\ 3 \in DOMAIN all
        BY <1>1, <1>2, <3>3, AllAsksFacts, OwnFacts
      <4> QED
        BY <2>3, <3>3, <4>1
    <3> QED
      BY <3>1, <3>2, <3>3
  <2>5. CASE h \in {maker.asks[i].field : i \in DOMAIN maker.asks}
    <3>1. PICK i \in DOMAIN maker.asks : h = maker.asks[i].field
      BY <2>5
    <3>2. all[3 + i] = maker.asks[i] /\ Len(all) = 3 + Len(maker.asks) /\ Len(maker.asks) \in Nat
      BY <1>1, AllAsksFacts
    <3>3. maker.asks \in Seq(AskType)
      BY <1>1, MakersGood DEF GoodMaker
    <3>4. 3 + i \in DOMAIN all
      BY <1>2, <3>2, <3>3
    <3> QED
      BY <2>3, <3>1, <3>2, <3>4
  <2> QED
    BY <2>1, <2>4, <2>5
<1> QED
  BY <1>5, <1>6

-----------------------------------------------------------------------------
(* What holds at every step                                                 *)

Count == Len(file.plugins) - Len(left)  \* how many are loaded

\* All that is read at this stage of the plugin at hand.
Stage == IF phase = "plugin" THEN Own(file.class) ELSE Asked(file.class, SaidKind(file.class, Head(left)))

\* The plugins are taken from the front of the list.
LeftInv ==
  /\ file \in Files
  /\ phase \in {"opening", "loading", "plugin", "impl", "failed", "crashed"}
  /\ left \in Seq(Range(file.plugins)) /\ Len(left) <= Len(file.plugins)
  /\ \A i \in DOMAIN left : left[i] = file.plugins[Count + i]

\* The plugin at hand has been read up to a point, as the file has it, and its name is new.
HandInv ==
  phase \in {"plugin", "impl"} =>
    /\ left # <<>>
    /\ phase = "impl" =>
         LET kind == SaidKind(file.class, Head(left))
         IN  /\ kind \in DOMAIN Makers(file.class)
             /\ MayHave(Makers(file.class)[kind], DOMAIN Head(left) \ OwnFirst(file.class, Head(left)))
    /\ \E k \in 0 .. Len(Stage) :
         /\ asks = SubSeq(Stage, k + 1, Len(Stage))
         /\ ReadFirst(Head(left), Stage, k, settings, got)
         /\ phase = "impl" => k >= 3
         /\ k >= 1 => NameOf(got[Plain("name")][1]) \notin DOMAIN loaded

\* What is loaded is what the file says, one after the other.
LoadedInv ==
  /\ IsFiniteSet(DOMAIN loaded) /\ Cardinality(DOMAIN loaded) = Count
  /\ DOMAIN loaded = {NameIn(i) : i \in 1 .. Count}
  /\ \A i \in 1 .. Count :
       /\ Sound(file.class, file.plugins[i])
       /\ loaded[NameIn(i)] = [got |-> Said(file.class, file.plugins[i]), over |-> Rest(file.class, file.plugins[i])]

\* Names and settings are texts.
TextInv ==
  /\ DOMAIN loaded \subseteq Names
  /\ \A f \in DOMAIN got : got[f] \in Seq(Names)
  /\ \A n \in DOMAIN loaded : \A f \in DOMAIN loaded[n].got : loaded[n].got[f] \in Seq(Names)

\* Nobody comes back to a plugin that has ended the program; it was not sound.
EndInv ==
  /\ SoundIsLoaded
  /\ phase \in {"failed", "crashed"} => left # <<>>
  /\ phase = "crashed" => ~ Sound(file.class, Head(left))

Inv == LeftInv /\ HandInv /\ LoadedInv /\ TextInv /\ EndInv

LEMMA FileFacts ==
  ASSUME NEW f \in Files
  PROVE  /\ f.class \in Classes /\ f.plugins \in Seq(Range(f.plugins))
         /\ Len(f.plugins) \in Nat /\ Len(f.plugins) <= Len(Numbered) /\ DOMAIN f.plugins = 1 .. Len(f.plugins)
         /\ \A i \in DOMAIN f.plugins : IsSettings(f.plugins[i]) /\ Cut(f.class, f.plugins[i])
<1>1. f.class \in Classes /\ f.plugins \in Seq(Range(f.plugins)) /\ Len(f.plugins) <= Len(Numbered)
  BY LoadAssumption DEF Classes
<1>2. \A i \in DOMAIN f.plugins : f.plugins[i] \in Range(f.plugins)
  BY DEF Range
<1>3. \A i \in DOMAIN f.plugins : IsSettings(f.plugins[i])
  BY <1>2, LoadAssumption DEF IsSettings
<1>4. \A i \in DOMAIN f.plugins : Cut(f.class, f.plugins[i])
  BY <1>2, FieldsAreCut DEF Cut, Asked
<1> QED
  BY <1>1, <1>3, <1>4

LEMMA LeftFacts ==
  ASSUME LeftInv
  PROVE  /\ file.class \in Classes /\ Count \in Nat /\ Len(file.plugins) \in Nat /\ Len(left) \in Nat
         /\ Count <= Len(file.plugins) /\ Len(left) = Len(file.plugins) - Count /\ DOMAIN file.plugins = 1 .. Len(file.plugins)
         /\ left # <<>> => /\ Count + 1 \in DOMAIN file.plugins /\ Len(left) >= 1
                           /\ Head(left) = file.plugins[Count + 1] /\ IsSettings(Head(left)) /\ Cut(file.class, Head(left))
<1>1. file \in Files /\ left \in Seq(Range(file.plugins)) /\ Len(left) <= Len(file.plugins)
      /\ \A i \in DOMAIN left : left[i] = file.plugins[Count + i]
  BY DEF LeftInv
<1>2. Len(left) \in Nat /\ Len(file.plugins) \in Nat /\ file.class \in Classes /\ DOMAIN file.plugins = 1 .. Len(file.plugins)
  BY <1>1, FileFacts
<1>3. Count \in Nat /\ Count <= Len(file.plugins) /\ Len(left) = Len(file.plugins) - Count
  BY <1>1, <1>2 DEF Count
<1>4. ASSUME left # <<>>
      PROVE  /\ Count + 1 \in DOMAIN file.plugins /\ Len(left) >= 1
             /\ Head(left) = file.plugins[Count + 1]
  <2>1. Len(left) >= 1 /\ 1 \in DOMAIN left /\ Head(left) = left[1]
    BY <1>1, <1>4
  <2> QED
    BY <1>1, <1>2, <1>3, <2>1
<1> QED
  BY <1>1, <1>2, <1>3, <1>4, FileFacts

\* The first three questions of both stages are the plugin's own.
LEMMA StageFacts ==
  ASSUME LeftInv, HandInv, phase \in {"plugin", "impl"}
  PROVE  /\ Stage \in Seq(AskType) /\ Apart(Stage) /\ Len(Stage) \in Nat /\ Len(Stage) >= 3
         /\ DOMAIN Stage = 1 .. Len(Stage)
         /\ \A i \in 1 .. 3 : Stage[i] = Own(file.class)[i]
         /\ Stage[1].field = Plain("name") /\ Stage[2].field = Plain("kind")
         /\ phase = "plugin" => Len(Stage) = 3
         /\ phase = "impl" => Stage = AllAsks(file.class, Head(left))
         /\ SaidKind(file.class, Head(left)) \in DOMAIN Makers(file.class)
              => \A i \in 1 .. Len(Stage) : /\ i \in DOMAIN AllAsks(file.class, Head(left))
                                            /\ AllAsks(file.class, Head(left))[i] = Stage[i]
<1> DEFINE class == file.class  p == Head(left)  own == Own(class)
<1>1. class \in Classes
  BY LeftFacts
<1>2. own \in Seq(AskType) /\ Len(own) = 3 /\ Apart(own) /\ own[1].field = Plain("name") /\ own[2].field = Plain("kind")
  BY <1>1, OwnFacts, OwnApart
<1>3. CASE phase = "plugin"
  <2>1. Stage = own
    BY <1>3 DEF Stage
  <2>2. SaidKind(class, p) \in DOMAIN Makers(class)
          => \A i \in 1 .. 3 : i \in DOMAIN AllAsks(class, p) /\ AllAsks(class, p)[i] = own[i]
    BY <1>1, AllAsksFacts
  <2> HIDE DEF own, p, class
  <2>3. /\ Stage \in Seq(AskType) /\ Apart(Stage) /\ Len(Stage) = 3 /\ DOMAIN Stage = 1 .. 3
        /\ \A i \in 1 .. 3 : Stage[i] = own[i]
    BY <1>2, <2>1
  <2>4. Stage[1].field = Plain("name") /\ Stage[2].field = Plain("kind")
    BY <1>2, <2>1
  <2>5. phase # "impl"
    BY <1>3
  <2> QED
    BY <2>2, <2>3, <2>4, <2>5, <2>1 DEF own, p, class
<1>4. CASE phase = "impl"
  <2>1. SaidKind(class, p) \in DOMAIN Makers(class)
    BY <1>4 DEF HandInv
  <2>2. Stage = AllAsks(class, p)
    BY <1>1, <1>4, <2>1, AllAsksFacts DEF Stage
  <2>3. /\ AllAsks(class, p) \in Seq(AskType) /\ Apart(AllAsks(class, p)) /\ Len(AllAsks(class, p)) >= 3
        /\ \A i \in 1 .. 3 : AllAsks(class, p)[i] = own[i]
    BY <1>1, <2>1, AllAsksFacts
  <2> QED
    BY <1>2, <1>4, <2>2, <2>3
<1> QED
  BY <1>3, <1>4

LEMMA SuffixFacts ==
  ASSUME NEW S, NEW s \in Seq(S), NEW k \in 0 .. Len(s), NEW t, t = SubSeq(s, k + 1, Len(s))
  PROVE  /\ t \in Seq(S) /\ Len(t) = Len(s) - k
         /\ t = <<>> <=> k = Len(s)
         /\ t # <<>> => Head(t) = s[k + 1] /\ Tail(t) = SubSeq(s, k + 2, Len(s))
<1>1. Len(s) \in Nat /\ k \in Nat /\ k <= Len(s)
  OBVIOUS
<1>2. t \in Seq(S) /\ Len(t) = Len(s) - k
  BY <1>1
<1>3. \A i \in 1 .. Len(t) : t[i] = s[k + i]
  BY <1>1
<1>4. t = <<>> <=> k = Len(s)
  <2>1. t = <<>> <=> Len(t) = 0
    BY <1>2, EmptySeq
  <2> QED
    BY <1>1, <1>2, <2>1
<1>5. ASSUME t # <<>>
      PROVE  Head(t) = s[k + 1] /\ Tail(t) = SubSeq(s, k + 2, Len(s))
  <2>1. Len(t) >= 1
    BY <1>2, <1>5
  <2>2. Head(t) = s[k + 1]
    BY <1>2, <1>3, <2>1
  <2> DEFINE a == Tail(t)  b == SubSeq(s, k + 2, Len(s))
  <2>3. a \in Seq(S) /\ Len(a) = Len(s) - k - 1 /\ \A i \in 1 .. Len(a) : a[i] = t[i + 1]
    <3>1. a \in Seq(S) /\ Len(a) = Len(t) - 1 /\ \A i \in 1 .. Len(a) : a[i] = t[i + 1]
      BY <1>2, <1>5, HeadTailProperties
    <3> QED
      BY <1>1, <1>2, <3>1
  <2>4. b \in Seq(S) /\ Len(b) = Len(s) - k - 1 /\ \A i \in 1 .. Len(b) : b[i] = s[k + 1 + i]
    BY <1>1, <1>2, <2>1
  <2>5. \A i \in 1 .. Len(a) : a[i] = b[i]
    <3> HIDE DEF a, b
    <3> TAKE i \in 1 .. Len(a)
    <3>1. i + 1 \in 1 .. Len(t) /\ k + (i + 1) = k + 1 + i
      BY <1>1, <1>2, <2>3
    <3> QED
      BY <1>3, <2>3, <2>4, <3>1
  <2> HIDE DEF a, b
  <2>6. a = b
    BY <2>3, <2>4, <2>5, SeqEqual
  <2> QED
    BY <2>2, <2>6 DEF a, b
<1> QED
  BY <1>2, <1>4, <1>5

\* The plugin at hand, read up to a point.
LEMMA HandFacts ==
  ASSUME LeftInv, HandInv, phase \in {"plugin", "impl"}
  PROVE  \E k \in Nat :
           /\ k <= Len(Stage) /\ asks = SubSeq(Stage, k + 1, Len(Stage))
           /\ ReadFirst(Head(left), Stage, k, settings, got)
           /\ phase = "impl" => k >= 3
           /\ k >= 1 => NameOf(got[Plain("name")][1]) \notin DOMAIN loaded
           /\ asks = <<>> <=> k = Len(Stage)
           /\ asks # <<>> => /\ k < Len(Stage) /\ k + 1 \in DOMAIN Stage /\ Stage[k + 1] \in AskType
                             /\ Head(asks) = Stage[k + 1] /\ Tail(asks) = SubSeq(Stage, k + 2, Len(Stage))
<1>1. PICK k \in 0 .. Len(Stage) :
        /\ asks = SubSeq(Stage, k + 1, Len(Stage))
        /\ ReadFirst(Head(left), Stage, k, settings, got)
        /\ phase = "impl" => k >= 3
        /\ k >= 1 => NameOf(got[Plain("name")][1]) \notin DOMAIN loaded
  BY DEF HandInv
<1>2. Stage \in Seq(AskType) /\ Len(Stage) \in Nat /\ DOMAIN Stage = 1 .. Len(Stage)
  BY StageFacts
<1>3. k \in Nat /\ k <= Len(Stage)
  BY <1>2
<1>4. asks = <<>> <=> k = Len(Stage)
  BY <1>1, <1>2, SuffixFacts
<1>5. ASSUME asks # <<>>
      PROVE  /\ k < Len(Stage) /\ k + 1 \in DOMAIN Stage /\ Stage[k + 1] \in AskType
             /\ Head(asks) = Stage[k + 1] /\ Tail(asks) = SubSeq(Stage, k + 2, Len(Stage))
  <2>1. Head(asks) = Stage[k + 1] /\ Tail(asks) = SubSeq(Stage, k + 2, Len(Stage))
    BY <1>1, <1>2, <1>5, SuffixFacts
  <2>0. k # Len(Stage)
    BY <1>4, <1>5, Zenon
  <2> DEFINE n == Len(Stage)
  <2>1b. n \in Nat /\ k \in Nat /\ k <= n /\ k # n
    BY <1>2, <1>3, <2>0
  <2> HIDE DEF n
  <2>1c. k < n
    BY <2>1b
  <2>2. k < Len(Stage)
    BY <2>1c DEF n
  <2>3. k + 1 \in DOMAIN Stage
    BY <1>2, <1>3, <2>2
  <2>4. Stage[k + 1] \in AskType
    BY <1>2, <2>3
  <2> QED
    BY <2>1, <2>2, <2>3, <2>4
<1> QED
  BY <1>1, <1>3, <1>4, <1>5

LEMMA KeptLeft ==
  ASSUME LeftInv, UNCHANGED <<file, left>>,
         phase' \in {"opening", "loading", "plugin", "impl", "failed", "crashed"}
  PROVE  LeftInv' /\ Count' = Count
  BY DEF LeftInv, Count

LEMMA KeptLoaded ==
  ASSUME LoadedInv, UNCHANGED <<file, left, loaded>>
  PROVE  LoadedInv'
<1>1. Count' = Count
  BY DEF Count
<1>2. \A i : NameIn(i)' = NameIn(i)
  BY DEF NameIn
<1> QED
  BY <1>1, <1>2 DEF LoadedInv

-----------------------------------------------------------------------------
(* Begin, Consume, Create                                                   *)

LEMMA OpenSteps ==
  ASSUME Inv, Open
  PROVE  Inv'
<1>1. UNCHANGED <<file, left, settings, asks, got, loaded>> /\ phase' = "loading"
  BY DEF Open
<1>2. LeftInv' /\ LoadedInv'
  BY <1>1, KeptLeft, KeptLoaded DEF Inv
<1>3. HandInv'
  BY <1>1 DEF HandInv
<1>4. TextInv'
  BY <1>1 DEF Inv, TextInv
<1>5. EndInv'
  BY <1>1 DEF EndInv, SoundIsLoaded
<1> QED
  BY <1>2, <1>3, <1>4, <1>5 DEF Inv

LEMMA BeginSteps ==
  ASSUME Inv, Begin
  PROVE  Inv'
<1>1. /\ UNCHANGED <<file, left, loaded>> /\ phase' = "plugin" /\ left # <<>>
      /\ settings' = Head(left) /\ asks' = Own(file.class) /\ got' = Nothing
  BY DEF Begin
<1>2. LeftInv' /\ LoadedInv'
  BY <1>1, KeptLeft, KeptLoaded DEF Inv
<1>3. HandInv'
  <2> DEFINE own == Own(file.class)  p == Head(left)
  <2>1. own \in Seq(AskType) /\ Len(own) = 3 /\ p \in [DOMAIN p -> Values]
    BY <1>1, LeftFacts, OwnFacts DEF Inv, IsSettings
  <2> HIDE DEF own, p
  <2>2. own = SubSeq(own, 0 + 1, Len(own))
    BY <2>1, SubSeqFull
  <2>3. ReadFirst(p, own, 0, p, Nothing)
    <3>1. Taken(p, own, 0) = {}
      BY DEF Taken
    <3>2. p = Restrict(p, DOMAIN p \ Taken(p, own, 0))
      BY <2>1, <3>1 DEF Restrict
    <3>3. GotOf(Nothing, p, own, 0)
      BY DEF GotOf, Nothing
    <3> QED
      BY <3>2, <3>3 DEF ReadFirst
  <2>4. Stage' = own
    BY <1>1 DEF Stage, own
  <2>5. left' = left /\ Head(left') = p /\ asks' = own /\ settings' = p /\ got' = Nothing
    BY <1>1 DEF own, p
  <2>6. 0 \in 0 .. Len(Stage')
    BY <2>1, <2>4
  <2> QED
    BY <1>1, <2>2, <2>3, <2>4, <2>5, <2>6 DEF HandInv
<1>4. TextInv'
  BY <1>1 DEF Inv, TextInv, Nothing
<1>5. EndInv'
  BY <1>1 DEF EndInv, SoundIsLoaded
<1> QED
  BY <1>2, <1>3, <1>4, <1>5 DEF Inv

LEMMA ConsumeSteps ==
  ASSUME Inv, Consume
  PROVE  Inv'
<1> DEFINE p == Head(left)  ask == Head(asks)
<1>1. /\ UNCHANGED <<file, phase, left, loaded>> /\ phase \in {"plugin", "impl"} /\ asks # <<>>
      /\ Readable(settings, ask) /\ Passes(settings, ask)
      /\ ask.field = Plain("name") => NameOf(Result(settings, ask)[1]) \notin DOMAIN loaded
      /\ asks' = Tail(asks)
      /\ got' = [f \in DOMAIN got \cup {ask.field} |-> IF f = ask.field THEN Result(settings, ask) ELSE got[f]]
      /\ settings' = IF IsGiven(settings, ask.field)
                     THEN Restrict(settings, DOMAIN settings \ {Spelled(settings, ask.field)}) ELSE settings
  BY DEF Consume, Reading, Accepts
<1>2. LeftInv /\ HandInv /\ LoadedInv /\ TextInv /\ EndInv
  BY DEF Inv
<1>3. LeftInv' /\ LoadedInv'
  BY <1>1, <1>2, KeptLeft, KeptLoaded DEF LeftInv
<1>4. left # <<>> /\ p \in [DOMAIN p -> Values]
  BY <1>1, <1>2, LeftFacts DEF HandInv, IsSettings
<1>5. /\ Stage \in Seq(AskType) /\ Apart(Stage) /\ Len(Stage) \in Nat /\ DOMAIN Stage = 1 .. Len(Stage) /\ Len(Stage) >= 3
      /\ Stage[1].field = Plain("name")
  BY <1>1, <1>2, StageFacts
<1>6. PICK k \in Nat :
        /\ asks = SubSeq(Stage, k + 1, Len(Stage)) /\ k <= Len(Stage)
        /\ ReadFirst(p, Stage, k, settings, got)
        /\ phase = "impl" => k >= 3
        /\ k >= 1 => NameOf(got[Plain("name")][1]) \notin DOMAIN loaded
        /\ k < Len(Stage) /\ k + 1 \in DOMAIN Stage /\ Stage[k + 1] \in AskType
        /\ ask = Stage[k + 1] /\ asks' = SubSeq(Stage, k + 2, Len(Stage))
  <2> HIDE DEF ask
  <2>1. \E k \in Nat :
           /\ k <= Len(Stage) /\ asks = SubSeq(Stage, k + 1, Len(Stage))
           /\ ReadFirst(Head(left), Stage, k, settings, got)
           /\ phase = "impl" => k >= 3
           /\ k >= 1 => NameOf(got[Plain("name")][1]) \notin DOMAIN loaded
           /\ asks = <<>> <=> k = Len(Stage)
           /\ asks # <<>> => /\ k < Len(Stage) /\ k + 1 \in DOMAIN Stage /\ Stage[k + 1] \in AskType
                             /\ Head(asks) = Stage[k + 1] /\ Tail(asks) = SubSeq(Stage, k + 2, Len(Stage))
    BY <1>1, <1>2, HandFacts
  <2> QED
    BY <1>1, <2>1 DEF ask
<1> HIDE DEF p, ask
<1>7. Readable(p, ask) /\ Passes(p, ask) /\ Result(settings, ask) = Result(p, ask)
  BY <1>1, <1>5, <1>6, ReadOn
<1>8. ReadFirst(p, Stage, k + 1, settings', got')
  <2>1. Readable(p, Stage[k + 1]) /\ Passes(p, Stage[k + 1])
    BY <1>6, <1>7
  <2>2. /\ settings' = IF IsGiven(settings, Stage[k + 1].field)
                       THEN Restrict(settings, DOMAIN settings \ {Spelled(settings, Stage[k + 1].field)}) ELSE settings
        /\ got' = [f \in DOMAIN got \cup {Stage[k + 1].field} |->
                     IF f = Stage[k + 1].field THEN Result(settings, Stage[k + 1]) ELSE got[f]]
    BY <1>1, <1>6
  <2> QED
    BY <1>5, <1>6, <2>1, <2>2, ReadNext
<1>9. NameOf(got'[Plain("name")][1]) \notin DOMAIN loaded
  <2>1. got'[Plain("name")] = Result(p, Stage[1])
    <3>1. 1 \in 1 .. k + 1
      BY <1>6
    <3> QED
      BY <1>5, <1>8, <3>1 DEF ReadFirst, GotOf
  <2>2. CASE k = 0
    BY <1>1, <1>5, <1>6, <1>7, <2>1, <2>2
  <2>3. CASE k >= 1
    <3>1. got[Plain("name")] = Result(p, Stage[1])
      <4>1. 1 \in 1 .. k
        BY <2>3
      <4> QED
        BY <1>5, <1>6, <4>1 DEF ReadFirst, GotOf
    <3> QED
      BY <1>6, <2>1, <2>3, <3>1
  <2> QED
    BY <1>6, <2>2, <2>3
<1>10. HandInv'
  <2>1. Stage' = Stage /\ left' = left /\ Head(left') = p /\ loaded' = loaded /\ file' = file /\ phase' = phase
    BY <1>1 DEF Stage, p
  <2>2. NameOf(got'[Plain("name")][1]) = NameOf(got[Plain("name")][1])'
    BY <2>1 DEF NameOf
  <2>3. k + 1 \in 0 .. Len(Stage) /\ k + 2 = (k + 1) + 1 /\ (phase = "impl" => k + 1 >= 3)
    BY <1>5, <1>6
  <2>4. /\ asks' = SubSeq(Stage', (k + 1) + 1, Len(Stage'))
        /\ ReadFirst(Head(left'), Stage', k + 1, settings', got')
        /\ phase' = "impl" => k + 1 >= 3
        /\ NameOf(got[Plain("name")][1])' \notin DOMAIN loaded'
    BY <1>6, <1>8, <1>9, <2>1, <2>2, <2>3
  <2>6. left # <<>> /\ (phase = "impl" =>
         LET kind == SaidKind(file.class, Head(left))
         IN  /\ kind \in DOMAIN Makers(file.class)
             /\ MayHave(Makers(file.class)[kind], DOMAIN Head(left) \ OwnFirst(file.class, Head(left))))
    BY <1>1, <1>2 DEF HandInv
  <2> QED
    BY <2>1, <2>3, <2>4, <2>6 DEF HandInv
<1>11. TextInv'
  <2>1. Result(p, ask) \in Seq(Names)
    BY <1>4, <1>6, <1>7, ResultFacts
  <2> QED
    BY <1>1, <1>2, <1>7, <2>1 DEF TextInv
<1>12. EndInv'
  BY <1>1 DEF EndInv, SoundIsLoaded
<1> QED
  BY <1>3, <1>10, <1>11, <1>12 DEF Inv

\* What has been read of the plugin at hand when a stage is over.
LEMMA StageEnds ==
  ASSUME LeftInv, HandInv, phase \in {"plugin", "impl"}, asks = <<>>
  PROVE  /\ ReadFirst(Head(left), Stage, Len(Stage), settings, got)
         /\ NameOf(got[Plain("name")][1]) \notin DOMAIN loaded
         /\ got[Plain("name")] = Result(Head(left), Own(file.class)[1])
         /\ got[Plain("kind")] = Result(Head(left), Own(file.class)[2])
         /\ Readable(Head(left), Own(file.class)[1]) /\ Readable(Head(left), Own(file.class)[2])
         /\ SaidKind(file.class, Head(left)) = Kind
<1> DEFINE p == Head(left)
<1>1. PICK k \in Nat :
        /\ ReadFirst(p, Stage, k, settings, got)
        /\ k >= 1 => NameOf(got[Plain("name")][1]) \notin DOMAIN loaded
        /\ k = Len(Stage)
  <2>1. \E k \in Nat :
           /\ k <= Len(Stage) /\ asks = SubSeq(Stage, k + 1, Len(Stage))
           /\ ReadFirst(Head(left), Stage, k, settings, got)
           /\ phase = "impl" => k >= 3
           /\ k >= 1 => NameOf(got[Plain("name")][1]) \notin DOMAIN loaded
           /\ asks = <<>> <=> k = Len(Stage)
           /\ asks # <<>> => /\ k < Len(Stage) /\ k + 1 \in DOMAIN Stage /\ Stage[k + 1] \in AskType
                             /\ Head(asks) = Stage[k + 1] /\ Tail(asks) = SubSeq(Stage, k + 2, Len(Stage))
    BY HandFacts
  <2> QED
    BY <2>1, Zenon
<1>2. /\ Len(Stage) \in Nat /\ Len(Stage) >= 3 /\ \A i \in 1 .. 3 : Stage[i] = Own(file.class)[i]
      /\ Stage[1].field = Plain("name") /\ Stage[2].field = Plain("kind")
  BY StageFacts
<1> HIDE DEF p
<1>3. 1 \in 1 .. k /\ 2 \in 1 .. k /\ k >= 1 /\ 1 \in 1 .. 3 /\ 2 \in 1 .. 3
  BY <1>1, <1>2
<1>4. /\ got[Stage[1].field] = Result(p, Stage[1]) /\ got[Stage[2].field] = Result(p, Stage[2])
      /\ Readable(p, Stage[1]) /\ Readable(p, Stage[2])
  BY <1>1, <1>3 DEF ReadFirst, GotOf
<1>5. Stage[1] = Own(file.class)[1] /\ Stage[2] = Own(file.class)[2]
  BY <1>2, <1>3
<1>6. /\ got[Plain("name")] = Result(p, Own(file.class)[1]) /\ got[Plain("kind")] = Result(p, Own(file.class)[2])
      /\ Readable(p, Own(file.class)[1]) /\ Readable(p, Own(file.class)[2])
  BY <1>2, <1>4, <1>5
<1>7. SaidKind(file.class, p) = Kind
  BY <1>6 DEF SaidKind, Kind
<1>8. ReadFirst(p, Stage, Len(Stage), settings, got) /\ NameOf(got[Plain("name")][1]) \notin DOMAIN loaded
  BY <1>1, <1>3
<1> QED
  BY <1>6, <1>7, <1>8 DEF p

LEMMA CreateSteps ==
  ASSUME Inv, Create
  PROVE  Inv'
<1> DEFINE p == Head(left)  class == file.class  kind == Kind
<1>1. /\ UNCHANGED <<file, left, settings, got, loaded>> /\ phase = "plugin" /\ phase' = "impl" /\ asks = <<>>
      /\ Kind \in DOMAIN Makers(file.class) /\ MayHave(Makers(file.class)[Kind], DOMAIN settings)
      /\ asks' = Makers(file.class)[Kind].asks
  BY DEF Create, Known
<1>2. LeftInv /\ HandInv /\ LoadedInv /\ TextInv /\ EndInv
  BY DEF Inv
<1>3. LeftInv' /\ LoadedInv'
  BY <1>1, <1>2, KeptLeft, KeptLoaded
<1>4. left # <<>> /\ class \in Classes
  BY <1>1, <1>2, LeftFacts DEF HandInv
<1>5. /\ ReadFirst(p, Stage, Len(Stage), settings, got)
      /\ NameOf(got[Plain("name")][1]) \notin DOMAIN loaded
      /\ SaidKind(class, p) = kind
  BY <1>1, <1>2, StageEnds
<1>6. /\ Stage = Own(class) /\ Len(Own(class)) = 3 /\ Own(class) \in Seq(AskType)
  BY <1>1, <1>4, OwnFacts DEF Stage
<1>7. /\ Asked(class, kind) \in Seq(AskType) /\ Len(Asked(class, kind)) = 3 + Len(Makers(class)[kind].asks)
      /\ \A i \in 1 .. 3 : Asked(class, kind)[i] = Own(class)[i]
      /\ \A i \in DOMAIN Makers(class)[kind].asks : Asked(class, kind)[3 + i] = Makers(class)[kind].asks[i]
  BY <1>1, <1>4, AskedFacts
<1>8. Makers(class)[kind].asks \in Seq(AskType)
  BY <1>1, <1>4, MakersGood DEF GoodMaker
<1> DEFINE own == Own(class)  all == Asked(class, kind)  more == Makers(class)[kind].asks
<1>9. OwnFirst(class, p) = Taken(p, own, 3) /\ Taken(p, all, 3) = Taken(p, own, 3)
  <2> HIDE DEF all, own
  <2>1. \A i \in 1 .. 3 : all[i] = own[i]
    BY <1>7 DEF all, own
  <2> QED
    BY <2>1 DEF OwnFirst, Taken, own
<1>10. ReadFirst(p, all, 3, settings, got)
  <2> HIDE DEF all, own, p
  <2>1. \A i \in 1 .. 3 : all[i] = own[i]
    BY <1>7 DEF all, own
  <2>2. ReadFirst(p, own, 3, settings, got)
    BY <1>5, <1>6 DEF own
  <2>3. {all[i].field : i \in 1 .. 3} = {own[i].field : i \in 1 .. 3}
    BY <2>1
  <2>4. GotOf(got, p, all, 3)
    BY <2>1, <2>2, <2>3 DEF ReadFirst, GotOf
  <2>5. \A i \in 1 .. 3 : Readable(p, all[i]) /\ Passes(p, all[i])
    BY <2>1, <2>2 DEF ReadFirst
  <2>6. settings = Restrict(p, DOMAIN p \ Taken(p, all, 3))
    BY <1>9, <2>2 DEF ReadFirst, all, own
  <2> QED
    BY <2>4, <2>5, <2>6 DEF ReadFirst
<1>11. more = SubSeq(all, 3 + 1, Len(all))
  <2> HIDE DEF all, more
  <2>1. /\ all \in Seq(AskType) /\ Len(all) = 3 + Len(more) /\ more \in Seq(AskType)
        /\ \A i \in DOMAIN more : all[3 + i] = more[i]
    BY <1>7, <1>8 DEF all, more
  <2> DEFINE b == SubSeq(all, 4, Len(all))
  <2>2. Len(more) \in Nat /\ DOMAIN more = 1 .. Len(more)
    BY <2>1
  <2>3. b \in Seq(AskType) /\ Len(b) = Len(more) /\ \A i \in 1 .. Len(b) : b[i] = all[3 + i]
    BY <2>1, <2>2
  <2> HIDE DEF b
  <2>4. \A i \in 1 .. Len(b) : b[i] = more[i]
    BY <2>1, <2>2, <2>3
  <2>5. b = more
    BY <2>1, <2>3, <2>4, SeqEqual
  <2> QED
    BY <2>5 DEF b
<1>12. DOMAIN settings = DOMAIN p \ OwnFirst(class, p)
  <2>1. settings = Restrict(p, DOMAIN p \ Taken(p, all, 3))
    BY <1>10 DEF ReadFirst
  <2> HIDE DEF all, own, p, class
  <2> QED
    BY <1>9, <2>1 DEF Restrict
<1>13. HandInv'
  <2>1. Stage' = all /\ left' = left /\ Head(left') = p /\ loaded' = loaded /\ file' = file /\ phase' = "impl"
        /\ SaidKind(file'.class, Head(left')) = kind
    BY <1>1, <1>5 DEF Stage
  <2>2. NameOf(got[Plain("name")][1])' \notin DOMAIN loaded'
    BY <1>1, <1>5 DEF NameOf
  <2>3. 3 \in 0 .. Len(all)
    BY <1>7, <1>8
  <2>4. MayHave(Makers(class)[kind], DOMAIN p \ OwnFirst(class, p)) /\ kind \in DOMAIN Makers(class)
    BY <1>1, <1>12
  <2>5. asks' = SubSeq(all, 3 + 1, Len(all)) /\ ReadFirst(p, all, 3, settings', got')
    BY <1>1, <1>10, <1>11
  <2> HIDE DEF all, p, class, kind
  <2>6. file'.class = class /\ left' # <<>>
    BY <1>4, <2>1 DEF class
  <2>7. \E k \in 0 .. Len(Stage') :
          /\ asks' = SubSeq(Stage', k + 1, Len(Stage'))
          /\ ReadFirst(Head(left'), Stage', k, settings', got')
          /\ phase' = "impl" => k >= 3
          /\ k >= 1 => NameOf(got[Plain("name")][1])' \notin DOMAIN loaded'
    <3>1. 3 \in 0 .. Len(Stage') /\ asks' = SubSeq(Stage', 3 + 1, Len(Stage')) /\ ReadFirst(Head(left'), Stage', 3, settings', got')
      BY <2>1, <2>3, <2>5
    <3> QED
      BY <2>2, <3>1
  <2>8. LET at == SaidKind(file'.class, Head(left'))
        IN  /\ at \in DOMAIN Makers(file'.class)
            /\ MayHave(Makers(file'.class)[at], DOMAIN Head(left') \ OwnFirst(file'.class, Head(left')))
    BY <2>1, <2>4, <2>6
  <2> QED
    BY <2>6, <2>7, <2>8 DEF HandInv
<1>14. TextInv'
  BY <1>1, <1>2 DEF TextInv
<1>15. EndInv'
  BY <1>1 DEF EndInv, SoundIsLoaded
<1> QED
  BY <1>3, <1>13, <1>14, <1>15 DEF Inv

-----------------------------------------------------------------------------
(* The ends                                                                 *)

\* The number of the plugin at hand is that of the plugins before it and one.
LEMMA DoneFacts ==
  ASSUME LeftInv
  PROVE  /\ Len(PluginsDone) = Count /\ DOMAIN PluginsDone = 1 .. Count
         /\ \A i \in 1 .. Count : i \in DOMAIN file.plugins
<1>1. /\ file.plugins \in Seq(Range(file.plugins)) /\ Count \in Nat /\ Len(file.plugins) \in Nat
      /\ Count <= Len(file.plugins) /\ DOMAIN file.plugins = 1 .. Len(file.plugins)
  BY LeftFacts, FileFacts DEF LeftInv
<1>2. PluginsDone = SubSeq(file.plugins, 1, Count)
  BY DEF PluginsDone, Count
<1> QED
  BY <1>1, <1>2

LEMMA NextName ==
  ASSUME LeftInv, LoadedInv, left # <<>>, SaidKind(file.class, Head(left)) \in DOMAIN Makers(file.class)
  PROVE  NameIn(Count + 1) = NameOf(Result(Head(left), Own(file.class)[1])[1])
<1> DEFINE p == Head(left)  class == file.class
<1>1. class \in Classes /\ p = file.plugins[Count + 1]
  BY LeftFacts
<1>2. 1 \in DOMAIN AllAsks(class, p) /\ AllAsks(class, p)[1] = Own(class)[1] /\ Own(class)[1].field = Plain("name")
  BY <1>1, AllAsksFacts, OwnFacts
<1>3. Said(class, p)[Plain("name")] = Result(p, Own(class)[1])
  BY <1>1, <1>2, SaidAt
<1>4. Cardinality(DOMAIN loaded) = Count
  BY DEF LoadedInv
<1> QED
  BY <1>1, <1>3, <1>4 DEF NameIn, NameOf

\* What cannot be read makes a plugin unsound, whoever asks for it.
LEMMA UnsoundAt ==
  ASSUME LeftInv, HandInv, phase \in {"plugin", "impl"}, NEW i \in 1 .. Len(Stage),
         ~ (Readable(Head(left), Stage[i]) /\ Passes(Head(left), Stage[i]))
  PROVE  ~ Sound(file.class, Head(left))
<1> SUFFICES ASSUME Sound(file.class, Head(left)) PROVE FALSE
  OBVIOUS
<1>1. /\ SaidKind(file.class, Head(left)) \in DOMAIN Makers(file.class)
      /\ \A j \in DOMAIN AllAsks(file.class, Head(left)) :
           /\ Readable(Head(left), AllAsks(file.class, Head(left))[j])
           /\ Passes(Head(left), AllAsks(file.class, Head(left))[j])
  BY DEF Sound
<1>2. i \in DOMAIN AllAsks(file.class, Head(left)) /\ AllAsks(file.class, Head(left))[i] = Stage[i]
  BY <1>1, StageFacts
<1> QED
  BY <1>1, <1>2

\* A step that ends the program keeps what is loaded, and needs a reason.
LEMMA FailSteps ==
  ASSUME Inv, phase \in {"plugin", "impl"}, NEW how \in {"failed", "crashed"}, Fail(how),
         how = "failed" => ~ Sound(file.class, Head(left)) \/ NameIn(Count + 1) \in DOMAIN loaded,
         how = "crashed" => /\ ~ Sound(file.class, Head(left))
                            /\ \E f \in DOMAIN Head(left) : Null \in Range(Head(left)[f].of)
  PROVE  Inv'
<1>1. UNCHANGED <<file, left, settings, asks, got, loaded>> /\ phase' = how
  BY DEF Fail
<1>2. LeftInv /\ HandInv /\ LoadedInv /\ TextInv /\ EndInv
  BY DEF Inv
<1>3. LeftInv' /\ LoadedInv'
  BY <1>1, <1>2, KeptLeft, KeptLoaded
<1>4. HandInv'
  BY <1>1 DEF HandInv
<1>5. TextInv'
  BY <1>1, <1>2 DEF TextInv
<1>6. EndInv'
  <2>1. left # <<>>
    BY <1>2 DEF HandInv
  <2>2. PluginsDone' = PluginsDone /\ Len(PluginsDone) = Count /\ NameIn(Count + 1)' = NameIn(Count + 1)
    BY <1>1, <1>2, DoneFacts DEF PluginsDone, NameIn, Count
  <2>3. SoundIsLoaded'
    <3>1. how = "failed" => ~ Sound(file'.class, Head(left')) \/ NameIn(Len(PluginsDone) + 1)' \in DOMAIN loaded'
      <4>1. NameIn(Len(PluginsDone) + 1)' = NameIn(Count + 1)
        BY <1>1, <2>2 DEF NameIn
      <4> QED
        BY <1>1, <4>1
    <3>2. how = "crashed" => \E f \in DOMAIN Head(left') : Null \in Range(Head(left')[f].of)
      BY <1>1
    <3> QED
      BY <1>1, <3>1, <3>2 DEF SoundIsLoaded
  <2> QED
    BY <1>1, <2>1, <2>3 DEF EndInv
<1> QED
  BY <1>3, <1>4, <1>5, <1>6 DEF Inv

LEMMA RefuseSettingSteps ==
  ASSUME Inv, RefuseSetting
  PROVE  Inv'
<1> DEFINE p == Head(left)  ask == Head(asks)  class == file.class
<1>1. phase \in {"plugin", "impl"} /\ asks # <<>> /\ ~ Accepts(ask) /\ Fail("failed")
  BY DEF RefuseSetting, Reading
<1>2. LeftInv /\ HandInv /\ LoadedInv
  BY DEF Inv
<1>3. left # <<>> /\ class \in Classes
  BY <1>1, <1>2, LeftFacts DEF HandInv
<1>4. /\ Stage \in Seq(AskType) /\ Apart(Stage) /\ Len(Stage) \in Nat /\ DOMAIN Stage = 1 .. Len(Stage) /\ Len(Stage) >= 3
      /\ Stage[1].field = Plain("name") /\ \A i \in 1 .. 3 : Stage[i] = Own(class)[i]
  BY <1>1, <1>2, StageFacts
<1>5. PICK k \in Nat :
        /\ ReadFirst(p, Stage, k, settings, got)
        /\ k < Len(Stage) /\ k + 1 \in DOMAIN Stage /\ ask = Stage[k + 1]
  <2>1. \E k \in Nat :
           /\ k <= Len(Stage) /\ asks = SubSeq(Stage, k + 1, Len(Stage))
           /\ ReadFirst(Head(left), Stage, k, settings, got)
           /\ phase = "impl" => k >= 3
           /\ k >= 1 => NameOf(got[Plain("name")][1]) \notin DOMAIN loaded
           /\ asks = <<>> <=> k = Len(Stage)
           /\ asks # <<>> => /\ k < Len(Stage) /\ k + 1 \in DOMAIN Stage /\ Stage[k + 1] \in AskType
                             /\ Head(asks) = Stage[k + 1] /\ Tail(asks) = SubSeq(Stage, k + 2, Len(Stage))
    BY <1>1, <1>2, HandFacts
  <2> QED
    BY <1>1, <2>1
<1> HIDE DEF p, ask, class
<1>6. Readable(settings, ask) = Readable(p, ask) /\ Passes(settings, ask) = Passes(p, ask) /\ Result(settings, ask) = Result(p, ask)
  BY <1>4, <1>5, ReadOn
<1>7. ~ Sound(class, p) \/ NameIn(Count + 1) \in DOMAIN loaded
  <2>1. CASE ~ (Readable(p, ask) /\ Passes(p, ask))
    <3>1. ~ Sound(class, p)
      BY <1>1, <1>2, <1>4, <1>5, <2>1, UnsoundAt DEF p, class
    <3> QED
      BY <3>1
  <2>2. CASE Readable(p, ask) /\ Passes(p, ask)
    <3>1. ask.field = Plain("name") /\ NameOf(Result(p, ask)[1]) \in DOMAIN loaded
      BY <1>1, <1>6, <2>2 DEF Accepts
    <3>2. 1 \in DOMAIN Stage /\ k + 1 = 1
      BY <1>4, <1>5, <3>1 DEF Apart
    <3>3. ask = Own(class)[1]
      BY <1>4, <1>5, <3>2
    <3>4. Sound(class, p) => NameIn(Count + 1) = NameOf(Result(p, Own(class)[1])[1])
      BY <1>2, <1>3, NextName DEF Sound, class, p
    <3> QED
      BY <3>1, <3>3, <3>4
  <2> QED
    BY <2>1, <2>2
<1> QED
  BY <1>1, <1>7, FailSteps DEF p, class

LEMMA PanicSteps ==
  ASSUME Inv, Panic
  PROVE  Inv'
<1> DEFINE p == Head(left)  ask == Head(asks)  class == file.class
<1>1. phase \in {"plugin", "impl"} /\ asks # <<>> /\ Crashes(settings, ask) /\ Fail("crashed")
  BY DEF Panic, Reading
<1>2. LeftInv /\ HandInv
  BY DEF Inv
<1>3. left # <<>> /\ p \in [DOMAIN p -> Values]
  BY <1>1, <1>2, LeftFacts DEF HandInv, IsSettings
<1>4. Stage \in Seq(AskType) /\ Apart(Stage) /\ Len(Stage) \in Nat /\ DOMAIN Stage = 1 .. Len(Stage)
  BY <1>1, <1>2, StageFacts
<1>5. PICK k \in Nat :
        /\ ReadFirst(p, Stage, k, settings, got)
        /\ k < Len(Stage) /\ k + 1 \in DOMAIN Stage /\ ask = Stage[k + 1] /\ ask \in AskType
  <2>1. \E k \in Nat :
           /\ k <= Len(Stage) /\ asks = SubSeq(Stage, k + 1, Len(Stage))
           /\ ReadFirst(Head(left), Stage, k, settings, got)
           /\ phase = "impl" => k >= 3
           /\ k >= 1 => NameOf(got[Plain("name")][1]) \notin DOMAIN loaded
           /\ asks = <<>> <=> k = Len(Stage)
           /\ asks # <<>> => /\ k < Len(Stage) /\ k + 1 \in DOMAIN Stage /\ Stage[k + 1] \in AskType
                             /\ Head(asks) = Stage[k + 1] /\ Tail(asks) = SubSeq(Stage, k + 2, Len(Stage))
    BY <1>1, <1>2, HandFacts
  <2> QED
    BY <1>1, <2>1
<1> HIDE DEF p, ask, class
<1>6. Crashes(p, ask)
  BY <1>1, <1>4, <1>5, ReadOn
<1>7. ~ Readable(p, ask) /\ \E f \in DOMAIN p : Null \in Range(p[f].of)
  BY <1>3, <1>5, <1>6, ResultFacts
<1>8. ~ Sound(class, p)
  BY <1>1, <1>2, <1>4, <1>5, <1>7, UnsoundAt DEF p, class
<1> QED
  BY <1>1, <1>7, <1>8, FailSteps DEF p, class

LEMMA RefuseKindSteps ==
  ASSUME Inv, RefuseKind
  PROVE  Inv'
<1> DEFINE p == Head(left)  class == file.class
<1>1. phase = "plugin" /\ asks = <<>> /\ ~ Known /\ Fail("failed")
  BY DEF RefuseKind
<1>2. LeftInv /\ HandInv
  BY DEF Inv
<1>3. left # <<>> /\ class \in Classes
  BY <1>1, <1>2, LeftFacts DEF HandInv
<1>4. /\ ReadFirst(p, Stage, Len(Stage), settings, got) /\ SaidKind(class, p) = Kind
  BY <1>1, <1>2, StageEnds
<1>5. Stage = Own(class) /\ Len(Own(class)) = 3
  BY <1>1, <1>3, OwnFacts DEF Stage
<1>6. settings = Restrict(p, DOMAIN p \ Taken(p, Own(class), 3))
  BY <1>4, <1>5 DEF ReadFirst
<1>7. OwnFirst(class, p) = Taken(p, Own(class), 3)
  BY DEF OwnFirst, Taken
<1>8. DOMAIN settings = DOMAIN p \ OwnFirst(class, p)
  <2> HIDE DEF p, class
  <2> QED
    BY <1>6, <1>7 DEF Restrict
<1>9. ~ Sound(class, p)
  BY <1>1, <1>4, <1>8 DEF Sound, Known
<1> QED
  BY <1>1, <1>9, FailSteps

\* What a constructor has got is what the file says, all of it.
LEMMA AllIsSaid ==
  ASSUME LeftInv, HandInv, phase = "impl", asks = <<>>
  PROVE  /\ got = Said(file.class, Head(left)) /\ settings = Rest(file.class, Head(left))
         /\ SaidKind(file.class, Head(left)) = Kind
         /\ Sound(file.class, Head(left)) <=> WholeOK(Kind, got)
<1> DEFINE p == Head(left)  class == file.class  all == AllAsks(class, p)
<1>1. left # <<>> /\ class \in Classes
  BY LeftFacts DEF HandInv
<1>2. /\ ReadFirst(p, Stage, Len(Stage), settings, got) /\ SaidKind(class, p) = Kind
  BY StageEnds
<1>3. Stage = all /\ DOMAIN Stage = 1 .. Len(Stage)
  BY StageFacts
<1>4. /\ SaidKind(class, p) \in DOMAIN Makers(class)
      /\ MayHave(Makers(class)[SaidKind(class, p)], DOMAIN p \ OwnFirst(class, p))
  BY DEF HandInv
<1>5. GotOf(got, p, all, Len(all)) /\ settings = Restrict(p, DOMAIN p \ Taken(p, all, Len(all)))
  BY <1>2, <1>3 DEF ReadFirst
<1>6. got = Said(class, p)
  BY <1>1, <1>4, <1>5, SaidFacts
<1>7. \A i \in DOMAIN all : Readable(p, all[i]) /\ Passes(p, all[i])
  BY <1>2, <1>3 DEF ReadFirst
<1>8. Sound(class, p) <=> WholeOK(SaidKind(class, p), Said(class, p))
  BY <1>4, <1>7 DEF Sound
<1> QED
  BY <1>2, <1>5, <1>6, <1>8 DEF Rest

LEMMA RefuseWholeSteps ==
  ASSUME Inv, RefuseWhole
  PROVE  Inv'
<1>1. phase = "impl" /\ asks = <<>> /\ ~ WholeOK(Kind, got) /\ Fail("failed")
  BY DEF RefuseWhole
<1>2. LeftInv /\ HandInv
  BY DEF Inv
<1>3. ~ Sound(file.class, Head(left))
  BY <1>1, <1>2, AllIsSaid
<1> QED
  BY <1>1, <1>3, FailSteps

LEMMA FinishSteps ==
  ASSUME Inv, Finish
  PROVE  Inv'
<1> DEFINE p == Head(left)  class == file.class  name == NameOf(got[Plain("name")][1])
           made == [got |-> got, over |-> settings]
<1>1. /\ UNCHANGED <<file, settings, asks, got>> /\ phase = "impl" /\ asks = <<>> /\ phase' = "loading"
      /\ WholeOK(Kind, got) /\ left' = Tail(left)
      /\ loaded' = [n \in DOMAIN loaded \cup {name} |-> IF n = name THEN made ELSE loaded[n]]
  BY DEF Finish
<1>2. LeftInv /\ HandInv /\ LoadedInv /\ TextInv
  BY DEF Inv
<1>3. /\ left # <<>> /\ class \in Classes /\ Count \in Nat /\ Count + 1 \in DOMAIN file.plugins
      /\ p = file.plugins[Count + 1] /\ p \in [DOMAIN p -> Values]
  BY <1>1, <1>2, LeftFacts DEF HandInv, IsSettings
<1>4. got = Said(class, p) /\ settings = Rest(class, p) /\ Sound(class, p)
  BY <1>1, <1>2, AllIsSaid
<1>5. /\ name \notin DOMAIN loaded
      /\ got[Plain("name")] = Result(p, Own(class)[1]) /\ Readable(p, Own(class)[1])
  BY <1>1, <1>2, StageEnds
<1>6. name = NameIn(Count + 1)
  <2>1. SaidKind(class, p) \in DOMAIN Makers(class)
    BY <1>4 DEF Sound
  <2> QED
    BY <1>2, <1>3, <1>5, <2>1, NextName
<1>7. LeftInv' /\ Count' = Count + 1
  <2>1. /\ file \in Files /\ left \in Seq(Range(file.plugins)) /\ Len(left) <= Len(file.plugins) /\ left # <<>>
        /\ Len(file.plugins) \in Nat /\ Len(left) \in Nat
        /\ \A i \in DOMAIN left : left[i] = file.plugins[Count + i]
    BY <1>2, <1>3, LeftFacts DEF LeftInv
  <2>2. /\ Tail(left) \in Seq(Range(file.plugins)) /\ Len(Tail(left)) = Len(left) - 1
        /\ \A i \in 1 .. Len(Tail(left)) : Tail(left)[i] = left[i + 1]
    BY <2>1, HeadTailProperties
  <2>3. Len(left) >= 1
    BY <2>1, <2>2
  <2>4. Count' = Count + 1
    BY <1>1, <2>1, <2>2 DEF Count
  <2>5. \A i \in DOMAIN Tail(left) : Tail(left)[i] = file.plugins[Count + 1 + i]
    <3> TAKE i \in DOMAIN Tail(left)
    <3> DEFINE rest == Tail(left)
    <3>0. DOMAIN rest = 1 .. Len(rest) /\ DOMAIN left = 1 .. Len(left) /\ Len(rest) = Len(left) - 1 /\ i \in DOMAIN rest
      BY <2>1, <2>2
    <3> HIDE DEF rest
    <3>1. i \in 1 .. Len(rest) /\ i + 1 \in DOMAIN left
      BY <2>1, <3>0
    <3>2. Count + (i + 1) = Count + 1 + i
      BY <1>3, <3>1
    <3> USE DEF rest
    <3> QED
      BY <2>1, <2>2, <3>1, <3>2
  <2>6. LeftInv'
    <3>1. file' = file /\ left' = Tail(left)
      BY <1>1
    <3>2. Tail(left) \in Seq(Range(file.plugins)) /\ Len(Tail(left)) <= Len(file.plugins)
      BY <2>1, <2>2, <2>3
    <3> QED
      BY <1>1, <2>1, <2>4, <2>5, <3>1, <3>2 DEF LeftInv
  <2> QED
    BY <2>4, <2>6
<1> HIDE DEF name, made, p, class
<1>8. /\ IsFiniteSet(DOMAIN loaded) /\ Cardinality(DOMAIN loaded) = Count
      /\ DOMAIN loaded = {NameIn(i) : i \in 1 .. Count}
      /\ \A i \in 1 .. Count :
           /\ Sound(file.class, file.plugins[i])
           /\ loaded[NameIn(i)] = [got |-> Said(file.class, file.plugins[i]), over |-> Rest(file.class, file.plugins[i])]
  BY <1>2 DEF LoadedInv
<1>9. \A i \in 1 .. Count + 1 : NameIn(i)' = NameIn(i)
  BY <1>1 DEF NameIn
<1>10. 1 .. Count + 1 = (1 .. Count) \cup {Count + 1}
  BY <1>3
<1>11. DOMAIN loaded' = DOMAIN loaded \cup {name}
  BY <1>1
<1>12. LoadedInv'
  <2>1. IsFiniteSet(DOMAIN loaded') /\ Cardinality(DOMAIN loaded') = Count + 1
    BY <1>5, <1>8, <1>11, FS_AddElement
  <2>2. DOMAIN loaded' = {NameIn(i) : i \in 1 .. Count + 1}
    BY <1>6, <1>8, <1>10, <1>11
  <2>3. ASSUME NEW i \in 1 .. Count + 1
        PROVE  /\ Sound(file.class, file.plugins[i])
               /\ loaded'[NameIn(i)] = [got |-> Said(file.class, file.plugins[i]), over |-> Rest(file.class, file.plugins[i])]
    <3>1. CASE i = Count + 1
      BY <1>1, <1>3, <1>4, <1>6, <3>1 DEF made, class
    <3>2. CASE i \in 1 .. Count
      <4>1. NameIn(i) \in DOMAIN loaded /\ NameIn(i) # name
        BY <1>5, <1>8, <3>2
      <4> QED
        BY <1>1, <1>8, <3>2, <4>1
    <3> QED
      BY <1>10, <3>1, <3>2
  <2>4. {NameIn(i)' : i \in 1 .. Count + 1} = {NameIn(i) : i \in 1 .. Count + 1}
    BY <1>9
  <2>5. \A i \in 1 .. Count + 1 :
          /\ Sound(file'.class, file'.plugins[i])
          /\ loaded'[NameIn(i)'] = [got |-> Said(file'.class, file'.plugins[i]), over |-> Rest(file'.class, file'.plugins[i])]
    BY <1>1, <1>9, <2>3
  <2> QED
    BY <1>7, <2>1, <2>2, <2>4, <2>5 DEF LoadedInv
<1>13. TextInv'
  <2>1. Own(class)[1] \in AskType /\ ~ Own(class)[1].many /\ (~ Own(class)[1].needed => Len(Own(class)[1].default) = 1)
    BY <1>3, OwnFacts
  <2>2. got[Plain("name")] \in Seq(Names) /\ Len(got[Plain("name")]) = 1
    BY <1>3, <1>5, <2>1, ResultFacts
  <2>3. got[Plain("name")][1] \in Names
    BY <2>2
  <2>4. Numbered[Count + 1] \in Names
    <3>1. Count + 1 \in 1 .. Len(Numbered) /\ Numbered \in Seq(Names)
      BY <1>2, <1>3, FileFacts, LoadAssumption DEF LeftInv
    <3> QED
      BY <3>1
  <2>5. name \in Names
    BY <1>8, <2>3, <2>4 DEF name, NameOf
  <2>6. \A f \in DOMAIN got : got[f] \in Seq(Names)
    BY <1>2 DEF TextInv
  <2>7. \A n \in DOMAIN loaded' : \A f \in DOMAIN loaded'[n].got : loaded'[n].got[f] \in Seq(Names)
    <3> TAKE n \in DOMAIN loaded'
    <3>1. CASE n = name
      BY <1>1, <2>6, <3>1 DEF made
    <3>2. CASE n # name
      BY <1>1, <1>2, <3>2 DEF TextInv
    <3> QED
      BY <3>1, <3>2
  <2> QED
    BY <1>1, <1>2, <1>11, <2>5, <2>6, <2>7 DEF TextInv
<1>14. HandInv' /\ EndInv'
  BY <1>1 DEF HandInv, EndInv, SoundIsLoaded
<1> QED
  BY <1>7, <1>12, <1>13, <1>14 DEF Inv

LEMMA InitHolds ==
  ASSUME Init
  PROVE  Inv
<1>1. /\ file \in Files /\ phase = "opening" /\ left = file.plugins /\ got = Nothing /\ loaded = Nothing
  BY DEF Init
<1>2. /\ file.plugins \in Seq(Range(file.plugins)) /\ Len(file.plugins) \in Nat
  BY <1>1, FileFacts
<1>3. Count = 0
  BY <1>1, <1>2 DEF Count
<1>4. LeftInv
  BY <1>1, <1>2, <1>3 DEF LeftInv
<1>5. LoadedInv
  <2>1. DOMAIN loaded = {} /\ 1 .. Count = {}
    BY <1>1, <1>3 DEF Nothing
  <2>2. IsFiniteSet(DOMAIN loaded) /\ Cardinality(DOMAIN loaded) = Count
    BY <1>3, <2>1, FS_EmptySet
  <2> QED
    BY <2>1, <2>2 DEF LoadedInv
<1>6. HandInv /\ TextInv /\ EndInv
  BY <1>1 DEF HandInv, TextInv, EndInv, SoundIsLoaded, Nothing
<1> QED
  BY <1>4, <1>5, <1>6 DEF Inv

LEMMA NextKeeps ==
  ASSUME Inv, [Next]_vars
  PROVE  Inv'
<1>1. CASE UNCHANGED vars
  <2>1. UNCHANGED <<file, phase, left, settings, asks, got, loaded>>
    BY <1>1 DEF vars
  <2>2. LeftInv' /\ LoadedInv'
    BY <2>1, KeptLeft, KeptLoaded DEF Inv, LeftInv
  <2>3. HandInv'
    BY <2>1 DEF Inv, HandInv, Stage, NameOf
  <2>4. TextInv'
    BY <2>1 DEF Inv, TextInv
  <2>5. EndInv'
    BY <2>1 DEF Inv, EndInv, SoundIsLoaded, NameIn, PluginsDone
  <2> QED
    BY <2>2, <2>3, <2>4, <2>5 DEF Inv
<1>2. CASE Open
  BY <1>2, OpenSteps
<1>3. CASE Begin
  BY <1>3, BeginSteps
<1>4. CASE Consume
  BY <1>4, ConsumeSteps
<1>5. CASE RefuseSetting
  BY <1>5, RefuseSettingSteps
<1>6. CASE Panic
  BY <1>6, PanicSteps
<1>7. CASE Create
  BY <1>7, CreateSteps
<1>8. CASE RefuseKind
  BY <1>8, RefuseKindSteps
<1>9. CASE Finish
  BY <1>9, FinishSteps
<1>10. CASE RefuseWhole
  BY <1>10, RefuseWholeSteps
<1> QED
  BY <1>1, <1>2, <1>3, <1>4, <1>5, <1>6, <1>7, <1>8, <1>9, <1>10 DEF Next

-----------------------------------------------------------------------------
(* The theorems                                                             *)

\* The inductive invariant holds of every step, for any table of files.
THEOREM LoadingInvHolds == Spec => []Inv
<1>1. Init => Inv
  BY InitHolds
<1>2. Inv /\ [Next]_vars => Inv'
  BY NextKeeps
<1> QED
  BY <1>1, <1>2, PTL DEF Spec

LEMMA InvImpliesTypes ==
  ASSUME Inv
  PROVE  TypeOK
<1>1. LeftInv /\ HandInv /\ TextInv
  BY DEF Inv
<1>2. \E i \in 1 .. Len(file.plugins) + 1 : left = SubSeq(file.plugins, i, Len(file.plugins))
  <2> DEFINE all == file.plugins  b == SubSeq(all, Count + 1, Len(all))  S == Range(all)
  <2>1. /\ all \in Seq(S) /\ left \in Seq(S) /\ Len(all) \in Nat /\ Len(left) \in Nat /\ Count \in Nat /\ Count <= Len(all)
        /\ Len(left) = Len(all) - Count /\ \A i \in DOMAIN left : left[i] = all[Count + i]
    BY <1>1, LeftFacts, FileFacts DEF LeftInv
  <2> HIDE DEF all, S
  <2>2. b \in Seq(S) /\ Len(b) = Len(all) - Count /\ \A i \in 1 .. Len(b) : b[i] = all[Count + i]
    BY <2>1
  <2> HIDE DEF b
  <2>3. \A i \in 1 .. Len(b) : b[i] = left[i]
    <3>1. DOMAIN left = 1 .. Len(b)
      BY <2>1, <2>2
    <3> QED
      BY <2>1, <2>2, <3>1
  <2>4. left = b
    BY <2>1, <2>2, <2>3, SeqEqual
  <2>5. Count + 1 \in 1 .. Len(all) + 1
    BY <2>1
  <2> QED
    BY <2>4, <2>5 DEF b, all
<1>3. ASSUME phase \in {"plugin", "impl"}
      PROVE  left # <<>> /\ DOMAIN settings \subseteq DOMAIN Head(left)
  <2>1. \E k : settings = Restrict(Head(left), DOMAIN Head(left) \ Taken(Head(left), Stage, k))
    BY <1>1, <1>3 DEF HandInv, ReadFirst
  <2> QED
    BY <1>1, <1>3, <2>1 DEF HandInv, Restrict
<1> QED
  BY <1>1, <1>2, <1>3 DEF TypeOK, LeftInv, TextInv

LEMMA InvImpliesWritten ==
  ASSUME Inv
  PROVE  AsWritten
<1>1. LeftInv /\ LoadedInv
  BY DEF Inv
<1>2. SUFFICES ASSUME NEW i \in DOMAIN PluginsDone
               PROVE  /\ NameIn(i) \in DOMAIN loaded
                      /\ \A k \in DOMAIN AllAsks(file.class, file.plugins[i]) :
                           LET ask  == AllAsks(file.class, file.plugins[i])[k]
                               said == {f \in DOMAIN file.plugins[i] : f.stem = ask.field.stem}
                           IN  loaded[NameIn(i)].got[ask.field] \in
                                 IF said = {} THEN {ask.default} ELSE {Texts(file.plugins[i][f]) : f \in said}
  BY DEF AsWritten
<1>3. i \in 1 .. Count /\ i \in DOMAIN file.plugins /\ file.class \in Classes
  BY <1>1, DoneFacts, LeftFacts
<1> DEFINE p == file.plugins[i]
<1>4. NameIn(i) \in DOMAIN loaded /\ loaded[NameIn(i)].got = Said(file.class, p) /\ Sound(file.class, p)
  <2>1. NameIn(i) \in DOMAIN loaded /\ Sound(file.class, p)
    BY <1>1, <1>3 DEF LoadedInv
  <2>2. loaded[NameIn(i)] = [got |-> Said(file.class, p), over |-> Rest(file.class, p)]
    BY <1>1, <1>3 DEF LoadedInv
  <2> HIDE DEF p
  <2> QED
    BY <2>1, <2>2
<1>5. Cut(file.class, p)
  BY <1>1, <1>3, FileFacts DEF LeftInv
<1> HIDE DEF p
<1>6. \A k \in DOMAIN AllAsks(file.class, p) :
        LET ask  == AllAsks(file.class, p)[k]
            said == {f \in DOMAIN p : f.stem = ask.field.stem}
        IN  Said(file.class, p)[ask.field] \in IF said = {} THEN {ask.default} ELSE {Texts(p[f]) : f \in said}
  <2>1. file.class \in Classes /\ Sound(file.class, p) /\ Cut(file.class, p)
    BY <1>3, <1>4, <1>5
  <2> TAKE k \in DOMAIN AllAsks(file.class, p)
  <2> DEFINE c == file.class
  <2>2. c \in Classes /\ Sound(c, p) /\ Cut(c, p) /\ k \in DOMAIN AllAsks(c, p)
    BY <2>1
  <2> HIDE DEF c
  <2>3. LET ask  == AllAsks(c, p)[k]
            said == {f \in DOMAIN p : f.stem = ask.field.stem}
        IN  Said(c, p)[ask.field] \in IF said = {} THEN {ask.default} ELSE {Texts(p[f]) : f \in said}
    BY <2>2, ReadAsWritten
  <2> QED
    BY <2>3 DEF c
<1> QED
  BY <1>4, <1>6 DEF p

LEMMA InvImpliesNothingIgnored ==
  ASSUME Inv
  PROVE  NothingIgnored
<1>1. LeftInv /\ LoadedInv
  BY DEF Inv
<1>2. SUFFICES ASSUME NEW n \in DOMAIN loaded, NEW f \in DOMAIN loaded[n].over
               PROVE  \/ \E g \in DOMAIN loaded[n].got : g # f /\ g.stem = f.stem
                      \/ loaded[n].got[Plain("kind")][1] = "dns" /\ f.stem = "interval"
                      \/ loaded[n].got[Plain("kind")][1] = "upnp" \/ file.class = "report"
  BY DEF NothingIgnored
<1>3. PICK i \in 1 .. Count : n = NameIn(i)
  BY <1>1 DEF LoadedInv
<1> DEFINE p == file.plugins[i]  class == file.class
<1>4. class \in Classes /\ Sound(class, p) /\ loaded[n] = [got |-> Said(class, p), over |-> Rest(class, p)]
  BY <1>1, <1>3, LeftFacts DEF LoadedInv
<1> HIDE DEF p, class
<1>5. loaded[n].got = Said(class, p) /\ loaded[n].over = Rest(class, p)
  BY <1>4
<1>6. Said(class, p)[Plain("kind")][1] = SaidKind(class, p)
  <2>1. SaidKind(class, p) \in DOMAIN Makers(class) /\ \A k \in DOMAIN AllAsks(class, p) : Readable(p, AllAsks(class, p)[k])
    BY <1>4 DEF Sound
  <2>2. 2 \in DOMAIN AllAsks(class, p) /\ AllAsks(class, p)[2] = Own(class)[2] /\ Own(class)[2].field = Plain("kind")
    BY <1>4, <2>1, AllAsksFacts, OwnFacts
  <2>3. Said(class, p)[Plain("kind")] = Result(p, Own(class)[2])
    BY <1>4, <2>1, <2>2, SaidAt
  <2>4. Readable(p, Own(class)[2])
    BY <2>1, <2>2
  <2> QED
    BY <2>3, <2>4 DEF SaidKind
<1>7. f \in DOMAIN Rest(class, p)
  BY <1>5
<1>8. \/ \E g \in DOMAIN Said(class, p) : g # f /\ g.stem = f.stem
      \/ SaidKind(class, p) = "dns" /\ f.stem = "interval"
      \/ SaidKind(class, p) = "upnp" \/ class = "report"
  BY <1>4, <1>7, RestIsKnown
<1> QED
  BY <1>5, <1>6, <1>8 DEF class

\* Every plugin that is loaded runs with what the file says of it, whatever order ten
\* constructors take their settings in; only a plugin that is wrong is refused.
THEOREM PluginsAsWritten == Spec => []PluginInv
<1>1. Inv => PluginInv
  BY InvImpliesTypes, InvImpliesWritten DEF PluginInv, Inv, EndInv
<1> QED
  BY <1>1, LoadingInvHolds, PTL

\* No setting of a plugin is silently without effect, but for those NothingIgnored names.
THEOREM NoSettingIgnored == Spec => []NothingIgnored
<1>1. Inv => NothingIgnored
  BY InvImpliesNothingIgnored
<1> QED
  BY <1>1, LoadingInvHolds, PTL

-----------------------------------------------------------------------------
(* The refinement of ConfigLoad                                             *)

\* The plugins of a list of sources, as ConfigLoad has them.
Kinds   == {"root", "filter"}
Plugins == [name : Names \cup {NoName}, kind : Kinds, good : BOOLEAN, uses : SUBSET Names]

LEMMA OfFileFacts ==
  ASSUME NEW p, p \in [DOMAIN p -> Values]
  PROVE  /\ OfFile(p) \in Plugins
         /\ Sound("source", p) => /\ OfFile(p).good /\ OfFile(p).name = Said("source", p)[Plain("name")][1]
                                  /\ OfFile(p).name \in Names /\ OfFile(p).name # NoName
                                  /\ OfFile(p) = AsPlugin(OfFile(p).name, Said("source", p))
         /\ ~ Sound("source", p) => ~ OfFile(p).good
<1>1. CASE Sound("source", p)
  <2> DEFINE all == AllAsks("source", p)  said == Said("source", p)
  <2>1. "source" \in Classes
    BY DEF Classes
  <2>2. SaidKind("source", p) \in DOMAIN Makers("source") /\ \A i \in DOMAIN all : Readable(p, all[i])
    BY <1>1 DEF Sound
  <2>3. /\ all \in Seq(AskType) /\ 1 \in DOMAIN all /\ 3 \in DOMAIN all
        /\ all[1] = Own("source")[1] /\ all[3] = Own("source")[3]
    BY <2>1, <2>2, AllAsksFacts
  <2>4. /\ Own("source")[1].field = Plain("name") /\ Own("source")[3].field = Plain("source")
        /\ ~ Own("source")[1].many /\ (~ Own("source")[1].needed => Len(Own("source")[1].default) = 1)
    BY <2>1, OwnFacts
  <2>5. all[1] \in AskType /\ all[3] \in AskType
    BY <2>3
  <2>6. said[Plain("name")] = Result(p, all[1]) /\ said[Plain("source")] = Result(p, all[3])
    BY <2>1, <2>2, <2>3, <2>4, SaidAt
  <2>7. Result(p, all[1]) \in Seq(Names) /\ Len(Result(p, all[1])) = 1
    BY <2>2, <2>3, <2>4, <2>5, ResultFacts
  <2>8. Result(p, all[3]) \in Seq(Names)
    BY <2>2, <2>3, <2>5, ResultFacts
  <2> HIDE DEF all, said
  <2> DEFINE name == said[Plain("name")][1]
  <2>9. name \in Names /\ name # NoName
    BY <2>6, <2>7, LoadAssumption
  <2>10. Uses(said) \subseteq Names
    BY <2>6, <2>8 DEF Uses, Range
  <2> HIDE DEF name
  <2>11. AsPlugin(name, said) \in Plugins /\ AsPlugin(name, said).name = name /\ AsPlugin(name, said).good
    BY <2>9, <2>10 DEF AsPlugin, Plugins, Kinds
  <2>12. OfFile(p) = AsPlugin(name, said)
    BY <1>1 DEF OfFile, name, said
  <2> QED
    BY <1>1, <2>9, <2>11, <2>12 DEF name, said
<1>2. CASE ~ Sound("source", p)
  <2>1. OfFile(p) = [name |-> NoName, kind |-> "root", good |-> FALSE, uses |-> {}]
    BY <1>2 DEF OfFile
  <2> QED
    BY <1>2, <2>1 DEF Plugins, Kinds
<1> QED
  BY <1>1, <1>2

\* The configuration of a file, and how much of it is left.
AllSources == file.config.sources

LEMMA ConfigFacts ==
  ASSUME LeftInv, file.class = "source"
  PROVE  /\ file.config.good /\ file.config \in Configurations
         /\ AllSources \in Seq(Plugins) /\ Len(AllSources) = Len(file.plugins)
         /\ \A i \in DOMAIN file.plugins : AllSources[i] = OfFile(file.plugins[i])
<1> DEFINE all == file.plugins  of == [i \in DOMAIN all |-> OfFile(all[i])]
<1>1. file.config = OfConfig("source", all)
  BY ConfigsAreMeant DEF LeftInv
<1>2. OfConfig("source", all) = [good |-> TRUE, targets |-> <<>>, sources |-> of]
  BY DEF OfConfig
<1>3. all \in Seq(Range(all)) /\ Len(all) \in Nat /\ DOMAIN all = 1 .. Len(all) /\ \A i \in DOMAIN all : OfFile(all[i]) \in Plugins
  BY FileFacts, OfFileFacts DEF LeftInv, IsSettings
<1> HIDE DEF all
<1>4. of \in Seq(Plugins) /\ Len(of) = Len(all) /\ \A i \in DOMAIN all : of[i] = OfFile(all[i])
  BY <1>3
<1> HIDE DEF of
<1>5. file.config.sources = of /\ file.config.good
  BY <1>1, <1>2
<1>6. file.config \in Configurations
  <2> DEFINE good == TRUE  none == <<>>  S == Seq(Plugins)
  <2>1. good \in {TRUE} /\ none \in {<<>>}
    OBVIOUS
  <2>2. file.config = [good |-> good, targets |-> none, sources |-> of]
    BY <1>1, <1>2
  <2>3. Configurations = [good : {TRUE}, targets : {<<>>}, sources : S]
    BY DEF Configurations, Plugins, Kinds
  <2> HIDE DEF good, none, S
  <2>4. of \in S
    BY <1>4 DEF S
  <2>5. [good |-> good, targets |-> none, sources |-> of] \in [good : {TRUE}, targets : {<<>>}, sources : S]
    BY <2>1, <2>4
  <2> QED
    BY <2>2, <2>3, <2>5
<1> QED
  BY <1>4, <1>5, <1>6 DEF AllSources, all

\* What ConfigLoad sees of a step: the phase, the plugins that are left, the map.
LoadPhase ==
  IF phase = "opening" \/ file.class # "source" THEN "opening"
  ELSE IF phase \in {"failed", "crashed"} THEN "failed" ELSE "sources"
LoadLeft ==
  IF phase = "opening" \/ file.class # "source" THEN <<>>
  ELSE SubSeq(AllSources, Len(file.plugins) - Len(left) + 1, Len(file.plugins))
LoadSources == IF file.class = "source" THEN [n \in DOMAIN loaded |-> AsPlugin(n, loaded[n].got)] ELSE Nothing

LEMMA UnseenStep ==
  ASSUME file' = file, LoadPhase' = LoadPhase, LoadLeft' = LoadLeft, LoadSources' = LoadSources
  PROVE  UNCHANGED Loading!vars
<1>1. Loading!vars = <<file.config, LoadPhase, LoadLeft, <<>>, {}, <<LoadSources, Nothing, Nothing, Nothing>>,
                       <<Nothing, FALSE, {}>>>>
  BY DEF Loading!vars, Loading!maps, Loading!plans, LoadPhase, LoadLeft, LoadSources, AllSources
<1>2. Loading!vars' = <<file'.config, LoadPhase', LoadLeft', <<>>, {}, <<LoadSources', Nothing, Nothing, Nothing>>,
                        <<Nothing, FALSE, {}>>>>
  BY DEF Loading!vars, Loading!maps, Loading!plans, LoadPhase, LoadLeft, LoadSources, AllSources, Nothing
<1> QED
  BY <1>1, <1>2

\* A file of reports or publishers is none of ConfigLoad's sources.
LEMMA OtherClass ==
  ASSUME file.class # "source", file' = file
  PROVE  UNCHANGED Loading!vars
<1>0. file'.class # "source"
  OBVIOUS
<1>1. LoadPhase = "opening" /\ LoadPhase' = "opening"
  BY <1>0 DEF LoadPhase
<1>2. LoadLeft = <<>> /\ LoadLeft' = <<>>
  BY DEF LoadLeft
<1>3. LoadSources = Nothing /\ LoadSources' = Nothing
  BY DEF LoadSources, Nothing
<1> QED
  BY <1>1, <1>2, <1>3, UnseenStep

\* The plugin that ConfigLoad has at hand is the one that is being read.
LEMMA MappedLeft ==
  ASSUME Inv, file.class = "source", phase # "opening"
  PROVE  /\ LoadLeft = <<>> <=> left = <<>>
         /\ left # <<>> => /\ Head(LoadLeft) = OfFile(Head(left))
                           /\ Tail(LoadLeft) = SubSeq(AllSources, Count + 2, Len(file.plugins))
<1>1. LeftInv
  BY DEF Inv
<1>2. AllSources \in Seq(Plugins) /\ Len(AllSources) = Len(file.plugins)
      /\ \A i \in DOMAIN file.plugins : AllSources[i] = OfFile(file.plugins[i])
  BY <1>1, ConfigFacts
<1>3. /\ Count \in Nat /\ Len(file.plugins) \in Nat /\ Len(left) \in Nat /\ Count <= Len(file.plugins)
      /\ Len(left) = Len(file.plugins) - Count
      /\ left # <<>> => /\ Count + 1 \in DOMAIN file.plugins /\ Head(left) = file.plugins[Count + 1]
  BY <1>1, LeftFacts
<1>4. Count \in 0 .. Len(AllSources)
  BY <1>2, <1>3
<1>5. LoadLeft = SubSeq(AllSources, Count + 1, Len(AllSources))
  BY <1>2 DEF LoadLeft, Count
<1> DEFINE t == LoadLeft  s == AllSources  k == Count
<1>5a. s \in Seq(Plugins) /\ k \in 0 .. Len(s) /\ t = SubSeq(s, k + 1, Len(s))
  BY <1>2, <1>4, <1>5
<1> HIDE DEF t, s, k
<1>5b. t = <<>> <=> k = Len(s)
  <2>1. t \in Seq(Plugins) /\ Len(t) = Len(s) - k
    BY <1>5a, SuffixFacts
  <2>2. t = <<>> <=> Len(t) = 0
    BY <2>1, EmptySeq
  <2>3. Len(s) \in Nat /\ k \in Nat
    BY <1>5a
  <2> QED
    BY <2>1, <2>2, <2>3
<1>5c. t # <<>> => Head(t) = s[k + 1] /\ Tail(t) = SubSeq(s, k + 2, Len(s))
  BY <1>5a, SuffixFacts
<1> USE DEF t, s, k
<1>6. /\ LoadLeft = <<>> <=> Count = Len(AllSources)
      /\ LoadLeft # <<>> => /\ Head(LoadLeft) = AllSources[Count + 1]
                            /\ Tail(LoadLeft) = SubSeq(AllSources, Count + 2, Len(AllSources))
  BY <1>5b, <1>5c
<1>7. left = <<>> <=> Count = Len(AllSources)
  <2>1. left \in Seq(Range(file.plugins))
    BY <1>1 DEF LeftInv
  <2>2. left = <<>> <=> Len(left) = 0
    BY <2>1, EmptySeq
  <2> QED
    BY <1>2, <1>3, <2>2
<1>8. LoadLeft = <<>> <=> left = <<>>
  BY <1>6, <1>7, Zenon
<1> QED
  BY <1>2, <1>3, <1>6, <1>8

\* It has the name that the file says.
LEMMA MappedName ==
  ASSUME Inv, file.class = "source", left # <<>>
  PROVE  /\ Sound("source", Head(left)) =>
              /\ OfFile(Head(left)).good /\ OfFile(Head(left)).name = NameIn(Count + 1) /\ NameIn(Count + 1) # NoName
              /\ OfFile(Head(left)) = AsPlugin(NameIn(Count + 1), Said("source", Head(left)))
         /\ ~ Sound("source", Head(left)) => ~ OfFile(Head(left)).good
<1>1. Head(left) = file.plugins[Count + 1] /\ Head(left) \in [DOMAIN Head(left) -> Values]
  BY LeftFacts DEF Inv, IsSettings
<1>2. NameIn(Count + 1) = Said("source", Head(left))[Plain("name")][1]
  BY <1>1 DEF NameIn
<1> QED
  BY <1>1, <1>2, OfFileFacts

\* Before ConfigLoad has opened the file, no plugin is loaded.
Untouched == phase = "opening" => left = file.plugins

LEMMA UntouchedHolds == Spec => []Untouched
<1>1. Init => Untouched
  BY DEF Init, Untouched
<1>2. Untouched /\ [Next]_vars => Untouched'
  <2> SUFFICES ASSUME Untouched, [Next]_vars PROVE Untouched'
    OBVIOUS
  <2>1. CASE UNCHANGED vars
    BY <2>1 DEF vars, Untouched
  <2>2. CASE Open \/ Begin \/ Create \/ Finish
    BY <2>2 DEF Open, Begin, Create, Finish, Untouched
  <2>3. CASE Consume
    BY <2>3 DEF Consume, Reading, Untouched
  <2>4. CASE RefuseSetting \/ Panic \/ RefuseKind \/ RefuseWhole
    BY <2>4 DEF RefuseSetting, Panic, RefuseKind, RefuseWhole, Fail, Untouched
  <2> QED
    BY <2>1, <2>2, <2>3, <2>4 DEF Next
<1> QED
  BY <1>1, <1>2, PTL DEF Spec

LEMMA OpenRefines ==
  ASSUME Inv, Untouched, Open, file.class = "source"
  PROVE  Loading!Open
<1>1. phase = "opening" /\ phase' = "loading" /\ UNCHANGED <<file, left, settings, asks, got, loaded>>
  BY DEF Open
<1>2. LoadPhase = "opening" /\ LoadPhase' = "sources" /\ LoadSources' = LoadSources
  BY <1>1 DEF LoadPhase, LoadSources
<1>3. LoadLeft' = AllSources
  <2>1. AllSources \in Seq(Plugins) /\ Len(AllSources) = Len(file.plugins) /\ Len(file.plugins) \in Nat
    BY ConfigFacts, LeftFacts DEF Inv
  <2>2. LoadLeft' = SubSeq(AllSources, Len(file.plugins) - Len(file.plugins) + 1, Len(file.plugins))
    BY <1>1 DEF LoadLeft, AllSources, Untouched
  <2>3. Len(file.plugins) - Len(file.plugins) + 1 = 1
    BY <2>1
  <2> QED
    BY <2>1, <2>2, <2>3, SubSeqFull
<1>4. file.config.good
  BY ConfigFacts DEF Inv
<1> QED
  BY <1>1, <1>2, <1>3, <1>4 DEF Loading!Open, Loading!maps, Loading!plans, LoadPhase, LoadLeft, LoadSources, AllSources, Nothing

\* Nobody but this module sees how a plugin is read.
LEMMA ReadingIsUnseen ==
  ASSUME file.class = "source", Begin \/ Consume \/ Create
  PROVE  UNCHANGED Loading!vars
<1>1. UNCHANGED <<file, left, loaded>> /\ phase \in {"loading", "plugin", "impl"} /\ phase' \in {"loading", "plugin", "impl"}
  BY DEF Begin, Consume, Create, Reading
<1>2. LoadPhase' = LoadPhase /\ LoadLeft' = LoadLeft /\ LoadSources' = LoadSources
  BY <1>1 DEF LoadPhase, LoadLeft, LoadSources, AllSources
<1> QED
  BY <1>1, <1>2, UnseenStep

LEMMA FinishRefines ==
  ASSUME Inv, Finish, file.class = "source"
  PROVE  Loading!LoadPlugin
<1> DEFINE p == Head(left)  name == NameIn(Count + 1)  plugin == OfFile(p)
<1>1. /\ phase = "impl" /\ phase' = "loading" /\ asks = <<>> /\ left' = Tail(left) /\ file' = file /\ left # <<>>
      /\ loaded' = [n \in DOMAIN loaded \cup {NameOf(got[Plain("name")][1])} |->
                      IF n = NameOf(got[Plain("name")][1]) THEN [got |-> got, over |-> settings] ELSE loaded[n]]
  BY DEF Inv, HandInv, Finish
<1>2. LeftInv /\ HandInv /\ LoadedInv /\ TextInv
  BY DEF Inv
<1>3. got = Said("source", p) /\ Sound("source", p)
  BY <1>1, <1>2, AllIsSaid DEF Finish
<1>4. name = NameOf(got[Plain("name")][1]) /\ name \notin DOMAIN loaded
  <2>1. /\ NameOf(got[Plain("name")][1]) \notin DOMAIN loaded
        /\ got[Plain("name")] = Result(p, Own("source")[1])
    BY <1>1, <1>2, StageEnds
  <2>2. SaidKind("source", p) \in DOMAIN Makers("source")
    BY <1>3 DEF Sound
  <2>3. name = NameOf(Result(p, Own("source")[1])[1])
    BY <1>1, <1>2, <2>2, NextName
  <2> QED
    BY <2>1, <2>3
<1>5. plugin.good /\ plugin.name = name /\ name # NoName /\ plugin = AsPlugin(name, got)
  BY <1>1, <1>3, MappedName
<1>6. LoadLeft # <<>> /\ Head(LoadLeft) = plugin /\ Tail(LoadLeft) = SubSeq(AllSources, Count + 2, Len(file.plugins))
  BY <1>1, MappedLeft
<1>7. LoadLeft' = Tail(LoadLeft)
  <2>1. Len(left') = Len(left) - 1 /\ Len(left) \in Nat /\ Len(file.plugins) \in Nat
    <3>1. left \in Seq(Range(file.plugins)) /\ Len(left) \in Nat /\ Len(file.plugins) \in Nat
      BY <1>2, LeftFacts DEF LeftInv
    <3> QED
      BY <1>1, <3>1, HeadTailProperties
  <2>2. LoadLeft' = SubSeq(AllSources, Len(file.plugins) - Len(left') + 1, Len(file.plugins))
    BY <1>1 DEF LoadLeft, AllSources
  <2>3. Len(file.plugins) - Len(left') + 1 = Count + 2
    BY <2>1 DEF Count
  <2> QED
    BY <1>6, <2>2, <2>3
<1>8. LoadPhase = "sources" /\ LoadPhase' = "sources"
  BY <1>1 DEF LoadPhase
<1> HIDE DEF name, plugin, p
<1>9. LoadSources' = [n \in DOMAIN LoadSources \cup {name} |-> IF n = name THEN plugin ELSE LoadSources[n]]
  <2>1. LoadSources = [n \in DOMAIN loaded |-> AsPlugin(n, loaded[n].got)]
    BY DEF LoadSources
  <2>2. LoadSources' = [n \in DOMAIN loaded' |-> AsPlugin(n, loaded'[n].got)]
    BY <1>1 DEF LoadSources
  <2>3. DOMAIN loaded' = DOMAIN loaded \cup {name} /\ DOMAIN LoadSources = DOMAIN loaded
    BY <1>1, <1>4, <2>1
  <2>4. ASSUME NEW n \in DOMAIN loaded \cup {name}
        PROVE  AsPlugin(n, loaded'[n].got) = IF n = name THEN plugin ELSE LoadSources[n]
    <3>1. CASE n = name
      <4>1. loaded'[n].got = got
        BY <1>1, <1>4, <3>1
      <4> QED
        BY <1>5, <3>1, <4>1
    <3>2. CASE n # name
      <4>1. loaded'[n] = loaded[n] /\ n \in DOMAIN loaded
        BY <1>1, <1>4, <3>2
      <4> QED
        BY <2>1, <3>2, <4>1
    <3> QED
      BY <3>1, <3>2
  <2> QED
    BY <2>2, <2>3, <2>4
<1>10. name \notin DOMAIN LoadSources
  BY <1>4 DEF LoadSources
<1> QED
  <2>1. Loading!Map = LoadSources
    BY <1>8 DEF Loading!Map, LoadPhase, LoadSources
  <2>2. Loading!Name(LoadSources, plugin) = name
    BY <1>5 DEF Loading!Name
  <2>3. Loading!Loads(LoadSources, plugin)
    BY <1>5, <1>10, <2>2 DEF Loading!Loads
  <2>4. Loading!Extend(LoadSources, name, plugin) = LoadSources'
    BY <1>9 DEF Loading!Extend
  <2> QED
    BY <1>1, <1>6, <1>7, <1>8, <2>1, <2>2, <2>3, <2>4
    DEF Loading!LoadPlugin, Loading!plans, LoadPhase, LoadLeft, LoadSources, AllSources, Nothing

\* ConfigLoad refuses what is refused here.
LEMMA RefusalRefines ==
  ASSUME Inv, Inv', file.class = "source", phase \notin {"opening", "failed", "crashed"},
         NEW how \in {"failed", "crashed"}, Fail(how)
  PROVE  Loading!RefusePlugin
<1> DEFINE p == Head(left)  name == NameIn(Count + 1)  plugin == OfFile(p)
<1>1. UNCHANGED <<file, left, settings, asks, got, loaded>> /\ phase' = how
  BY DEF Fail
<1>2. LeftInv /\ LoadedInv
  BY DEF Inv
<1>3. left # <<>> /\ (~ Sound("source", p) \/ name \in DOMAIN loaded)
  <2>1. EndInv'
    BY DEF Inv
  <2>2. left' # <<>> /\ (phase' = "crashed" => ~ Sound(file'.class, Head(left')))
    BY <1>1, <2>1 DEF EndInv
  <2>3. phase' = "failed" => ~ Sound(file'.class, Head(left')) \/ NameIn(Len(PluginsDone) + 1)' \in DOMAIN loaded'
    BY <2>1 DEF EndInv, SoundIsLoaded
  <2>4. NameIn(Len(PluginsDone) + 1)' = name
    <3>1. Len(PluginsDone) = Count /\ PluginsDone' = PluginsDone
      BY <1>1, <1>2, DoneFacts DEF PluginsDone
    <3> QED
      BY <1>1, <3>1 DEF NameIn
  <2> QED
    BY <1>1, <2>2, <2>3, <2>4
<1>4. ~ plugin.good \/ (plugin.name = name /\ name # NoName /\ name \in DOMAIN loaded)
  BY <1>3, MappedName
<1>5. LoadLeft # <<>> /\ Head(LoadLeft) = plugin
  BY <1>3, MappedLeft
<1>6. /\ LoadPhase = "sources" /\ LoadPhase' = "failed"
      /\ LoadLeft' = LoadLeft /\ LoadSources' = LoadSources /\ DOMAIN LoadSources = DOMAIN loaded
  <2>1. phase # "opening" /\ phase \notin {"failed", "crashed"} /\ phase' # "opening" /\ phase' \in {"failed", "crashed"}
    BY <1>1
  <2> QED
    BY <1>1, <2>1 DEF LoadPhase, LoadLeft, LoadSources, AllSources
<1> HIDE DEF name, plugin, p
<1>7. ~ Loading!Loads(LoadSources, plugin)
  BY <1>4, <1>6 DEF Loading!Loads, Loading!Name
<1>8. Loading!Map = LoadSources
  BY <1>6 DEF Loading!Map, LoadPhase, LoadSources
<1> QED
  BY <1>1, <1>5, <1>6, <1>7, <1>8
  DEF Loading!RefusePlugin, Loading!Fail, Loading!maps, Loading!plans, LoadPhase, LoadLeft, LoadSources, AllSources, Nothing

LEMMA InitRefines ==
  ASSUME Init
  PROVE  Loading!Init
<1>1. file \in Files /\ phase = "opening" /\ loaded = Nothing
  BY DEF Init
<1>2. file.config \in Configurations
  <2>1. CASE file.class = "source"
    BY <2>1, InitHolds, ConfigFacts DEF Inv
  <2>2. CASE file.class # "source"
    <3> DEFINE good == TRUE  none == <<>>  S == Seq(Plugins)
    <3>1. good \in {TRUE} /\ none \in {<<>>} /\ none \in S
      OBVIOUS
    <3>2. file.config = [good |-> good, targets |-> none, sources |-> none]
      BY <1>1, <2>2, ConfigsAreMeant DEF OfConfig
    <3>3. Configurations = [good : {TRUE}, targets : {<<>>}, sources : S]
      BY DEF Configurations, Plugins, Kinds
    <3> HIDE DEF good, none, S
    <3>4. [good |-> good, targets |-> none, sources |-> none] \in [good : {TRUE}, targets : {<<>>}, sources : S]
      BY <3>1
    <3> QED
      BY <3>2, <3>3, <3>4
  <2> QED
    BY <2>1, <2>2
<1>3. LoadPhase = "opening" /\ LoadLeft = <<>> /\ LoadSources = Nothing
  BY <1>1 DEF LoadPhase, LoadLeft, LoadSources, Nothing
<1>4. Nothing = Loading!Empty
  BY DEF Nothing, Loading!Empty
<1> QED
  BY <1>2, <1>3, <1>4 DEF Loading!Init, LoadPhase, LoadLeft, LoadSources, AllSources

\* A file of sources is loaded as ConfigLoad loads it, one plugin at a step, for any
\* table of files: whatever is read of a plugin in between is not seen.
THEOREM SourcesAsConfigLoad == Spec => LoadsInOneStep
<1>1. Init => Loading!Init
  BY InitRefines
<1>2. Inv /\ Inv' /\ Untouched /\ [Next]_vars => [Loading!Next]_(Loading!vars)
  <2> SUFFICES ASSUME Inv, Inv', Untouched, [Next]_vars PROVE Loading!Next \/ UNCHANGED Loading!vars
    OBVIOUS
  <2>1. CASE UNCHANGED vars
    <3>1. LoadPhase' = LoadPhase /\ LoadLeft' = LoadLeft /\ LoadSources' = LoadSources /\ file' = file
      BY <2>1 DEF vars, LoadPhase, LoadLeft, LoadSources, AllSources, Nothing
    <3> QED
      BY <3>1, UnseenStep
  <2>2. CASE Next /\ file.class # "source"
    <3>1. file' = file
      BY <2>2 DEF Next, Open, Begin, Consume, RefuseSetting, Panic, Create, RefuseKind, Finish, RefuseWhole, Fail
    <3> QED
      BY <2>2, <3>1, OtherClass
  <2>3. CASE Open /\ file.class = "source"
    BY <2>3, OpenRefines DEF Loading!Next, Loading!Load
  <2>4. CASE (Begin \/ Consume \/ Create) /\ file.class = "source"
    BY <2>4, ReadingIsUnseen
  <2>5. CASE Finish /\ file.class = "source"
    BY <2>5, FinishRefines DEF Loading!Next, Loading!Load
  <2>6. CASE (RefuseSetting \/ Panic \/ RefuseKind \/ RefuseWhole) /\ file.class = "source"
    <3>1. PICK how \in {"failed", "crashed"} : Fail(how)
      BY <2>6 DEF RefuseSetting, Panic, RefuseKind, RefuseWhole
    <3>2. phase \notin {"opening", "failed", "crashed"}
      BY <2>6 DEF RefuseSetting, Panic, RefuseKind, RefuseWhole, Reading
    <3> QED
      BY <2>6, <3>1, <3>2, RefusalRefines DEF Loading!Next, Loading!Load
  <2> QED
    BY <2>1, <2>2, <2>3, <2>4, <2>5, <2>6 DEF Next
<1> QED
  BY <1>1, <1>2, LoadingInvHolds, UntouchedHolds, PTL DEF Spec, LoadsInOneStep, Loading!Spec
===============================================================================
