------------------------------- MODULE MeshApp -------------------------------
(***************************************************************************)
(* The Backstage app (packages/app): what an entity's page shows of the    *)
(* entity's relations, and the search page.                                *)
(*                                                                         *)
(* A card lists the entities of some kinds that relations of some types    *)
(* lead to; cards that list no relations are left out.  A tab has cards    *)
(* and possibly the warnings; a page is a set of tabs with their paths     *)
(* below the entity's.  Entities and their references are those of         *)
(* MeshEntities, a relation is a record of type, source and target.        *)
(***************************************************************************)
EXTENDS MeshEntities

(* Entity pages. *)

Kinds == {"component", "api", "resource", "system", "domain", "group", "user", "template", "location"}
RelationTypes ==
  {"providesApi", "apiProvidedBy", "consumesApi", "apiConsumedBy", "dependsOn", "dependencyOf",
   "hasPart", "partOf", "ownedBy", "ownerOf", "memberOf", "hasMember"}

Card(types, kinds) == [relations |-> types, kinds |-> kinds]
EntityCatalogGraphCard == Card(RelationTypes, Kinds)
EntityAboutCard == Card({"ownedBy", "partOf"}, Kinds)
HasPartCard(kind) == Card({"hasPart"}, {kind})
DependsOnCard(kind) == Card({"dependsOn"}, {kind})
EntityOwnershipCard == Card({"ownerOf"}, Kinds)

\* Warnings are entityWarningContent: an orphan's, a dangling relation's, processing errors'.
Tab(cards) == [warnings |-> FALSE, cards |-> cards]
WithWarnings(tab) == [tab EXCEPT !.warnings = TRUE]

overviewContent == WithWarnings(Tab({EntityAboutCard, EntityCatalogGraphCard, HasPartCard("component")}))
techdocsContent == Tab({})
cicdContent == Tab({})
dependencies == Tab({DependsOnCard("component"), DependsOnCard("resource")})

serviceEntityPage ==
  {<<"/", overviewContent>>, <<"/ci-cd", cicdContent>>,
   <<"/api", Tab({Card({"providesApi"}, {"api"}), Card({"consumesApi"}, {"api"})})>>,
   <<"/dependencies", dependencies>>, <<"/docs", techdocsContent>>}

websiteEntityPage ==
  {<<"/", overviewContent>>, <<"/ci-cd", cicdContent>>, <<"/dependencies", dependencies>>,
   <<"/docs", techdocsContent>>}

defaultEntityPage == {<<"/", overviewContent>>, <<"/docs", techdocsContent>>}

\* Mutant of componentPage: a page for services and websites only.
KnownComponentPage(type) ==
  CASE type = "service" -> serviceEntityPage
    [] type = "website" -> websiteEntityPage
    [] OTHER -> {<<"/", Tab({})>>}

componentPage(type) ==
  CASE type = "service" -> serviceEntityPage
    [] type = "website" -> websiteEntityPage
    [] OTHER -> defaultEntityPage

apiPage ==
  {<<"/", WithWarnings(Tab({EntityAboutCard, EntityCatalogGraphCard,
                            Card({"apiProvidedBy"}, {"component"}), Card({"apiConsumedBy"}, {"component"})}))>>,
   <<"/definition", Tab({})>>}

userPage == {<<"/", WithWarnings(Tab({EntityOwnershipCard}))>>}

groupPage == {<<"/", WithWarnings(Tab({EntityOwnershipCard, Card({"hasMember"}, {"user"})}))>>}

systemPage ==
  {<<"/", WithWarnings(Tab({EntityAboutCard, EntityCatalogGraphCard, HasPartCard("component"),
                            HasPartCard("api"), HasPartCard("resource")}))>>,
   <<"/diagram", Tab({Card({"partOf", "hasPart", "apiConsumedBy", "apiProvidedBy", "consumesApi",
                            "providesApi", "dependencyOf", "dependsOn"}, Kinds)})>>}

domainPage ==
  {<<"/", WithWarnings(Tab({EntityAboutCard, EntityCatalogGraphCard, HasPartCard("system")}))>>}

entityPage(e) ==
  CASE e.kind = "component" -> componentPage(e.type)
    [] e.kind = "api" -> apiPage
    [] e.kind = "group" -> groupPage
    [] e.kind = "user" -> userPage
    [] e.kind = "system" -> systemPage
    [] e.kind = "domain" -> domainPage
    [] OTHER -> defaultEntityPage

Tabs(e) == {x[2] : x \in entityPage(e)}

\* Of the entity's relations, those that lead to an entity of the catalog and that a tab lists.
Related(e, relations, entities) ==
  {r.target : r \in {s \in relations :
     /\ s.source = Ref(e) /\ s.target \in Refs(entities)
     /\ \E tab \in Tabs(e) : \E card \in tab.cards : s.type \in card.relations /\ s.target[1] \in card.kinds}}

\* hasRelationWarnings: the page says that a relation leads nowhere.
RelationWarning(e, relations, entities) ==
  /\ \E tab \in Tabs(e) : tab.warnings
  /\ \E r \in relations : r.source = Ref(e) /\ r.target \notin Refs(entities)

----------------------------------------------------------------------------
(* The search page. *)

\* A filter with nothing selected does not filter.
Passes(value, selected) == selected = {} \/ value \in selected

\* The results of a search in the index of type "software-catalog", which is the default.
SearchResults(index, kinds, lifecycles) ==
  {d \in index : Passes(d.kind, kinds) /\ Passes(d.lifecycle, lifecycles)}

KindFilter == {"component", "template"}
LifecycleFilter == {"experimental", "production"}
=============================================================================
