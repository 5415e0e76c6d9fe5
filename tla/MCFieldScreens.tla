--------------------------- MODULE MCFieldScreens ---------------------------
(* Small instances of FieldScreens for TLC. *)
EXTENDS FieldScreens

CONSTANTS t1, x1, x2

Engines == {<<t1, "registrar">>, <<t1, "screen">>}

Cases(domains, engines, ids, births, worries) ==
  [domain: domains, pages: {{t1}}, engines: {engines}, ids: {ids},
   ops: {1..Cardinality(ids)}, born: births, disruptions: {worries}]

Domains == {"attendance", "harvest"}
Alone   == {<<t1, "screen">>}

\* One draft, with the registrar or without; and two drafts that wait at once.
FewCases ==
  UNION {Cases(Domains, Engines, {x1}, {{}}, 1),
         Cases({"attendance"}, Engines, {x1}, {{x1}}, 0),
         Cases(Domains, Alone, {x1}, {{}, {x1}}, 1),
         Cases(Domains, Alone, {x1, x2}, {{}}, 0)}
=============================================================================
