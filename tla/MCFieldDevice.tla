---------------------------- MODULE MCFieldDevice ----------------------------
(* Small instances of FieldDevice for TLC. *)
EXTENDS FieldDevice, TLC

CONSTANTS t1, t2, c1, c2

Engines == {<<t1, "registrar">>, <<t1, "screen">>}
Alone   == {<<t1, "screen">>}
Domains == {"attendance", "harvest"}

Cases(domains, pages, engines, ops, births, worries) ==
  [domain: domains, pages: {pages}, engines: {engines}, ids: {Ids},
   ops: {ops}, born: births, disruptions: {worries}]

\* One page whose registrar and whose screen synchronize at once; two pages, one
\* of which synchronizes; one page that may queue a draft twice; and two pages
\* that do, when nothing goes wrong.
OneOrTwoPages ==
  UNION {Cases(Domains, {t1}, Engines, {1}, {{}}, 1),
         Cases(Domains, {t1, t2}, Alone, {1}, SUBSET Ids, 1),
         Cases(Domains, {t1}, Alone, {1, 2}, SUBSET Ids, 1),
         Cases(Domains, {t1, t2}, Alone, {1, 2}, {Ids}, 0)}

\* Two accounts on one page, when nothing goes wrong.
OnePage ==
  [domain: Domains, pages: {{t1}}, engines: {Engines}, ids: {Ids},
   ops: {{1}}, born: {{}}, disruptions: {0}]

ContentSymmetry == Permutations({c1, c2})
=============================================================================
