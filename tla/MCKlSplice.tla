---------------------------- MODULE MCKlSplice ----------------------------
(* One initial seed of two messages; buffers of one, two and four regions, *)
(* below, at and beyond max_seed_region_count + 1.                         *)
EXTENDS KlSplice

SeedsDef == {<< <<"a">>, <<"b", "c">> >>}
MutatedDef == {<< <<"x">> >>, << <<"x">>, <<"y">> >>,
               << <<"y">>, <<"x">>, <<"x">>, <<"y">> >>}
=============================================================================
