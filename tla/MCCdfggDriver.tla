---------------------------- MODULE MCCdfggDriver ----------------------------
(***************************************************************************)
(* Command lines for TLC: every pair of emitting options with the stages   *)
(* and --no-svg, and a few of them with every way to keep or delete files, *)
(* over a level given twice and over two of them.                          *)
(***************************************************************************)
EXTENDS CdfggDriver

Emitting ==
  {"o", "full", "static_graph", "dynamic_graph", "json", "dot", "ll", "profile"}

CommandLine(emitted, stages, no_svg, levels, keeping) ==
  [x \in Emitting |-> x \in emitted]
    @@ [levels |-> levels, no_svg |-> no_svg,
        static_stage |-> stages[1], dynamic_stage |-> stages[2]]
    @@ [x \in {"keep_tmp", "delete_bins", "debug"} |-> x \in keeping]

MCEmitting ==
  {CommandLine(emitted, stages, no_svg, <<>>, {}) :
     emitted \in UNION {kSubset(k, Emitting) : k \in 0..2},
     stages \in {<<"after", "after">>, <<"both", "before">>, <<"before", "both">>},
     no_svg \in BOOLEAN}

MCKeeping ==
  {CommandLine(emitted, <<"after", "both">>, FALSE, levels, keeping) :
     emitted \in {{"o"}, {"static_graph"}, {"dynamic_graph", "profile"}, {"full"}},
     levels \in {<<"O1", "O1">>, <<"O2", "O0", "O2">>},
     keeping \in SUBSET {"keep_tmp", "delete_bins", "debug"}}

MCArgSets == MCEmitting \cup MCKeeping

\* A removal that breaks off has removed nothing, or all but what is of the stage after.
MCRemovedFirst ==
  {{}, {File(place, l, what, stage) :
          place \in TmpPlaces \cup {"out"}, l \in {"O0", "O1", "O2"},
          what \in Delivered \cup {"bin"}, stage \in {"before", ""}}}

\* Nothing, the tmp of a run with --keep-tmp, or all that a run ever writes.
MCLeftovers == {{}, TmpPlaces, TmpPlaces \cup {"out", "-o"}}
==============================================================================
