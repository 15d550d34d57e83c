----------------------------- MODULE DynamicGraph -----------------------------
(***************************************************************************)
(* From the program to its pictures: the dump pass writes the graph of the *)
(* module, the program runs, ir_graph_merge_with_profile puts the counts   *)
(* of its log into the graph it reads back, and ir_graph_to_dot draws what *)
(* it reads.  The tools have nothing but files in common.                  *)
(***************************************************************************)
EXTENDS InstrumentedProgram, IrGraphSerde, DotRenderer

\* What is absent from the profile is absent from the graph, and no text is null.
ASSUME FileAssumption ==
  /\ NoCount = None
  /\ \A m \in Modules : /\ Null \notin Operands(m)
                         /\ \A p \in Pointers(m) : Null # <<"opcode", Instr(m, p).op>>

VARIABLES json,     \* the graph JSON files: of those written, what is in them
          dot       \* and the pictures

fileVars == <<json, dot>>
dynamicVars == <<buildVars, runVars, fileVars>>

DynamicInit == RunInit /\ json = EmptyMap /\ dot = EmptyMap

\* The files after one has been written.
WithFile(files, name, content) ==
  [x \in DOMAIN files \cup {name} |-> IF x = name THEN content ELSE files[x]]

\* DumpPass::dumpModule, of the module that is instrumented.
Dump ==
  /\ phase = "injected" /\ json = EmptyMap
  /\ json' = WithFile(json, "static", Serialize(ModuleGraph))
  /\ UNCHANGED <<buildVars, runVars, dot>>

Execute == "static" \in DOMAIN json /\ Run /\ UNCHANGED fileVars

\* Puts the counts into their elements.
WithCounts(g, count) ==
  LET counted(kind, vector) ==
        [k \in DOMAIN vector |-> [vector[k] EXCEPT !.execution_count = count[<<kind, k - 1>>]]]
  IN [g EXCEPT !.functions = counted("function", @),
               !.basic_blocks = counted("basic_block", @),
               !.edges = counted("edge", @)]

\* The driver runs the tool when the exit code of the program is 0.
MergeProfile ==
  /\ status \in {"exited", "quit"} /\ "dynamic" \notin DOMAIN json
  /\ LET g == Deserialize(json["static"]) IN
       /\ Acceptable(ProfiledPart(g), stdout)
       /\ json' = WithFile(json, "dynamic",
                         Serialize(WithCounts(g, Merged(ProfiledPart(g), stdout))))
  /\ UNCHANGED <<buildVars, runVars, dot>>

Draw(kind) ==
  /\ status # "running" /\ kind \in DOMAIN json \ DOMAIN dot
  /\ dot' = WithFile(dot, kind, RenderDotGraph(Deserialize(json[kind])))
  /\ UNCHANGED <<buildVars, runVars, json>>

DynamicNext ==
  \/ Compile /\ UNCHANGED fileVars
  \/ Dump
  \/ Execute
  \/ MergeProfile
  \/ \E kind \in {"static", "dynamic"} : Draw(kind)

DynamicSpec == DynamicInit /\ [][DynamicNext]_dynamicVars

------------------------------------------------------------------------------
\* What a tool reads from a file is what the tool before it had in memory: the
\* graph of the module, without counts or with those of the log.  No optional
\* field is lost, and no 0 becomes a missing value or the other way (to_json,
\* from_json).
GraphSurvivesFiles ==
  /\ "static" \in DOMAIN json => Deserialize(json["static"]) = ModuleGraph
  /\ "dynamic" \in DOMAIN json =>
       Deserialize(json["dynamic"]) = WithCounts(ModuleGraph, Merged(BuiltGraph, stdout))

DrawnBlocks(picture) ==
  UNION {{<<c, b>> : b \in DOMAIN picture.clusters[c].blocks} : c \in DOMAIN picture.clusters}
BlockOf(picture, at) == picture.clusters[at[1]].blocks[at[2]]
DrawnNodes(picture) ==
  UNION {{<<at, n>> : n \in DOMAIN BlockOf(picture, at).nodes} : at \in DrawnBlocks(picture)}
NodeOf(picture, at) == BlockOf(picture, at[1]).nodes[at[2]]

\* In every picture each node of the graph is drawn once, in the cluster of its
\* block, which is drawn once, in the cluster of its function; no two things have
\* one name; and each edge is drawn once, between two nodes that are drawn and not
\* created by naming them (renderDotGraph).
PictureIsWhole ==
  \A kind \in DOMAIN dot :
    LET picture == dot[kind]
        names == {NodeOf(picture, at).name : at \in DrawnNodes(picture)}
        placed == {<<picture.clusters[at[1][1]].name, BlockOf(picture, at[1]).name,
                     NodeOf(picture, at).name>> : at \in DrawnNodes(picture)}
        function(b) == FunctionClusterId(module.function_of[b] - 1)
        block(b) == BasicBlockClusterId(module.function_of[b] - 1, b - 1)
    IN /\ Cardinality(DrawnNodes(picture)) = Len(nodes)
       /\ names = {NodeRenderId(n) : n \in IdsIn(nodes)}
       /\ \A p \in Pointers(module) :
            <<function(p[1]), block(p[1]), NodeRenderId(instructionNodeIds[p])>> \in placed
       /\ Cardinality(DrawnBlocks(picture)) = Len(module.body)
       /\ Len(picture.clusters) = module.functions /\ picture.nodes = <<>>
       /\ Len(picture.edges) = Len(edges)
       /\ \A k \in DOMAIN picture.edges :
            {picture.edges[k].from, picture.edges[k].to} \subseteq names

\* The labels of the edges of a style from block s to the first node of block t.
EdgeLabels(picture, style, source, target) ==
  LET drawn == {k \in DOMAIN picture.edges :
                  /\ picture.edges[k].style = style
                  /\ picture.edges[k].from = NodeRenderId(source)
                  /\ picture.edges[k].to = NodeRenderId(target)}
  IN [k \in drawn |-> picture.edges[k].label]

\* Who looks at the pictures of a program that has run to its end sees what it
\* did: the dynamic one has on every function, block and call edge how often it was
\* entered or made, 0 included, and on the edges between two blocks how often they
\* were taken, or less if one has no log; functions defined elsewhere, and everything in the
\* static one, have no count.
PictureTellsTheRun ==
  /\ "dynamic" \in DOMAIN dot /\ status = "exited" /\ Live = {1} =>
       LET picture == dot["dynamic"] IN
         /\ \A f \in Functions(module) :
              picture.clusters[f].label
                = IF IsDeclaration(module, f) THEN <<<<"function", f>>>>
                  ELSE <<<<"function", f>>, entered[EntryBlock(module, f)]>>
         /\ \A at \in DrawnBlocks(picture) :
              \E b \in Blocks(module) : BlockOf(picture, at).label = <<<<"block", b>>, entered[b]>>
         /\ \A p \in DirectCalls :
              LET labels == EdgeLabels(picture, <<"orange", "dashed">>, instructionNodeIds[p],
                                       FirstNode(EntryBlock(module, Instr(module, p).callee)))
              IN \E k \in DOMAIN edges : labels = (k :> <<called[p]>>)
         /\ \A s, t \in Blocks(module) :
              LET labels == EdgeLabels(picture, <<"orange", "solid">>,
                                       instructionNodeIds[Terminator(module, s)], FirstNode(t))
                  sum == SumOf([k \in DOMAIN labels |-> labels[k][1]])
              IN IF \A e \in EdgesInto(module, t) : e[1] = s => IsLogged(e)
                 THEN sum = Traversals(s, t) ELSE sum <= Traversals(s, t)
  /\ "static" \in DOMAIN dot =>
       LET picture == dot["static"] IN
         /\ \A f \in Functions(module) : picture.clusters[f].label = <<<<"function", f>>>>
         /\ \A at \in DrawnBlocks(picture) : Len(BlockOf(picture, at).label) = 1
         /\ \A k \in DOMAIN picture.edges :
              picture.edges[k].style[1] = "orange" => picture.edges[k].label = None

\* README.md, "Сравнение статического и динамического графа": the colors tell the
\* blocks that were hot and those that were not executed.  In a dynamic picture the
\* blocks with the highest count have the hot color, exactly those never executed
\* the cold one, and a block that was executed more often is never the colder one; the
\* static picture has no heat (interpolateBasicBlockFillColor).
HeatTellsTheRun ==
  /\ "dynamic" \in DOMAIN dot =>
       LET picture == dot["dynamic"]
           drawn == {BlockOf(picture, at) : at \in DrawnBlocks(picture)}
           count(b) == b.label[2]
           hottest == {b \in drawn : \A c \in drawn : count(c) <= count(b)}
       IN /\ \A b \in hottest : count(b) > 0 => b.fill = HotColor
          /\ \A b \in drawn : b.fill = ColdColor <=> count(b) = 0
          /\ \A b, c \in drawn : count(b) <= count(c) =>
               /\ b.fill[1] <= c.fill[1]      \* red rises
               /\ b.fill[2] >= c.fill[2]      \* green and blue fall
               /\ b.fill[3] >= c.fill[3]
  /\ "static" \in DOMAIN dot =>
       \A at \in DrawnBlocks(dot["static"]) : BlockOf(dot["static"], at).fill = NoCountColor

==============================================================================
