----------------------------- MODULE SymbolFilter -----------------------------
(***************************************************************************)
(* The allow-list of internal/nodeprofile as pure operators.  A package    *)
(* path, or a prefix, is the sequence of its segments; a trailing slash    *)
(* leaves an empty last segment.  A function is a record of its package    *)
(* and its name.                                                           *)
(***************************************************************************)
EXTENDS Integers, Sequences, FiniteSets, SequencesExt

CONSTANT Domains   \* the segments that hold a dot

NoFunction == [pkg |-> << >>, name |-> ""]      \* a line without a symbol
Placeholder == [pkg |-> << >>, name |-> "filtered"]

hasDomain(pkg) == pkg # << >> /\ Head(pkg) \in Domains

ValidModulePrefix(prefix) ==
  LET trimmed == IF prefix # << >> /\ Last(prefix) = "" THEN Front(prefix) ELSE prefix
  IN  /\ Len(trimmed) > 1
      /\ Tail(trimmed) # <<"">>
      /\ hasDomain(trimmed)

\* A filter is the prefixes it holds and its third-party policy.
NewSymbolFilter(prefixes, thirdParty) ==
  [allowed |-> {p \in prefixes : ValidModulePrefix(p)}, thirdParty |-> thirdParty]

isAllowed(f, pkg) == \E p \in f.allowed : IsPrefix(p, pkg)

\* Kernel frames are the eBPF path's; a pulled profile has none.
keep(f, fr) ==
  \/ fr.kernel
  \/ /\ fr.fn # NoFunction
     /\ \/ ~hasDomain(fr.fn.pkg)
        \/ isAllowed(f, fr.fn.pkg)
        \/ f.thirdParty = "keep"

\* filterFrames, and the same loop over the lines of a pulled location: what is
\* not at a Kept place becomes the placeholder, a run of them one.
Collapse(s, Kept, placeholder) ==
  LET Shown == {i \in 1 .. Len(s) : i \in Kept \/ i = 1 \/ i - 1 \in Kept}
      at == SetToSortSeq(Shown, <)
  IN  [n \in 1 .. Len(at) |-> IF at[n] \in Kept THEN s[at[n]] ELSE placeholder]

-----------------------------------------------------------------------------
\* A pulled profile: the function table, the locations with their inlined
\* lines, the samples as stacks of locations, and everything else a runtime
\* writes (mappings, labels, comments) as the set "identity".
KeepLine(f, fn) == keep(f, [kernel |-> FALSE, fn |-> fn])

redactLocations(f, p) ==
  LET Kept(lines) == {i \in DOMAIN lines : KeepLine(f, lines[i])}
  IN  [l \in DOMAIN p.locations |->
         Collapse(p.locations[l], Kept(p.locations[l]), Placeholder)]

redactSamples(p, locations, maxFrames) ==
  LET Whole(l) == locations[l] = <<Placeholder>>
      Show(stack) ==
        LET cut == SubSeq(stack, 1, IF Len(stack) < maxFrames THEN Len(stack) ELSE maxFrames)
            Shown == {i \in 1 .. Len(cut) : ~Whole(cut[i]) \/ i = 1 \/ ~Whole(cut[i - 1])}
            at == SetToSortSeq(Shown, <)
        IN  [n \in 1 .. Len(at) |-> cut[at[n]]]
  IN  [s \in DOMAIN p.samples |-> Show(p.samples[s])]

\* Fault, not the code: the function table is left alone.
redactProfileKeepsTable(f, p, maxFrames) ==
  LET locations == redactLocations(f, p)
  IN  [p EXCEPT !.locations = locations,
                !.samples = redactSamples(p, locations, maxFrames),
                !.functions = p.functions \cup {Placeholder}]

\* The table is rebuilt from the functions some location still shows.
redactProfile(f, p, maxFrames) ==
  LET locations == redactLocations(f, p)
      kept == UNION {{fn \in ToSet(p.locations[l]) : KeepLine(f, fn)} : l \in DOMAIN p.locations}
  IN  [p EXCEPT !.locations = locations,
                !.samples = redactSamples(p, locations, maxFrames),
                !.functions = (p.functions \cap kept) \cup {Placeholder}]

stripNonSymbolIdentity(p) == [p EXCEPT !.identity = {}]

FilterPulled(f, p, maxFrames) == stripNonSymbolIdentity(redactProfile(f, p, maxFrames))

\* Validate: some sampled frame is neither the runtime's nor redacted.
isServiceFunc(fn) == fn \notin {NoFunction, Placeholder} /\ fn.pkg # <<"runtime">>

Validate(p) ==
  \E s \in DOMAIN p.samples : \E i \in 1 .. Len(p.samples[s]) :
    \E fn \in ToSet(p.locations[p.samples[s][i]]) : isServiceFunc(fn)
=============================================================================
