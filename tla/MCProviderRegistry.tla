--------------------------- MODULE MCProviderRegistry ---------------------------
(* An instance of ProviderRegistry for TLC: one module may have any one defect an *)
(* admission looks for, another shares names with it, and so does an object.      *)
EXTENDS ProviderRegistry, TLC

CONSTANTS main, other, obj

DecisionOf(strategy) ==
  [path |-> "record", digest |-> "d1", client |-> "client", strategy |-> strategy]
MCCatalog == ("a" :> DecisionOf("direct_api")) @@ ("b" :> DecisionOf("direct_api")) @@ ("z" :> None)

Capability == [progress |-> "exact", percentage |-> TRUE, resume |-> "byte_range",
               offset |-> TRUE, blocks |-> TRUE, limits |-> TRUE]
Command(k) == [name |-> k, spec |-> TRUE, capability |-> Capability]

\* A root object with one property, an object too, which has one variant.
Node(object, closed, properties, parts) ==
  [object |-> object, closed |-> closed, required |-> TRUE,
   properties |-> properties, parts |-> parts]
Tree(closed) == << Node(TRUE, TRUE, {2}, {}), Node(FALSE, TRUE, {}, {3}), Node(TRUE, closed, {}, {}) >>

Good(n, ks) ==
  [abstract |-> FALSE, overrides |-> FALSE, constant |-> n, raises |-> None,
   name |-> [text |-> n, padded |-> FALSE],
   descriptor |-> [name |-> n, description |-> TRUE, client |-> "client", strategy |-> "direct_api",
                  capability |-> Capability],
   commands |-> [i \in DOMAIN ks |-> Command(ks[i])],
   schemas |-> [k \in {ks[i] : i \in DOMAIN ks} |-> Tree(TRUE)],
   decision |-> DecisionOf("direct_api"), malformed |-> FALSE, declares |-> None,
   bases |-> {"http"}]

G == Good("a", <<"k1", "k2">>)
WithCapability(c, k) == [c EXCEPT !.commands = <<[@[1] EXCEPT !.capability = k], @[2]>>]
Defective ==
  { [G EXCEPT !.abstract = TRUE], [G EXCEPT !.overrides = TRUE],
    [G EXCEPT !.constant = None], [G EXCEPT !.constant = "b"],
    [G EXCEPT !.name.text = None], [G EXCEPT !.name.padded = TRUE],
    [G EXCEPT !.descriptor = None], [G EXCEPT !.descriptor.name = "b"],
    [G EXCEPT !.descriptor.description = FALSE], [G EXCEPT !.descriptor.client = "another"],
    [G EXCEPT !.descriptor.strategy = "hybrid"], [G EXCEPT !.commands = <<>>],
    [G EXCEPT !.commands = <<Command("k1"), Command("k1")>>, !.schemas = [k \in {"k1"} |-> Tree(TRUE)]],
    [G EXCEPT !.commands[1].spec = FALSE],
    [G EXCEPT !.schemas = None], [G EXCEPT !.schemas = [k \in {"k1"} |-> Tree(TRUE)]],
    [G EXCEPT !.schemas["k1"] = None], [G EXCEPT !.schemas["k1"] = Tree(FALSE)],
    [G EXCEPT !.decision = None], [G EXCEPT !.decision = DecisionOf("hybrid")],
    [G EXCEPT !.decision.path = "unsafe"], [G EXCEPT !.decision.path = "elsewhere"],
    [G EXCEPT !.decision.path = "linked out"], [G EXCEPT !.malformed = TRUE],
    [G EXCEPT !.decision = None, !.name.text = "z", !.descriptor.name = "z", !.constant = "z"],
    WithCapability(G, [Capability EXCEPT !.percentage = FALSE]),
    WithCapability(G, [Capability EXCEPT !.offset = FALSE]),
    WithCapability(G, [Capability EXCEPT !.blocks = FALSE]),
    [G EXCEPT !.descriptor.capability.percentage = FALSE],
    [G EXCEPT !.bases = {"http", "tap"}], [G EXCEPT !.bases = {"library"}],
    [G EXCEPT !.raises = "ProviderUnavailableError"], [G EXCEPT !.raises = "RuntimeError"],
    [G EXCEPT !.raises = "ValueError"], [G EXCEPT !.declares = "RuntimeError"],
    [G EXCEPT !.declares = "ValueError"] }

MCCandidates ==
  (1 :> (Defective \cup {G})) @@
  (2 :> {G, Good("b", <<"k2", "k3">>), Good("b", <<"k3", "reserved">>), Good("b", <<"builtin", "demo">>)}) @@
  (obj :> {G, Good("b", <<"k3">>)})
===============================================================================
