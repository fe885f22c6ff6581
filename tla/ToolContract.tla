---------------------------- MODULE ToolContract ----------------------------
(***************************************************************************)
(* computer_use_agent/tool_registry.py and the conversions in              *)
(* desktop_mcp.py: the reviewed tools, which arguments and which           *)
(* discovered tools are accepted, and what an answer of the server means.  *)
(* An argument record has the fields that were given; strings are opaque.  *)
(***************************************************************************)
EXTENDS Integers, Sequences

Region == {"x", "y", "w", "h"}
MaxRegionPixels == 4000000

Reads(content, required, optional) ==
    [effect |-> "observation", content |-> content, approval |-> FALSE,
     required |-> required, allowed |-> required \cup optional]
Acts(required, optional) ==
    [effect |-> "side_effect", content |-> "text", approval |-> TRUE,
     required |-> required, allowed |-> required \cup optional]

ObservationTools ==
    [ui_snapshot |-> Reads("text", {}, {"scope"}),
     find |-> Reads("text", {"query"}, {"scope"}),
     list_windows |-> Reads("text", {}, {}),
     screenshot |-> Reads("image", {}, {}),
     capture_region |-> Reads("text_and_image", Region, {}),
     ocr |-> Reads("text", Region, {}),
     document_text |-> Reads("text", {}, {"scope"})]
ActionTools ==
    [activate_window |-> Acts({"window_id"}, {}),
     click |-> Acts({}, {"ref", "x", "y"}),
     scroll |-> Acts({"x", "y"}, {"delta_x", "delta_y"}),
     drag |-> Acts({"x", "y", "to_x", "to_y"}, {"duration_ms"}),
     type |-> Acts({"text"}, {"ref"}),
     key |-> Acts({"combo"}, {})]
OptionalTools == [browser_snapshot |-> Reads("text", {}, {"page_index", "detail"})]

(* reviewed_tools_with_optional                                            *)
Registry(optional) ==
    [t \in DOMAIN ObservationTools \cup DOMAIN ActionTools \cup optional |->
        IF t \in DOMAIN ObservationTools THEN ObservationTools[t]
        ELSE IF t \in DOMAIN ActionTools THEN ActionTools[t] ELSE OptionalTools[t]]

(* ToolSpec: only what acts needs the approval of the host                 *)
IsSpec(spec) ==
    /\ spec.required \subseteq spec.allowed
    /\ spec.approval <=> spec.effect = "side_effect"
    /\ spec.content # "text" => spec.effect = "observation"

Given(a, field, default) == IF field \in DOMAIN a THEN a[field] ELSE default
Abs(n) == IF n < 0 THEN -n ELSE n

(* validate_tool_arguments                                                 *)
ArgumentsValid(tool, a) ==
    LET spec == Registry(DOMAIN OptionalTools)[tool]
        dx == Given(a, "delta_x", 0)
        dy == Given(a, "delta_y", 0)
    IN /\ spec.required \subseteq DOMAIN a /\ DOMAIN a \subseteq spec.allowed
       /\ tool = "click" => DOMAIN a \in {{"ref"}, {"x", "y"}}
       /\ tool = "scroll" => <<dx, dy>> # <<0, 0>> /\ Abs(dx) <= 2400 /\ Abs(dy) <= 2400
       /\ tool = "drag" => /\ <<a.x, a.y>> # <<a.to_x, a.to_y>>
                           /\ Given(a, "duration_ms", 250) \in 0..5000
       /\ tool \in {"ocr", "capture_region"} =>
            /\ a.x >= 0 /\ a.y >= 0 /\ a.w > 0 /\ a.h > 0
            /\ a.w * a.h <= MaxRegionPixels

(* verify_discovered_tools: exactly the reviewed ones, each with its schema *)
Discovered(tools, optional) ==
    LET names == {t.name : t \in tools}
    IN /\ names = DOMAIN Registry(optional)
       /\ \A t, u \in tools : t.name = u.name => t = u
       /\ \A t \in tools : t.schema = Registry(optional)[t.name].allowed

(* _classify_action_text: an answer of the server to an action             *)
RejectedTexts == {"aborted", "human_active", "gate", "user", "authority_lost"}
ErrorTexts == {"stale_element", "not_invokable", "driver_error"}
UnknownTexts == {"native_authority_lost", "native_outcome_unknown"}
Classify(text) ==
    CASE text = "ok" -> "success"
      [] text \in RejectedTexts -> "rejected"
      [] text \in ErrorTexts -> "action_error"
      [] text \in UnknownTexts -> "unknown_outcome"
      [] OTHER -> "protocol"

(* _protocol_failure                                                       *)
Protocol(spec) ==
    IF spec.effect = "side_effect" THEN "unknown_outcome" ELSE "action_error"

(* convert_mcp_result; a raw answer is [error, kinds, text, decodes], its  *)
(* text block classed as the server wrote it                               *)
Convert(spec, raw) ==
    LET failed == raw.text = "error" /\ spec.effect = "observation"
        shaped ==
            CASE spec.content = "text" -> raw.kinds = <<"text">>
              [] spec.content = "image" -> raw.kinds = <<"image">> /\ raw.decodes
              [] OTHER ->
                    \/ raw.kinds = <<"text">>
                    \/ raw.kinds = <<"text", "image">> /\ raw.decodes /\ ~failed
        answer == IF spec.effect = "side_effect" THEN Classify(raw.text)
                  ELSE IF failed THEN "action_error" ELSE "success"
    IN IF raw.error \/ ~shaped \/ answer = "protocol" THEN Protocol(spec) ELSE answer

(* _safe_result: what a status says about the dispatch                     *)
DispatchOf(status) ==
    CASE status \in {"success", "action_error"} -> "dispatched"
      [] status \in {"rejected", "transport_error"} -> "not_dispatched"
      [] OTHER -> "unknown"
=============================================================================
