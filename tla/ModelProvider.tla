----------------------------- MODULE ModelProvider -----------------------------
(***************************************************************************)
(* One call of a model provider by the Model Gateway of GovSafeAgent       *)
(* (safeagent_gov/model_gateway/providers.py): what generate returns or    *)
(* raises, by protocol, for everything an endpoint may do.  The payload    *)
(* sent and the words of the answer are left out.                          *)
(***************************************************************************)

RemoteProtocols ==
  {"openai_chat", "openai_responses", "anthropic_messages", "gemini_generate_content",
   "azure_openai", "aws_bedrock", "vertex_ai", "ollama_chat", "vllm_openai"}
Protocols == RemoteProtocols \cup {"internal"}

(* ProviderDefinition: an internal provider has no credential.             *)
Definitions == {d \in [protocol: Protocols, credential_env: BOOLEAN] :
                  d.protocol = "internal" => ~d.credential_env}

(* _send_sync: what the connection ends with, other than a body.           *)
Transient == {"unreachable", "timed out", "disconnected", "http 408 or 425", "http 429", "http 5xx"}
Rejecting == {"redirect", "other http error", "above 4 MiB", "no json", "no object"}
Uncaught  == {"incomplete read", "no integer length"}

(* An object that came back: whether it has the protocol's members with    *)
(* their types, the text in it, whether its usage is one, and whether the  *)
(* finish reason is a word.                                                *)
Objects == [shaped: BOOLEAN, text: {"none", "empty", "some", "above 1000000"},
            usage: BOOLEAN, reason: BOOLEAN]
Replies == Transient \cup Rejecting \cup Uncaught

(* parse_provider_response.  Where text comes in parts there must be some; *)
(* ollama has its usage beside the message.  ProviderResult refuses the    *)
(* rest with a ValidationError, which nothing catches.                     *)
InParts == {"openai_responses", "anthropic_messages", "aws_bedrock", "gemini_generate_content", "vertex_ai"}
IsMisshaped(protocol, object) ==
  \/ ~object.shaped \/ object.text = "none"
  \/ object.text = "empty" /\ protocol \in InParts
  \/ ~object.usage /\ protocol # "ollama_chat"
Parsed(protocol, object) ==
  IF IsMisshaped(protocol, object) THEN "response error"
  ELSE IF object.text = "above 1000000" \/ ~object.reason THEN "exception"
  ELSE "result"

Sent(reply) ==
  IF reply \in Transient THEN "transport error"
  ELSE IF reply \in Rejecting THEN "response error"
  ELSE "exception"

Outcomes == {"result", "transport error", "response error", "unavailable", "exception"}

(* generate.  The credential is looked up in the environment; the offline  *)
(* provider neither waits nor fails.                                       *)
Generated(definition) ==
  IF definition.protocol = "internal" THEN {"result"}
  ELSE (IF definition.credential_env THEN {"unavailable"} ELSE {})
       \cup {Sent(reply) : reply \in Replies}
       \cup {Parsed(definition.protocol, object) : object \in Objects}
=============================================================================
