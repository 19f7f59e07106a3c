------------------------------ MODULE MCGetBytes ------------------------------
(* Client and body failures for TLC, one per verdict. *)
EXTENDS GetBytes

ClientFailures == { <<Layer("eof")>>,             \* a hang-up: url.Error over bare EOF
                    <<Layer("clientTimeout")>>,   \* a per-attempt bound
                    <<Layer("wrap"), Layer("clientTimeout")>>,
                    <<Layer("permanent"), Layer("reset")>>,
                    <<Layer("tls")>> }
ReadFailures   == { <<Layer("unexpectedEOF")>>, <<Layer("reset")>> }

==============================================================================
