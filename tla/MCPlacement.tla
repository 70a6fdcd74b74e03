------------------------------- MODULE MCPlacement -------------------------------
(* Two models of llama.cpp, one of ComfyUI and the captioners on a card that *)
(* holds any two of them, but for the largest                                *)
EXTENDS Placement

CONSTANTS chat, coding, image, captioner

MCModels == {chat, coding, image, captioner}
MCRuntimes == {"llamacpp", "comfyui", "vision"}
MCRuntimeOf ==
    [m \in MCModels |->
        IF m \in {chat, coding} THEN "llamacpp" ELSE IF m = image THEN "comfyui" ELSE "vision"]
MCVram ==
    [m \in MCModels |->
        IF m = chat THEN 2 ELSE IF m = coding THEN 3 ELSE IF m = image THEN 4 ELSE 1]
MCReadings == {1, 6}
==================================================================================
