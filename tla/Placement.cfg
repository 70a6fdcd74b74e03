CONSTANTS
    chat = chat
    coding = coding
    image = image
    captioner = captioner
    Models <- MCModels
    Runtimes <- MCRuntimes
    RuntimeOf <- MCRuntimeOf
    Vram <- MCVram
    Usable = 6
    Nothing = Nothing
    Engine = Engine
    Sessions = {s1}
    Launches = {l1}
    Coding = {coding}
    Readings <- MCReadings
SPECIFICATION Spec
 
PROPERTY LoadsFit
