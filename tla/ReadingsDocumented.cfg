\* Three registers whose comments the code does not follow.
CONSTANTS
    Images <- SomeImages
    Asked = {"UVW_MUX", "PWM_FREQ", "ZERO"}
    Rewritten = {"PWM_FREQ"}
    Bytes = {}
SPECIFICATION Spec
INVARIANT ConfigAsDocumented
