SPECIFICATION Spec
CONSTANTS
    N = 2
    Mqtt = {0, 1}
    Elsewhere = {9}
    Sends = {s1, s2}
    Threshold = 3
    Nobody = Nobody
PROPERTY ChoiceStays
